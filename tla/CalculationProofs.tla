-------------------------- MODULE CalculationProofs --------------------------
(***************************************************************************)
(* What is computed from the rows of the warehouse, and what is kept of    *)
(* it: the conditions of a strategy and their prefilter, the totals and    *)
(* lists of the coverage gaps, the memory file, and the parts of a market  *)
(* snapshot, for every value of the constants.                             *)
(***************************************************************************)
EXTENDS ProceduresProofs

-----------------------------------------------------------------------------
(* Functions of the community modules: sums over finite sets.               *)

\* The function SumFunctionOnSet is defined by, on the subsets of S in D.
SumsOver(f, D, g) ==
  \A s \in D : g[s] = IF s = {} THEN 0 ELSE f[CHOOSE x \in s : TRUE] + g[s \ {CHOOSE x \in s : TRUE}]

AreSummed(f, S) == IsFiniteSet(S) /\ \A x \in S : f[x] \in Int

LEMMA PartsOfSummed ==
  ASSUME NEW f, NEW S, AreSummed(f, S), NEW s \in SUBSET S
  PROVE  /\ AreSummed(f, s) /\ Cardinality(s) \in Nat
         /\ s # {} => (CHOOSE x \in s : TRUE) \in s
         /\ \A x \in s : s \ {x} \in SUBSET S /\ Cardinality(s \ {x}) = Cardinality(s) - 1
         /\ s = {} <=> Cardinality(s) = 0
<1>1. IsFiniteSet(s) /\ Cardinality(s) \in Nat
  BY FS_Subset, FS_CardinalityType DEF AreSummed
<1>2. \A x \in s : Cardinality(s \ {x}) = Cardinality(s) - 1
  BY <1>1, FS_RemoveElement
<1>3. s = {} <=> Cardinality(s) = 0
  BY <1>1, FS_EmptySet
<1> QED BY <1>1, <1>2, <1>3 DEF AreSummed

\* There is such a function, by induction on the size of the subsets.
LEMMA SumsOverExist ==
  ASSUME NEW f, NEW S, AreSummed(f, S)
  PROVE  \E g \in [SUBSET S -> Int] : SumsOver(f, SUBSET S, g)
<1> DEFINE Upto(n) == {s \in SUBSET S : Cardinality(s) <= n}
           T == {n \in Nat : ~ \E g \in [Upto(n) -> Int] : SumsOver(f, Upto(n), g)}
<1>1. T = {}
  <2> SUFFICES ASSUME T # {} PROVE FALSE
    OBVIOUS
  <2>1. PICK k \in T : \A y \in T : k <= y
    <3>1. T \in SUBSET Nat
      OBVIOUS
    <3> HIDE DEF T
    <3> QED BY <3>1, Least
  <2>2. CASE k = 0
    <3> DEFINE g == [s \in Upto(k) |-> 0]
    <3>1. \A s \in Upto(k) : s = {}
      BY <2>2, PartsOfSummed
    <3>2. g \in [Upto(k) -> Int] /\ SumsOver(f, Upto(k), g)
      BY <3>1 DEF SumsOver
    <3> QED BY <3>2
  <2>3. CASE k # 0
    <3>1. k - 1 \in Nat /\ k - 1 \notin T
      <4>1. k \in Nat
        OBVIOUS
      <4> HIDE DEF T
      <4> QED BY <2>1, <2>3, <4>1
    <3>2. PICK g \in [Upto(k - 1) -> Int] : SumsOver(f, Upto(k - 1), g)
      BY <3>1
    <3> DEFINE of(s) == IF s = {} THEN 0 ELSE f[CHOOSE x \in s : TRUE] + g[s \ {CHOOSE x \in s : TRUE}]
               h == [s \in Upto(k) |-> of(s)]
    <3>3. ASSUME NEW s \in Upto(k), s # {}
          PROVE  /\ s \ {CHOOSE x \in s : TRUE} \in Upto(k - 1)
                 /\ f[CHOOSE x \in s : TRUE] \in Int
      <4>1. (CHOOSE x \in s : TRUE) \in s
        BY <3>3
      <4> DEFINE c == CHOOSE x \in s : TRUE
      <4> HIDE DEF c
      <4>2. c \in s
        BY <4>1 DEF c
      <4>3. s \in SUBSET S /\ Cardinality(s) <= k
        OBVIOUS
      <4>4. s \ {c} \in SUBSET S /\ Cardinality(s \ {c}) = Cardinality(s) - 1 /\ Cardinality(s) \in Nat
        BY <4>2, <4>3, PartsOfSummed
      <4>5. s \ {c} \in Upto(k - 1)
        BY <4>3, <4>4
      <4>6. f[c] \in Int
        BY <4>2, <4>3 DEF AreSummed
      <4> QED BY <4>5, <4>6 DEF c
    <3>4. h \in [Upto(k) -> Int]
      <4>1. ASSUME NEW s \in Upto(k) PROVE of(s) \in Int
        <5>1. CASE s = {}
          BY <5>1
        <5>2. CASE s # {}
          <6>1. g[s \ {CHOOSE x \in s : TRUE}] \in Int /\ f[CHOOSE x \in s : TRUE] \in Int
            BY <3>2, <3>3, <5>2
          <6> QED BY <5>2, <6>1
        <5> QED BY <5>1, <5>2
      <4> HIDE DEF of
      <4> QED BY <4>1
    <3>5. \A s \in Upto(k - 1) : s \in Upto(k) /\ h[s] = g[s]
      <4>1. ASSUME NEW s \in Upto(k - 1) PROVE s \in Upto(k)
        BY PartsOfSummed
      <4>2. ASSUME NEW s \in Upto(k - 1) PROVE h[s] = g[s]
        <5>1. g[s] = of(s)
          BY <3>2 DEF SumsOver
        <5>2. s \in Upto(k)
          BY <4>1
        <5> HIDE DEF of
        <5> QED BY <5>1, <5>2
      <4> QED BY <4>1, <4>2
    <3>6. SumsOver(f, Upto(k), h)
      <4>1. ASSUME NEW s \in Upto(k), s # {}
            PROVE  h[s] = f[CHOOSE x \in s : TRUE] + h[s \ {CHOOSE x \in s : TRUE}]
        <5>1. s \ {CHOOSE x \in s : TRUE} \in Upto(k - 1)
          BY <3>3, <4>1
        <5>2. h[s \ {CHOOSE x \in s : TRUE}] = g[s \ {CHOOSE x \in s : TRUE}]
          BY <3>5, <5>1
        <5>3. h[s] = of(s)
          OBVIOUS
        <5>4. of(s) = f[CHOOSE x \in s : TRUE] + g[s \ {CHOOSE x \in s : TRUE}]
          BY <4>1
        <5> QED BY <5>2, <5>3, <5>4
      <4>2. {} \in Upto(k) => h[{}] = 0
        OBVIOUS
      <4> HIDE DEF h
      <4> QED BY <4>1, <4>2 DEF SumsOver
    <3> QED BY <3>4, <3>6
  <2> QED BY <2>2, <2>3
<1>2. Cardinality(S) \in Nat /\ Upto(Cardinality(S)) = SUBSET S
  <2>1. IsFiniteSet(S) /\ Cardinality(S) \in Nat
    BY FS_CardinalityType DEF AreSummed
  <2>2. \A s \in SUBSET S : Cardinality(s) <= Cardinality(S)
    BY <2>1, FS_Subset
  <2> QED BY <2>1, <2>2
<1>3. \E g \in [Upto(Cardinality(S)) -> Int] : SumsOver(f, Upto(Cardinality(S)), g)
  BY <1>1, <1>2
<1> HIDE DEF Upto
<1> QED BY <1>2, <1>3

\* Two of them agree on what they share.
LEMMA SumsOverAgree ==
  ASSUME NEW f, NEW S, AreSummed(f, S), NEW D, NEW E, NEW g, NEW h, SUBSET S \subseteq D, SUBSET S \subseteq E,
         SumsOver(f, D, g), SumsOver(f, E, h)
  PROVE  g[S] = h[S]
<1> DEFINE T == {n \in Nat : \E s \in SUBSET S : Cardinality(s) = n /\ g[s] # h[s]}
<1>1. T = {}
  <2> SUFFICES ASSUME T # {} PROVE FALSE
    OBVIOUS
  <2>1. PICK k \in T : \A y \in T : k <= y
    <3>1. T \in SUBSET Nat
      OBVIOUS
    <3> HIDE DEF T
    <3> QED BY <3>1, Least
  <2>2. PICK s \in SUBSET S : Cardinality(s) = k /\ g[s] # h[s]
    BY <2>1
  <2>3. s # {}
    BY <2>2 DEF SumsOver
  <2> DEFINE c == CHOOSE x \in s : TRUE
  <2>4. g[s] = f[c] + g[s \ {c}] /\ h[s] = f[c] + h[s \ {c}] /\ c \in s
    BY <2>3 DEF SumsOver
  <2> HIDE DEF c
  <2>5. s \ {c} \in SUBSET S /\ Cardinality(s \ {c}) = k - 1 /\ k - 1 \in Nat
    <3>1. Cardinality(s \ {c}) = Cardinality(s) - 1 /\ Cardinality(s) \in Nat /\ Cardinality(s) # 0
      BY <2>3, <2>4, PartsOfSummed
    <3> QED BY <2>2, <3>1
  <2>6. g[s \ {c}] # h[s \ {c}]
    BY <2>2, <2>4
  <2>7. k - 1 \in T
    BY <2>5, <2>6
  <2>8. k \in Nat
    OBVIOUS
  <2> HIDE DEF T
  <2> QED BY <2>1, <2>7, <2>8
<1>2. Cardinality(S) \in Nat /\ S \in SUBSET S
  BY FS_CardinalityType DEF AreSummed
<1> QED BY <1>1, <1>2

LEMMA SumIsOver ==
  ASSUME NEW f, NEW S, AreSummed(f, S), NEW D, NEW g, SUBSET S \subseteq D, SumsOver(f, D, g)
  PROVE  SumFunctionOnSet(f, S) = g[S]
<1> DEFINE Is(h) == h = [s \in SUBSET S |-> IF s = {} THEN 0
                                            ELSE f[CHOOSE x \in s : TRUE] + h[s \ {CHOOSE x \in s : TRUE}]]
           c == CHOOSE h : Is(h)
<1>1. SumFunctionOnSet(f, S) = c[S]
  BY DEF SumFunctionOnSet, FoldFunctionOnSet, MapThenFoldSet
<1>2. Is(c)
  <2>1. PICK h \in [SUBSET S -> Int] : SumsOver(f, SUBSET S, h)
    BY SumsOverExist
  <2>2. Is(h)
    BY <2>1 DEF SumsOver
  <2> HIDE DEF Is
  <2> QED BY <2>2
<1> HIDE DEF c
<1>3. SumsOver(f, SUBSET S, c)
  BY <1>2 DEF SumsOver
<1>4. c[S] = g[S]
  BY <1>3, SumsOverAgree
<1> QED BY <1>1, <1>4

LEMMA SumOfNone == ASSUME NEW f PROVE SumFunctionOnSet(f, {}) = 0
<1>1. AreSummed(f, {})
  BY FS_EmptySet DEF AreSummed
<1>2. PICK g \in [SUBSET {} -> Int] : SumsOver(f, SUBSET {}, g)
  BY <1>1, SumsOverExist
<1>3. SumFunctionOnSet(f, {}) = g[{}]
  BY <1>1, <1>2, SumIsOver
<1> QED BY <1>2, <1>3 DEF SumsOver

LEMMA SumIsInt ==
  ASSUME NEW f, NEW S, AreSummed(f, S)
  PROVE  SumFunctionOnSet(f, S) \in Int
<1>1. PICK g \in [SUBSET S -> Int] : SumsOver(f, SUBSET S, g)
  BY SumsOverExist
<1>2. SumFunctionOnSet(f, S) = g[S]
  BY <1>1, SumIsOver
<1> QED BY <1>1, <1>2

\* Whichever element is taken out first.
LEMMA SumWithout ==
  ASSUME NEW f, NEW S, AreSummed(f, S), NEW x \in S
  PROVE  SumFunctionOnSet(f, S) = f[x] + SumFunctionOnSet(f, S \ {x})
<1>1. PICK g \in [SUBSET S -> Int] : SumsOver(f, SUBSET S, g)
  BY SumsOverExist
<1>2. \A s \in SUBSET S : SumFunctionOnSet(f, s) = g[s]
  <2> SUFFICES ASSUME NEW s \in SUBSET S PROVE SumFunctionOnSet(f, s) = g[s]
    OBVIOUS
  <2>1. AreSummed(f, s) /\ SUBSET s \subseteq SUBSET S
    BY PartsOfSummed
  <2> QED BY <1>1, <2>1, SumIsOver
<1> DEFINE T == {n \in Nat : \E s \in SUBSET S : Cardinality(s) = n /\ \E y \in s : g[s] # f[y] + g[s \ {y}]}
<1>3. T = {}
  <2> SUFFICES ASSUME T # {} PROVE FALSE
    OBVIOUS
  <2>1. PICK k \in T : \A y \in T : k <= y
    <3>1. T \in SUBSET Nat
      OBVIOUS
    <3> HIDE DEF T
    <3> QED BY <3>1, Least
  <2>2. PICK s \in SUBSET S : Cardinality(s) = k /\ \E y \in s : g[s] # f[y] + g[s \ {y}]
    BY <2>1
  <2>3. PICK y \in s : g[s] # f[y] + g[s \ {y}]
    BY <2>2
  <2> DEFINE c == CHOOSE z \in s : TRUE
  <2>4. g[s] = f[c] + g[s \ {c}] /\ c \in s
    BY <1>1 DEF SumsOver
  <2> HIDE DEF c
  <2>5. c # y
    BY <2>3, <2>4
  <2>6. ASSUME NEW z \in s PROVE /\ s \ {z} \in SUBSET S /\ Cardinality(s \ {z}) = k - 1 /\ k - 1 \in Nat
                                 /\ \A w \in s \ {z} : g[s \ {z}] = f[w] + g[(s \ {z}) \ {w}]
    <3>1. s \ {z} \in SUBSET S /\ Cardinality(s \ {z}) = Cardinality(s) - 1 /\ Cardinality(s) \in Nat /\ Cardinality(s) # 0
      BY PartsOfSummed
    <3>2. k - 1 \in Nat /\ k - 1 \notin T
      <4> HIDE DEF T
      <4> QED BY <2>1, <2>2, <3>1
    <3> QED BY <2>2, <3>1, <3>2
  <2>7. g[s \ {c}] = f[y] + g[(s \ {c}) \ {y}] /\ g[s \ {y}] = f[c] + g[(s \ {y}) \ {c}]
    BY <2>4, <2>5, <2>6
  <2> DEFINE r == (s \ {c}) \ {y}
  <2>8. r = (s \ {y}) \ {c} /\ r \in SUBSET S
    OBVIOUS
  <2>9. f[c] \in Int /\ f[y] \in Int /\ g[r] \in Int
    BY <1>1, <2>4, <2>8 DEF AreSummed
  <2>10. g[s \ {c}] = f[y] + g[r] /\ g[s \ {y}] = f[c] + g[r]
    BY <2>7, <2>8
  <2> HIDE DEF r
  <2> QED BY <2>3, <2>4, <2>9, <2>10
<1>4. g[S] = f[x] + g[S \ {x}]
  <2>1. Cardinality(S) \in Nat /\ S \in SUBSET S
    BY FS_CardinalityType DEF AreSummed
  <2> QED BY <1>3, <2>1
<1> QED BY <1>2, <1>4
-----------------------------------------------------------------------------
(* Conditions: the columns.                                                 *)

Bar ==
  [close : Int, high : Int, low : Int, volume : Int, flow : SUBSET Int, cap : SUBSET Int,
   turnover : SUBSET Int, heat : Int, dif : Int, dea : Int]

SameUpTo(rows, more, i) == \A j \in 1..i : rows[j] = more[j]

LEMMA SumOverAnInterval ==
  ASSUME NEW f, NEW a \in Int, NEW b \in Int, DOMAIN f = a..b, \A j \in a..b : f[j] \in Int
  PROVE  SumFunction(f) \in Int
<1>1. AreSummed(f, a..b)
  BY FS_Interval DEF AreSummed
<1> QED BY <1>1, SumIsInt DEF SumFunction

Highs(rows, a, b) == {rows[j].high : j \in a..b}
Lows(rows, a, b) == {rows[j].low : j \in a..b}

LEMMA ExtremesOfRows ==
  ASSUME NEW rows, NEW a \in Int, NEW b \in Int, a <= b, \A j \in a..b : rows[j] \in Bar
  PROVE  LET highs == Highs(rows, a, b)
             lows == Lows(rows, a, b)
         IN  /\ Max(highs) \in highs /\ highs \in SUBSET Int /\ \A y \in highs : y <= Max(highs)
             /\ Min(lows) \in lows /\ lows \in SUBSET Int /\ \A y \in lows : Min(lows) <= y
<1> DEFINE highs == Highs(rows, a, b)
           lows == Lows(rows, a, b)
<1>1. /\ \A j \in a..b : rows[j].high \in Int /\ rows[j].low \in Int
      /\ a \in a..b
  BY DEF Bar
<1>2. IsFiniteSet(a..b)
  BY FS_Interval
<1>3. highs \in SUBSET Int /\ highs # {} /\ lows \in SUBSET Int /\ lows # {}
  BY <1>1 DEF Highs, Lows
<1>4. IsFiniteSet(highs)
  <2> DEFINE f == [j \in a..b |-> rows[j].high]
  <2>1. f \in Surjection(a..b, highs)
    BY DEF Surjection, Highs
  <2> HIDE DEF f, highs
  <2> QED BY <2>1, <1>2, FS_Surjection
<1>5. IsFiniteSet(lows)
  <2> DEFINE f == [j \in a..b |-> rows[j].low]
  <2>1. f \in Surjection(a..b, lows)
    BY DEF Surjection, Lows
  <2> HIDE DEF f, lows
  <2> QED BY <2>1, <1>2, FS_Surjection
<1> HIDE DEF highs, lows
<1>6. Max(highs) \in highs /\ \A y \in highs : y <= Max(highs)
  BY <1>3, <1>4, Ends
<1>7. Min(lows) \in lows /\ \A y \in lows : Min(lows) <= y
  BY <1>3, <1>5, Ends
<1> QED BY <1>3, <1>6, <1>7 DEF highs, lows

\* Whatever value a column has is an integer.
LEMMA ColumnsAreIntegers ==
  ASSUME NEW rows, NEW i \in Nat, \A j \in 1..i : rows[j] \in Bar, i >= 1, NEW w \in Nat
  PROVE  /\ MovingAverage(rows, i, w) \in SUBSET Int /\ PriorVolume(rows, i, w) \in SUBSET Int
         /\ FlowSum(rows, i, w) \in SUBSET Int
         /\ PriorHigh(rows, i, w) \in SUBSET Int /\ PriorLow(rows, i, w) \in SUBSET Int
         /\ Returns(rows, i, w) \in SUBSET (Int \X Int)
<1>1. CASE i < w
  <2>1. i <= w
    BY <1>1
  <2> QED BY <1>1, <2>1 DEF MovingAverage, PriorVolume, FlowSum, PriorHigh, PriorLow, Returns
<1>2. CASE ~(i < w)
  <2>1. i - w + 1 \in Int /\ i - w \in Int /\ i - 1 \in Int /\ i - w + 1 >= 1
        /\ \A j \in i - w + 1..i : j \in 1..i
    BY <1>2
  <2>2. MovingAverage(rows, i, w) \in SUBSET Int
    <3> DEFINE f == [j \in i - w + 1..i |-> rows[j].close]
    <3>1. \A j \in i - w + 1..i : f[j] \in Int
      BY <2>1 DEF Bar
    <3>2. DOMAIN f = i - w + 1..i
      OBVIOUS
    <3> HIDE DEF f
    <3>3. SumFunction(f) \in Int
      BY <2>1, <3>1, <3>2, SumOverAnInterval
    <3> QED BY <1>2, <3>3 DEF MovingAverage, f
  <2>3. FlowSum(rows, i, w) \in SUBSET Int
    <3>1. CASE \E j \in i - w + 1..i : rows[j].flow = {}
      BY <3>1 DEF FlowSum
    <3>2. CASE \A j \in i - w + 1..i : rows[j].flow # {}
      <4> DEFINE f == [j \in i - w + 1..i |-> CHOOSE v \in rows[j].flow : TRUE]
      <4>1. ASSUME NEW j \in i - w + 1..i PROVE f[j] \in Int
        <5>1. rows[j].flow \in SUBSET Int /\ rows[j].flow # {}
          BY <2>1, <3>2 DEF Bar
        <5>2. (CHOOSE v \in rows[j].flow : TRUE) \in rows[j].flow
          BY <5>1
        <5> QED BY <5>1, <5>2
      <4>2. DOMAIN f = i - w + 1..i
        OBVIOUS
      <4> HIDE DEF f
      <4>3. SumFunction(f) \in Int
        BY <2>1, <4>1, <4>2, SumOverAnInterval
      <4> QED BY <1>2, <3>2, <4>3 DEF FlowSum, f
    <3> QED BY <3>1, <3>2
  <2>4. CASE i = w
    BY <2>2, <2>3, <2>4 DEF PriorVolume, PriorHigh, PriorLow, Returns
  <2>5. CASE i # w
    <3>1. i > w /\ \A j \in i - w..i - 1 : j \in 1..i
      BY <1>2, <2>5
    <3>2. PriorVolume(rows, i, w) \in SUBSET Int
      <4> DEFINE f == [j \in i - w..i - 1 |-> rows[j].volume]
      <4>1. \A j \in i - w..i - 1 : f[j] \in Int
        BY <3>1 DEF Bar
      <4>2. DOMAIN f = i - w..i - 1
        OBVIOUS
      <4> HIDE DEF f
      <4>3. SumFunction(f) \in Int
        BY <2>1, <4>1, <4>2, SumOverAnInterval
      <4> QED BY <3>1, <4>3 DEF PriorVolume, f
    <3>3. Returns(rows, i, w) \in SUBSET (Int \X Int)
      <4>1. i \in 1..i /\ i - w \in 1..i
        BY <3>1
      <4> QED BY <3>1, <4>1 DEF Returns, Bar
    <3>4. PriorHigh(rows, i, w) \in SUBSET Int /\ PriorLow(rows, i, w) \in SUBSET Int
      <4>1. CASE w = 0
        BY <4>1 DEF PriorHigh, PriorLow
      <4>2. CASE w # 0
        <5>1. i - w <= i - 1
          BY <4>2
        <5> DEFINE highs == Highs(rows, i - w, i - 1)
                   lows == Lows(rows, i - w, i - 1)
        <5>2. \A j \in i - w..i - 1 : rows[j] \in Bar
          BY <3>1
        <5>4. PriorHigh(rows, i, w) = {Max(highs)} /\ PriorLow(rows, i, w) = {Min(lows)}
          BY <3>1, <4>2 DEF PriorHigh, PriorLow, Highs, Lows
        <5>5. Max(highs) \in Int /\ Min(lows) \in Int
          BY <2>1, <5>1, <5>2, ExtremesOfRows
        <5> QED BY <5>4, <5>5
      <4> QED BY <4>1, <4>2
    <3> QED BY <2>2, <2>3, <3>2, <3>3, <3>4
  <2> QED BY <2>4, <2>5
<1> QED BY <1>1, <1>2

\* A column looks back only.
LEMMA ColumnsLookBack ==
  ASSUME NEW rows, NEW more, NEW i \in Nat, i >= 1, SameUpTo(rows, more, i), NEW w \in Nat
  PROVE  /\ MovingAverage(rows, i, w) = MovingAverage(more, i, w)
         /\ PriorVolume(rows, i, w) = PriorVolume(more, i, w)
         /\ FlowSum(rows, i, w) = FlowSum(more, i, w)
         /\ PositiveCount(rows, i, w) = PositiveCount(more, i, w)
         /\ PriorHigh(rows, i, w) = PriorHigh(more, i, w) /\ PriorLow(rows, i, w) = PriorLow(more, i, w)
         /\ Returns(rows, i, w) = Returns(more, i, w)
<1>1. CASE i < w
  <2>1. i <= w
    BY <1>1
  <2> QED BY <1>1, <2>1 DEF MovingAverage, PriorVolume, FlowSum, PositiveCount, PriorHigh, PriorLow, Returns
<1>2. CASE ~(i < w)
  <2>1. \A j \in i - w + 1..i : rows[j] = more[j]
    BY <1>2 DEF SameUpTo
  <2>2. MovingAverage(rows, i, w) = MovingAverage(more, i, w)
    <3>1. [j \in i - w + 1..i |-> rows[j].close] = [j \in i - w + 1..i |-> more[j].close]
      BY <2>1
    <3> QED BY <3>1, Zenon DEF MovingAverage
  <2>3. FlowSum(rows, i, w) = FlowSum(more, i, w)
    <3>1. [j \in i - w + 1..i |-> CHOOSE v \in rows[j].flow : TRUE] = [j \in i - w + 1..i |-> CHOOSE v \in more[j].flow : TRUE]
      BY <2>1
    <3>2. (\E j \in i - w + 1..i : rows[j].flow = {}) <=> (\E j \in i - w + 1..i : more[j].flow = {})
      BY <2>1
    <3> QED BY <3>1, <3>2, Zenon DEF FlowSum
  <2>4. PositiveCount(rows, i, w) = PositiveCount(more, i, w)
    <3>1. {j \in i - w + 1..i : \E v \in rows[j].flow : v > 0} = {j \in i - w + 1..i : \E v \in more[j].flow : v > 0}
      BY <2>1
    <3> QED BY <3>1, Zenon DEF PositiveCount
  <2>5. CASE i = w
    BY <2>2, <2>3, <2>4, <2>5 DEF PriorVolume, PriorHigh, PriorLow, Returns
  <2>6. CASE i # w
    <3>1. i > w /\ \A j \in i - w..i - 1 : rows[j] = more[j]
      BY <1>2, <2>6 DEF SameUpTo
    <3>2. rows[i] = more[i] /\ rows[i - w] = more[i - w]
      BY <3>1 DEF SameUpTo
    <3>3. PriorVolume(rows, i, w) = PriorVolume(more, i, w)
      <4>1. [j \in i - w..i - 1 |-> rows[j].volume] = [j \in i - w..i - 1 |-> more[j].volume]
        BY <3>1
      <4> QED BY <4>1, Zenon DEF PriorVolume
    <3>4. PriorHigh(rows, i, w) = PriorHigh(more, i, w) /\ PriorLow(rows, i, w) = PriorLow(more, i, w)
      <4>1. {rows[j].high : j \in i - w..i - 1} = {more[j].high : j \in i - w..i - 1}
            /\ {rows[j].low : j \in i - w..i - 1} = {more[j].low : j \in i - w..i - 1}
        BY <3>1
      <4> QED BY <4>1, Zenon DEF PriorHigh, PriorLow
    <3>5. Returns(rows, i, w) = Returns(more, i, w)
      BY <3>2, Zenon DEF Returns
    <3> QED BY <2>2, <2>3, <2>4, <3>3, <3>4, <3>5
  <2> QED BY <2>5, <2>6
<1> QED BY <1>1, <1>2
-----------------------------------------------------------------------------
(* Conditions: the evaluators and the masks.                                *)

FlowIds ==
  {"flow sum at least", "flow sum at most", "flow today at least", "flow today at most", "positive count"}
LevelIds == {"market cap", "turnover", "rising ratio", "histogram"}
TrendIds == {"above ma", "below ma", "return at most", "return between", "volume ratio"}
PatternIds == {"breakout", "breakdown", "dead cross"}

Numbered(n) == n.window \in Nat /\ n.lo \in Int /\ n.hi \in Int

LEMMA IdsApart ==
  /\ FlowIds \cap LevelIds = {} /\ FlowIds \cap TrendIds = {} /\ FlowIds \cap PatternIds = {}
  /\ LevelIds \cap TrendIds = {} /\ LevelIds \cap PatternIds = {} /\ TrendIds \cap PatternIds = {}
<1>1. FlowIds \cap LevelIds = {} /\ FlowIds \cap PatternIds = {} /\ LevelIds \cap PatternIds = {}
  BY DEF FlowIds, LevelIds, PatternIds
<1>2. FlowIds \cap TrendIds = {} /\ LevelIds \cap TrendIds = {} /\ TrendIds \cap PatternIds = {}
  BY DEF FlowIds, LevelIds, TrendIds, PatternIds
<1> QED BY <1>1, <1>2

\* Each evaluator decides the nodes of its ids.
LEMMA EvaluatorOf ==
  ASSUME NEW n, NEW rows, NEW first, NEW i
  PROVE  /\ n.id \in FlowIds => (Evaluate(n, rows, first, i) <=> EvaluateFlow(n, rows, i))
         /\ n.id \in LevelIds => (Evaluate(n, rows, first, i) <=> EvaluateLevel(n, rows, i))
         /\ n.id \in TrendIds => (Evaluate(n, rows, first, i) <=> EvaluateTrend(n, rows, i))
         /\ n.id \in PatternIds => (Evaluate(n, rows, first, i) <=> EvaluatePattern(n, rows, first, i))
         /\ n.id \notin FlowIds \cup LevelIds \cup TrendIds \cup PatternIds => ~Evaluate(n, rows, first, i)
<1>1. n.id \notin FlowIds => ~EvaluateFlow(n, rows, i)
  BY DEF FlowIds, EvaluateFlow
<1>2. n.id \notin LevelIds => ~EvaluateLevel(n, rows, i)
  BY DEF LevelIds, EvaluateLevel
<1>3. n.id \notin TrendIds => ~EvaluateTrend(n, rows, i)
  BY DEF TrendIds, EvaluateTrend
<1>4. n.id \notin PatternIds => ~EvaluatePattern(n, rows, first, i)
  BY DEF PatternIds, EvaluatePattern
<1> QED BY <1>1, <1>2, <1>3, <1>4, IdsApart DEF Evaluate

\* So does each mask.
LEMMA MaskOf ==
  ASSUME NEW n, NEW rows, NEW first, NEW i
  PROVE  /\ n.id \in FlowIds => (Mask(n, rows, first, i) <=> MaskFlow(n, rows, i))
         /\ n.id \in LevelIds \cup TrendIds => (Mask(n, rows, first, i) <=> MaskColumn(n, rows, i))
         /\ n.id \in {"breakout", "breakdown"} => (Mask(n, rows, first, i) <=> MaskColumn(n, rows, i))
         /\ n.id = "dead cross" => (Mask(n, rows, first, i) <=> MaskDeadCross(n, rows, first, i))
         /\ n.id \notin FlowIds \cup LevelIds \cup TrendIds \cup PatternIds => ~Mask(n, rows, first, i)
<1>1. n.id \notin FlowIds => ~MaskFlow(n, rows, i)
  BY DEF FlowIds, MaskFlow
<1>2. n.id \notin LevelIds \cup TrendIds \cup {"breakout", "breakdown"} => ~MaskColumn(n, rows, i)
  BY DEF LevelIds, TrendIds, MaskColumn
<1>3. n.id # "dead cross" => ~MaskDeadCross(n, rows, first, i)
  BY DEF MaskDeadCross
<1>4. PatternIds = {"breakout", "breakdown"} \cup {"dead cross"} /\ "dead cross" \notin {"breakout", "breakdown"}
  BY DEF PatternIds
<1> QED BY <1>1, <1>2, <1>3, <1>4, IdsApart DEF Mask

\* What each evaluator and each mask of a trend asks.
AboveMean(n, rows, i) == \E m \in MovingAverage(rows, i, n.window) : n.window * rows[i].close - m > 0
BelowMean(n, rows, i) == \E m \in MovingAverage(rows, i, n.window) : n.window * rows[i].close - m < 0
ReturnIn(n, rows, i) ==
  \E r \in Returns(rows, i, n.window) :
    /\ 1000 * (r[1] - r[2]) <= n.hi * r[2]
    /\ n.id = "return between" => n.lo * r[2] <= 1000 * (r[1] - r[2])
RatioIn(n, rows, i) ==
  \E p \in PriorVolume(rows, i, n.window) :
    n.lo * p <= n.window * rows[i].volume /\ n.window * rows[i].volume <= n.hi * p

AboveMask(n, rows, i) == \E m \in MovingAverage(rows, i, n.window) : n.window * rows[i].close > m
BelowMask(n, rows, i) == \E m \in MovingAverage(rows, i, n.window) : n.window * rows[i].close < m
MostMask(n, rows, i) == \E r \in Returns(rows, i, n.window) : 1000 * r[1] <= (1000 + n.hi) * r[2]
BetweenMask(n, rows, i) ==
  \E r \in Returns(rows, i, n.window) :
    (1000 + n.lo) * r[2] <= 1000 * r[1] /\ 1000 * r[1] <= (1000 + n.hi) * r[2]
RatioMask(n, rows, i) ==
  \E p \in PriorVolume(rows, i, n.window) : n.window * rows[i].volume \in n.lo * p..n.hi * p
BreakoutMask(n, rows, i) == \E h \in PriorHigh(rows, i, n.window) : rows[i].close > h
BreakdownMask(n, rows, i) == \E l \in PriorLow(rows, i, n.window) : rows[i].close < l

\* The evaluator of each trend, by its id.
LEMMA TrendOf ==
  ASSUME NEW n, NEW rows, NEW i
  PROVE  /\ n.id = "above ma" => (EvaluateTrend(n, rows, i) <=> AboveMean(n, rows, i))
         /\ n.id = "below ma" => (EvaluateTrend(n, rows, i) <=> BelowMean(n, rows, i))
         /\ n.id \in {"return at most", "return between"} =>
              (EvaluateTrend(n, rows, i) <=> ReturnIn(n, rows, i))
         /\ n.id = "volume ratio" => (EvaluateTrend(n, rows, i) <=> RatioIn(n, rows, i))
<1>1. EvaluateTrend(n, rows, i)
        = CASE n.id = "above ma" -> AboveMean(n, rows, i) [] n.id = "below ma" -> BelowMean(n, rows, i)
            [] n.id \in {"return at most", "return between"} -> ReturnIn(n, rows, i)
            [] n.id = "volume ratio" -> RatioIn(n, rows, i)
            [] OTHER -> FALSE
  BY Zenon DEF EvaluateTrend, AboveMean, BelowMean, ReturnIn, RatioIn
<1>2. /\ AboveMean(n, rows, i) \in BOOLEAN /\ BelowMean(n, rows, i) \in BOOLEAN
      /\ ReturnIn(n, rows, i) \in BOOLEAN /\ RatioIn(n, rows, i) \in BOOLEAN
  BY DEF AboveMean, BelowMean, ReturnIn, RatioIn
<1> QED BY <1>1, <1>2

\* And its mask.
LEMMA TrendMaskOf ==
  ASSUME NEW n, NEW rows, NEW i
  PROVE  /\ n.id = "above ma" => (MaskColumn(n, rows, i) <=> AboveMask(n, rows, i))
         /\ n.id = "below ma" => (MaskColumn(n, rows, i) <=> BelowMask(n, rows, i))
         /\ n.id = "return at most" => (MaskColumn(n, rows, i) <=> MostMask(n, rows, i))
         /\ n.id = "return between" => (MaskColumn(n, rows, i) <=> BetweenMask(n, rows, i))
         /\ n.id = "volume ratio" => (MaskColumn(n, rows, i) <=> RatioMask(n, rows, i))
         /\ n.id = "breakout" => (MaskColumn(n, rows, i) <=> BreakoutMask(n, rows, i))
         /\ n.id = "breakdown" => (MaskColumn(n, rows, i) <=> BreakdownMask(n, rows, i))
<1> DEFINE C == Within(n, rows[i].cap)
           T == Within(n, {TurnoverRatio(v) : v \in rows[i].turnover})
           G == rows[i].heat >= n.lo
           D == Histogram(rows[i]) >= n.lo
<1>1. MaskColumn(n, rows, i)
        = CASE n.id = "market cap" -> C [] n.id = "turnover" -> T [] n.id = "rising ratio" -> G
            [] n.id = "histogram" -> D [] n.id = "above ma" -> AboveMask(n, rows, i)
            [] n.id = "below ma" -> BelowMask(n, rows, i) [] n.id = "return at most" -> MostMask(n, rows, i)
            [] n.id = "return between" -> BetweenMask(n, rows, i)
            [] n.id = "volume ratio" -> RatioMask(n, rows, i)
            [] n.id = "breakout" -> BreakoutMask(n, rows, i)
            [] n.id = "breakdown" -> BreakdownMask(n, rows, i) [] OTHER -> FALSE
  BY Zenon DEF MaskColumn, AboveMask, BelowMask, MostMask, BetweenMask, RatioMask, BreakoutMask, BreakdownMask
<1>2. /\ AboveMask(n, rows, i) \in BOOLEAN /\ BelowMask(n, rows, i) \in BOOLEAN
      /\ MostMask(n, rows, i) \in BOOLEAN /\ BetweenMask(n, rows, i) \in BOOLEAN
      /\ RatioMask(n, rows, i) \in BOOLEAN
      /\ BreakoutMask(n, rows, i) \in BOOLEAN /\ BreakdownMask(n, rows, i) \in BOOLEAN
  BY DEF AboveMask, BelowMask, MostMask, BetweenMask, RatioMask, BreakoutMask, BreakdownMask
<1> HIDE DEF C, T, G, D
<1> QED BY <1>1, <1>2

\* Two codes for one meaning: of the same row they decide the same.
LEMMA EvaluatorsAndMasksAgree ==
  ASSUME NEW n, Numbered(n), NEW rows, NEW first \in Nat, NEW i \in Nat, first >= 1, i >= first,
         \A j \in 1..i : rows[j] \in Bar
  PROVE  Evaluate(n, rows, first, i) <=> Mask(n, rows, first, i)
<1>1. /\ n.window \in Nat /\ n.lo \in Int /\ n.hi \in Int /\ i >= 1 /\ i \in 1..i
      /\ rows[i] \in Bar
  BY DEF Numbered
<1>2. /\ MovingAverage(rows, i, n.window) \in SUBSET Int /\ PriorVolume(rows, i, n.window) \in SUBSET Int
      /\ PriorHigh(rows, i, n.window) \in SUBSET Int /\ PriorLow(rows, i, n.window) \in SUBSET Int
      /\ Returns(rows, i, n.window) \in SUBSET (Int \X Int)
  BY <1>1, ColumnsAreIntegers
<1>3. rows[i].close \in Int /\ rows[i].volume \in Int
  BY <1>1 DEF Bar
<1>4. CASE n.id \in FlowIds
  <2>1. EvaluateFlow(n, rows, i) <=> MaskFlow(n, rows, i)
    BY DEF EvaluateFlow, MaskFlow
  <2> QED BY <1>4, <2>1, EvaluatorOf, MaskOf
<1>5. CASE n.id = "dead cross"
  <2>1. EvaluatePattern(n, rows, first, i)
          <=> i > first /\ rows[i - 1].dif >= rows[i - 1].dea /\ rows[i].dif < rows[i].dea
    BY <1>5 DEF EvaluatePattern
  <2>2. EvaluatePattern(n, rows, first, i) <=> MaskDeadCross(n, rows, first, i)
    <3>1. CASE i = first
      BY <2>1, <3>1 DEF MaskDeadCross
    <3>2. CASE i # first
      <4>1. i > first
        BY <3>2
      <4>2. MaskDeadCross(n, rows, first, i)
              <=> rows[i].dif < rows[i].dea /\ \E p \in {rows[i - 1]} : p.dif >= p.dea
        BY <1>5, <3>2 DEF MaskDeadCross
      <4>3. (\E p \in {rows[i - 1]} : p.dif >= p.dea) <=> rows[i - 1].dif >= rows[i - 1].dea
        OBVIOUS
      <4> QED BY <2>1, <4>1, <4>2, <4>3, Zenon
    <3> QED BY <3>1, <3>2
  <2>3. n.id \in PatternIds
    BY <1>5 DEF PatternIds
  <2> QED BY <1>5, <2>2, <2>3, EvaluatorOf, MaskOf
<1>6. CASE n.id \in LevelIds
  <2>1. EvaluateLevel(n, rows, i) <=> MaskColumn(n, rows, i)
    <3>1. CASE n.id = "market cap"
      BY <3>1 DEF EvaluateLevel, MaskColumn
    <3>2. CASE n.id = "turnover"
      BY <3>2 DEF EvaluateLevel, MaskColumn, Within
    <3>3. CASE n.id = "rising ratio"
      BY <3>3 DEF EvaluateLevel, MaskColumn
    <3>4. CASE n.id = "histogram"
      BY <3>4 DEF EvaluateLevel, MaskColumn
    <3> QED BY <1>6, <3>1, <3>2, <3>3, <3>4 DEF LevelIds
  <2> QED BY <1>6, <2>1, EvaluatorOf, MaskOf
<1>7. CASE n.id \in TrendIds
  <2> DEFINE close == n.window * rows[i].close
             volume == n.window * rows[i].volume
  <2>1. close \in Int /\ volume \in Int
    BY <1>1, <1>3
  <2>2. /\ Evaluate(n, rows, first, i) <=> EvaluateTrend(n, rows, i)
        /\ Mask(n, rows, first, i) <=> MaskColumn(n, rows, i)
    BY <1>7, EvaluatorOf, MaskOf
  <2>3. CASE n.id = "above ma"
    <3>1. EvaluateTrend(n, rows, i) <=> \E m \in MovingAverage(rows, i, n.window) : close - m > 0
      BY <2>3, TrendOf DEF AboveMean
    <3>2. MaskColumn(n, rows, i) <=> \E m \in MovingAverage(rows, i, n.window) : close > m
      BY <2>3, TrendMaskOf DEF AboveMask
    <3> HIDE DEF close
    <3>3. \A m \in MovingAverage(rows, i, n.window) : close - m > 0 <=> close > m
      BY <1>2, <2>1
    <3> QED BY <2>2, <3>1, <3>2, <3>3, Zenon
  <2>4. CASE n.id = "below ma"
    <3>1. EvaluateTrend(n, rows, i) <=> \E m \in MovingAverage(rows, i, n.window) : close - m < 0
      BY <2>4, TrendOf DEF BelowMean
    <3>2. MaskColumn(n, rows, i) <=> \E m \in MovingAverage(rows, i, n.window) : close < m
      BY <2>4, TrendMaskOf DEF BelowMask
    <3> HIDE DEF close
    <3>3. \A m \in MovingAverage(rows, i, n.window) : close - m < 0 <=> close < m
      BY <1>2, <2>1
    <3> QED BY <2>2, <3>1, <3>2, <3>3, Zenon
  <2>5. CASE n.id = "volume ratio"
    <3>1. EvaluateTrend(n, rows, i)
            <=> \E p \in PriorVolume(rows, i, n.window) : n.lo * p <= volume /\ volume <= n.hi * p
      BY <2>5, TrendOf DEF RatioIn
    <3>2. MaskColumn(n, rows, i)
            <=> \E p \in PriorVolume(rows, i, n.window) : volume \in n.lo * p..n.hi * p
      BY <2>5, TrendMaskOf DEF RatioMask
    <3> HIDE DEF volume
    <3>3. ASSUME NEW p \in PriorVolume(rows, i, n.window)
          PROVE  n.lo * p <= volume /\ volume <= n.hi * p <=> volume \in n.lo * p..n.hi * p
      <4> DEFINE least == n.lo * p
                 most == n.hi * p
      <4>1. least \in Int /\ most \in Int
        BY <1>1, <1>2
      <4> HIDE DEF least, most
      <4>2. least <= volume /\ volume <= most <=> volume \in least..most
        BY <2>1, <4>1
      <4> QED BY <4>2 DEF least, most
    <3> QED BY <2>2, <3>1, <3>2, <3>3, Zenon
  <2> DEFINE AtMost(r) == 1000 * (r[1] - r[2]) <= n.hi * r[2]
             AtLeast(r) == n.lo * r[2] <= 1000 * (r[1] - r[2])
             MostCut(r) == 1000 * r[1] <= (1000 + n.hi) * r[2]
             LeastCut(r) == (1000 + n.lo) * r[2] <= 1000 * r[1]
  <2>6. ASSUME NEW r \in Returns(rows, i, n.window)
        PROVE  (AtMost(r) <=> MostCut(r)) /\ (AtLeast(r) <=> LeastCut(r))
    <3>1. r[1] \in Int /\ r[2] \in Int
      BY <1>2
    <3>2. ASSUME NEW x \in Int, NEW y \in Int, NEW z \in Int
          PROVE  1000 * (x - y) = 1000 * x - 1000 * y /\ (1000 + z) * y = 1000 * y + z * y /\ z * y \in Int
      OBVIOUS
    <3>3. /\ 1000 * (r[1] - r[2]) = 1000 * r[1] - 1000 * r[2]
          /\ (1000 + n.hi) * r[2] = 1000 * r[2] + n.hi * r[2] /\ n.hi * r[2] \in Int
          /\ (1000 + n.lo) * r[2] = 1000 * r[2] + n.lo * r[2] /\ n.lo * r[2] \in Int
      BY <1>1, <3>1, <3>2
    <3> QED BY <3>1, <3>3
  <2>7. CASE n.id \in {"return at most", "return between"}
    <3>1. ReturnIn(n, rows, i)
            <=> \E r \in Returns(rows, i, n.window) : AtMost(r) /\ (n.id = "return between" => AtLeast(r))
      BY Zenon DEF ReturnIn
    <3>2. MostMask(n, rows, i) <=> \E r \in Returns(rows, i, n.window) : MostCut(r)
      BY Zenon DEF MostMask
    <3>3. BetweenMask(n, rows, i) <=> \E r \in Returns(rows, i, n.window) : LeastCut(r) /\ MostCut(r)
      BY Zenon DEF BetweenMask
    <3> HIDE DEF AtMost, AtLeast, MostCut, LeastCut
    <3>4. EvaluateTrend(n, rows, i) <=> MaskColumn(n, rows, i)
      <4>1. EvaluateTrend(n, rows, i) <=> ReturnIn(n, rows, i)
        BY <2>7, TrendOf
      <4>2. CASE n.id = "return at most"
        <5>1. n.id # "return between"
          BY <4>2
        <5>2. ReturnIn(n, rows, i) <=> MostMask(n, rows, i)
          BY <2>6, <3>1, <3>2, <5>1, Zenon
        <5> QED BY <4>1, <4>2, <5>2, TrendMaskOf
      <4>3. CASE n.id = "return between"
        <5>1. ReturnIn(n, rows, i) <=> BetweenMask(n, rows, i)
          BY <2>6, <3>1, <3>3, <4>3, Zenon
        <5> QED BY <4>1, <4>3, <5>1, TrendMaskOf
      <4> QED BY <2>7, <4>2, <4>3
    <3> QED BY <2>2, <3>4, Zenon
  <2> QED BY <1>7, <2>3, <2>4, <2>5, <2>7 DEF TrendIds
<1>8. CASE n.id \in {"breakout", "breakdown"}
  <2>1. EvaluatePattern(n, rows, first, i) <=> MaskColumn(n, rows, i)
    <3>1. CASE n.id = "breakout"
      <4>1. \A h \in PriorHigh(rows, i, n.window) : rows[i].close - h > 0 <=> rows[i].close > h
        BY <1>2, <1>3
      <4>2. EvaluatePattern(n, rows, first, i) <=> \E h \in PriorHigh(rows, i, n.window) : rows[i].close - h > 0
        BY <3>1 DEF EvaluatePattern
      <4> QED BY <3>1, <4>1, <4>2, TrendMaskOf DEF BreakoutMask
    <3>2. CASE n.id = "breakdown"
      <4>1. \A l \in PriorLow(rows, i, n.window) : rows[i].close - l < 0 <=> rows[i].close < l
        BY <1>2, <1>3
      <4>2. EvaluatePattern(n, rows, first, i) <=> \E l \in PriorLow(rows, i, n.window) : rows[i].close - l < 0
        BY <3>2 DEF EvaluatePattern
      <4> QED BY <3>2, <4>1, <4>2, TrendMaskOf DEF BreakdownMask
    <3> QED BY <1>8, <3>1, <3>2
  <2>2. n.id \in PatternIds
    BY <1>8 DEF PatternIds
  <2> QED BY <1>8, <2>1, <2>2, EvaluatorOf, MaskOf
<1>9. CASE n.id \notin FlowIds \cup LevelIds \cup TrendIds \cup PatternIds
  BY <1>9, EvaluatorOf, MaskOf, Zenon
<1> QED BY <1>4, <1>5, <1>6, <1>7, <1>8, <1>9 DEF PatternIds

\* What is decided of a row is decided from the rows up to it.
LEMMA EvaluateLooksBack ==
  ASSUME NEW n \in ConditionNode, NEW rows, NEW more, NEW first \in Nat, NEW i \in Nat, first >= 1, i >= first,
         SameUpTo(rows, more, i)
  PROVE  Evaluate(n, rows, first, i) <=> Evaluate(n, more, first, i)
<1>1. n.window \in Nat /\ i >= 1
  BY DEF ConditionNode
<1>2. rows[i] = more[i] /\ (i > first => rows[i - 1] = more[i - 1])
  BY DEF SameUpTo
<1>3. /\ MovingAverage(rows, i, n.window) = MovingAverage(more, i, n.window)
      /\ PriorVolume(rows, i, n.window) = PriorVolume(more, i, n.window)
      /\ FlowSum(rows, i, n.window) = FlowSum(more, i, n.window)
      /\ PositiveCount(rows, i, n.window) = PositiveCount(more, i, n.window)
      /\ PriorHigh(rows, i, n.window) = PriorHigh(more, i, n.window)
      /\ PriorLow(rows, i, n.window) = PriorLow(more, i, n.window)
      /\ Returns(rows, i, n.window) = Returns(more, i, n.window)
  BY <1>1, ColumnsLookBack
<1>4. EvaluateFlow(n, rows, i) <=> EvaluateFlow(n, more, i)
  BY <1>2, <1>3 DEF EvaluateFlow
<1>5. EvaluateLevel(n, rows, i) <=> EvaluateLevel(n, more, i)
  BY <1>2 DEF EvaluateLevel
<1>6. EvaluateTrend(n, rows, i) <=> EvaluateTrend(n, more, i)
  BY <1>2, <1>3 DEF EvaluateTrend
<1>7. EvaluatePattern(n, rows, first, i) <=> EvaluatePattern(n, more, first, i)
  BY <1>2, <1>3 DEF EvaluatePattern
<1> QED BY <1>4, <1>5, <1>6, <1>7 DEF Evaluate
-----------------------------------------------------------------------------
(* Conditions: strategies, as parts of the specification.                   *)

StrategyGroup == [op : {"and", "or", "score"}, nodes : Seq(ConditionNode)]
Strategy == [filters : Seq(ConditionNode), threshold : SUBSET Int, groups : Seq(StrategyGroup)]

LEMMA ConditionLooksBack ==
  ASSUME NEW n \in ConditionNode, NEW rows, NEW more, NEW first \in Nat, NEW i \in Nat, first >= 1,
         SameUpTo(rows, more, i)
  PROVE  EvaluateCondition(n, rows, first, i) <=> EvaluateCondition(n, more, first, i)
<1>1. n.lag \in Nat
  BY DEF ConditionNode
<1>2. CASE i - n.lag >= first
  <2>1. i - n.lag \in Nat /\ SameUpTo(rows, more, i - n.lag)
    BY <1>1, <1>2 DEF SameUpTo
  <2>2. Evaluate(n, rows, first, i - n.lag) <=> Evaluate(n, more, first, i - n.lag)
    BY <1>2, <2>1, EvaluateLooksBack
  <2> QED BY <1>2, <2>2 DEF EvaluateCondition
<1>3. CASE ~(i - n.lag >= first)
  BY <1>3 DEF EvaluateCondition
<1> QED BY <1>2, <1>3

LEMMA GroupLooksBack ==
  ASSUME NEW g \in StrategyGroup, NEW threshold, NEW rows, NEW more, NEW first \in Nat, NEW i \in Nat,
         first >= 1, SameUpTo(rows, more, i)
  PROVE  EvaluateGroup(g, threshold, rows, first, i) <=> EvaluateGroup(g, threshold, more, first, i)
<1> DEFINE of(k) == EvaluateCondition(g.nodes[k], rows, first, i)
           as(k) == EvaluateCondition(g.nodes[k], more, first, i)
<1>1. ASSUME NEW k \in DOMAIN g.nodes PROVE of(k) <=> as(k)
  <2>1. g.nodes[k] \in ConditionNode
    BY DEF StrategyGroup
  <2> QED BY <2>1, ConditionLooksBack
<1>2. ScoreOf(g, rows, first, i) = ScoreOf(g, more, first, i)
  <2>1. [k \in DOMAIN g.nodes |-> IF of(k) THEN g.nodes[k].weight ELSE 0]
          = [k \in DOMAIN g.nodes |-> IF as(k) THEN g.nodes[k].weight ELSE 0]
    <3> HIDE DEF of, as
    <3> QED BY <1>1
  <2> QED BY <2>1, Zenon DEF ScoreOf
<1>3. CASE g.op = "and"
  BY <1>1, <1>3 DEF EvaluateGroup
<1>4. CASE g.op = "or"
  BY <1>1, <1>4 DEF EvaluateGroup
<1>5. CASE g.op = "score"
  BY <1>2, <1>5 DEF EvaluateGroup
<1>6. g.op \in {"and", "or", "score"}
  BY DEF StrategyGroup
<1> QED BY <1>3, <1>4, <1>5, <1>6

LEMMA PassesLooksBack ==
  ASSUME NEW s \in Strategy, NEW rows, NEW more, NEW first \in Nat, NEW i \in Nat, first >= 1,
         SameUpTo(rows, more, i)
  PROVE  Passes(s, rows, first, i) = Passes(s, more, first, i)
<1>1. ASSUME NEW k \in DOMAIN s.filters
      PROVE  EvaluateCondition(s.filters[k], rows, first, i) <=> EvaluateCondition(s.filters[k], more, first, i)
  <2>1. s.filters[k] \in ConditionNode
    BY DEF Strategy
  <2> QED BY <2>1, ConditionLooksBack
<1>2. ASSUME NEW k \in DOMAIN s.groups
      PROVE  EvaluateGroup(s.groups[k], s.threshold, rows, first, i)
               <=> EvaluateGroup(s.groups[k], s.threshold, more, first, i)
  <2>1. s.groups[k] \in StrategyGroup
    BY DEF Strategy
  <2> QED BY <2>1, GroupLooksBack
<1>3. PassesMarketFilters(s, rows, first, i) <=> PassesMarketFilters(s, more, first, i)
  BY <1>1 DEF PassesMarketFilters
<1>4. PassesEntry(s, rows, first, i) <=> PassesEntry(s, more, first, i)
  BY <1>2 DEF PassesEntry
<1> QED BY <1>3, <1>4 DEF Passes

\* Of a node the mask drops no row that the evaluator lets through, and if the node
\* does not lag it lets no other through.
LEMMA MaskHoldsTheEvaluated ==
  ASSUME NEW n \in ConditionNode, NEW rows, NEW first \in Nat, NEW i \in Nat, first >= 1, i >= first,
         \A j \in 1..i : rows[j] \in Bar
  PROVE  /\ EvaluateCondition(n, rows, first, i) => FilterMask(n, rows, first, i)
         /\ n.lag = 0 => (FilterMask(n, rows, first, i) => EvaluateCondition(n, rows, first, i))
<1>1. n.lag \in Nat /\ i - 0 = i
  BY DEF ConditionNode
<1>2. Evaluate(n, rows, first, i) <=> Mask(n, rows, first, i)
  <2>1. Numbered(n)
    BY DEF ConditionNode, Numbered
  <2> QED BY <2>1, EvaluatorsAndMasksAgree
<1>3. CASE n.lag = 0
  <2>1. EvaluateCondition(n, rows, first, i) <=> (~n.enabled \/ Evaluate(n, rows, first, i))
    BY <1>1, <1>3 DEF EvaluateCondition
  <2> QED BY <1>2, <1>3, <2>1 DEF FilterMask
<1>4. CASE n.lag # 0
  BY <1>1, <1>4 DEF FilterMask
<1> QED BY <1>3, <1>4

LEMMA PrefilterHoldsThePassing ==
  ASSUME NEW s \in Strategy, NEW rows, NEW first \in Nat, NEW i \in Nat, first >= 1, i >= first,
         \A j \in 1..i : rows[j] \in Bar
  PROVE  /\ Passes(s, rows, first, i) => CandidatePrefilter(s, rows, first, i)
         /\ Unlagged(s) => (CandidatePrefilter(s, rows, first, i) => Passes(s, rows, first, i))
<1> DEFINE Kept(g) == CASE g.op = "score" -> TRUE
                        [] g.op = "or" -> \E m \in DOMAIN g.nodes : FilterMask(g.nodes[m], rows, first, i)
                        [] OTHER -> \A m \in DOMAIN g.nodes : FilterMask(g.nodes[m], rows, first, i)
           Level(g) == g.op # "score" /\ \A m \in DOMAIN g.nodes : g.nodes[m].lag = 0
<1>1. ASSUME NEW n \in ConditionNode
      PROVE  /\ EvaluateCondition(n, rows, first, i) => FilterMask(n, rows, first, i)
             /\ n.lag = 0 => (FilterMask(n, rows, first, i) => EvaluateCondition(n, rows, first, i))
  BY MaskHoldsTheEvaluated
<1>2. ASSUME NEW k \in DOMAIN s.filters PROVE s.filters[k] \in ConditionNode
  BY DEF Strategy
<1>3. ASSUME NEW k \in DOMAIN s.groups
      PROVE  /\ EvaluateGroup(s.groups[k], s.threshold, rows, first, i) => Kept(s.groups[k])
             /\ Level(s.groups[k]) =>
                  (Kept(s.groups[k]) => EvaluateGroup(s.groups[k], s.threshold, rows, first, i))
  <2>1. PICK g : g = s.groups[k]
    OBVIOUS
  <2>2. g.op \in {"and", "or", "score"} /\ \A m \in DOMAIN g.nodes : g.nodes[m] \in ConditionNode
    <3>1. g \in StrategyGroup
      BY <2>1 DEF Strategy
    <3>2. g.op \in {"and", "or", "score"} /\ g.nodes \in Seq(ConditionNode)
      BY <3>1 DEF StrategyGroup
    <3> QED BY <3>2
  <2>3. /\ EvaluateGroup(g, s.threshold, rows, first, i) => Kept(g)
        /\ Level(g) => (Kept(g) => EvaluateGroup(g, s.threshold, rows, first, i))
    <3>1. CASE g.op = "and"
      BY <1>1, <2>2, <3>1 DEF EvaluateGroup
    <3>2. CASE g.op = "or"
      BY <1>1, <2>2, <3>2 DEF EvaluateGroup
    <3>3. CASE g.op = "score"
      BY <3>3
    <3> QED BY <2>2, <3>1, <3>2, <3>3
  <2> HIDE DEF Kept, Level
  <2> QED BY <2>1, <2>3
<1>4. CandidatePrefilter(s, rows, first, i)
        <=> /\ \A k \in DOMAIN s.filters : FilterMask(s.filters[k], rows, first, i)
            /\ \A k \in DOMAIN s.groups : Kept(s.groups[k])
  BY DEF CandidatePrefilter
<1>5. Unlagged(s) <=> /\ \A k \in DOMAIN s.filters : s.filters[k].lag = 0
                      /\ \A k \in DOMAIN s.groups : Level(s.groups[k])
  BY DEF Unlagged
<1> HIDE DEF Kept, Level
<1> QED BY <1>1, <1>2, <1>3, <1>4, <1>5 DEF Passes, PassesMarketFilters, PassesEntry

LEMMA ExactPrefilter ==
  ASSUME NEW s \in Strategy, NEW rows \in Seq(Bar), NEW first \in Nat, first >= 1
  PROVE  PrefilterIsExact(s, rows, first)
<1> DEFINE i == Len(rows)
<1>1. i \in Nat /\ \A j \in 1..i : rows[j] \in Bar
  OBVIOUS
<1>2. ASSUME i >= first
      PROVE  /\ Passes(s, rows, first, i) => CandidatePrefilter(s, rows, first, i)
             /\ Unlagged(s) => (CandidatePrefilter(s, rows, first, i) => Passes(s, rows, first, i))
  BY <1>1, <1>2, PrefilterHoldsThePassing
<1>3. ASSUME i > first
      PROVE  Passes(s, rows, first, i - 1) = Passes(s, Front(rows), first, i - 1)
  <2>1. i - 1 \in Nat /\ SameUpTo(rows, Front(rows), i - 1)
    BY <1>1, <1>3 DEF SameUpTo, Front
  <2> QED BY <2>1, PassesLooksBack
<1> QED BY <1>2, <1>3, Zenon DEF PrefilterIsExact

ConditionsState ==
  /\ "of" \in DOMAIN work
  /\ work.of = "strategy" =>
       /\ {"strategy", "first", "rows"} \subseteq DOMAIN work
       /\ work.strategy \in Strategies /\ work.first \in 1..2 /\ work.rows \in Seq(Bars)

LEMMA ConditionsStateBegins ==
  ASSUME Init
  PROVE  ConditionsState
<1> SUFFICES ASSUME work.of = "strategy" PROVE ConditionsState
  BY InitIsNamed DEF ConditionsState
<1>1. \E s \in Strategies, first \in 1..2 :
        work = [of |-> "strategy", strategy |-> s, first |-> first, rows |-> <<>>]
  <2>1. ASSUME SyncBegins PROVE work.of = "sync"
    BY <2>1 DEF SyncBegins
  <2>2. ASSUME DailyBegins PROVE work.of = "daily"
    BY <2>2 DEF DailyBegins
  <2>3. ~FetchBegins
    BY DEF FetchBegins
  <2>4. ~DataBegins
    BY <2>1, <2>2 DEF DataBegins
  <2>5. ~MarketBegins
    BY DEF MarketBegins
  <2>6. TextBegins
    BY <2>3, <2>4, <2>5 DEF Init
  <2> QED BY <2>6 DEF TextBegins
<1>2. PICK s \in Strategies, first \in 1..2 :
        work = [of |-> "strategy", strategy |-> s, first |-> first, rows |-> <<>>]
  BY <1>1
<1>3. /\ DOMAIN work = {"of", "strategy", "first", "rows"}
      /\ work.strategy = s /\ work.first = first /\ work.rows = <<>>
  BY <1>2
<1>4. <<>> \in Seq(Bars)
  OBVIOUS
<1> QED BY <1>3, <1>4 DEF ConditionsState

LEMMA ConditionsStateGoesOn ==
  ASSUME ConditionsState, [Next]_work
  PROVE  ConditionsState'
<1>1. "of" \in DOMAIN work /\ "of" \in DOMAIN work' /\ work'.of = work.of
  BY NextIsNamed DEF ConditionsState
<1>2. CASE work' = work
  BY <1>2 DEF ConditionsState
<1>3. CASE work' # work /\ work.of = "strategy"
  <2>1. \E bar \in Bars : work' = [work EXCEPT !.rows = Append(@, bar)]
    BY <1>1, <1>3
    DEF Next, SendRequest, AskForSlot, FetchBars, TryCombination, ReadPage, FetchFlow, FetchBatch,
        KeepRows, WriteRow, AppendRow, AskForBreadth, AskForSectors, RefreshPool, ReadLocal,
        WriteMemory, TakeTurn, SyncMarket, FetchDaily, LiveOn, FillFlow, Launch
  <2>2. PICK bar \in Bars : work' = [work EXCEPT !.rows = Append(@, bar)]
    BY <2>1
  <2>3. /\ {"strategy", "first", "rows"} \subseteq DOMAIN work
        /\ work.strategy \in Strategies /\ work.first \in 1..2 /\ work.rows \in Seq(Bars)
    BY <1>3 DEF ConditionsState
  <2>4. /\ DOMAIN work' = DOMAIN work /\ work'.strategy = work.strategy /\ work'.first = work.first
        /\ work'.rows = Append(work.rows, bar)
    BY <2>2, <2>3
  <2>5. work'.rows \in Seq(Bars)
    BY <2>3, <2>4
  <2> QED BY <1>1, <2>3, <2>4, <2>5 DEF ConditionsState
<1>4. CASE work.of # "strategy"
  BY <1>1, <1>4 DEF ConditionsState
<1> QED BY <1>2, <1>3, <1>4

\* engine.py and conditions.py: the masks the backtest asks first drop no row that its
\* evaluators let through, and let no other through unless a node lags or a group
\* scores; and what is decided of a row does not change when later rows arrive.
THEOREM ConditionsCorrect == Spec => []ConditionsAgree
<1>1. ConditionsState => ConditionsAgree
  <2> SUFFICES ASSUME ConditionsState, work.of = "strategy"
               PROVE  PrefilterIsExact(work.strategy, work.rows, work.first)
    BY DEF ConditionsAgree
  <2>1. work.strategy \in Strategies /\ work.first \in 1..2 /\ work.rows \in Seq(Bars)
    BY DEF ConditionsState
  <2>2. work.strategy \in Strategy
    BY <2>1, ProcedureAssumption DEF Strategy, StrategyGroup
  <2>3. work.rows \in Seq(Bar)
    <3>1. Bars \subseteq Bar
      BY ProcedureAssumption DEF Bar
    <3> QED BY <2>1, <3>1
  <2>4. work.first \in Nat /\ work.first >= 1
    BY <2>1
  <2> QED BY <2>2, <2>3, <2>4, ExactPrefilter
<1> QED BY <1>1, ConditionsStateBegins, ConditionsStateGoesOn, PTL DEF Spec
-----------------------------------------------------------------------------
(* Sums: parts, addition, and counting by rows and by columns.              *)

\* Induction over the subsets of a finite set, for a set of them.
LEMMA SubsetsOneByOne ==
  ASSUME NEW U, IsFiniteSet(U), NEW P, {} \in P,
         \A X \in SUBSET U : X \in P => \A x \in U \ X : X \cup {x} \in P
  PROVE  U \in P
<1> DEFINE T == {n \in Nat : \E X \in SUBSET U : Cardinality(X) = n /\ X \notin P}
<1>1. T = {}
  <2> SUFFICES ASSUME T # {} PROVE FALSE
    OBVIOUS
  <2>1. PICK k \in T : \A y \in T : k <= y
    <3>1. T \in SUBSET Nat
      OBVIOUS
    <3> HIDE DEF T
    <3> QED BY <3>1, Least
  <2>2. PICK X \in SUBSET U : Cardinality(X) = k /\ X \notin P
    BY <2>1
  <2>3. PICK x \in X : TRUE
    BY <2>2
  <2>4. IsFiniteSet(X) /\ IsFiniteSet(X \ {x})
    BY FS_Subset
  <2>5. Cardinality(X \ {x}) = k - 1 /\ Cardinality(X \ {x}) \in Nat /\ k \in Nat
    BY <2>1, <2>2, <2>3, <2>4, FS_RemoveElement, FS_CardinalityType
  <2>6. X \ {x} \in P
    BY <2>1, <2>5
  <2>7. X = (X \ {x}) \cup {x} /\ X \ {x} \in SUBSET U /\ x \in U \ (X \ {x})
    BY <2>3
  <2> HIDE DEF T
  <2> QED BY <2>2, <2>6, <2>7
<1>2. Cardinality(U) \in Nat
  BY FS_CardinalityType
<1> QED BY <1>1, <1>2

SumOn(f, S) == SumFunctionOnSet(f, S)

LEMMA SumWith ==
  ASSUME NEW f, NEW S, AreSummed(f, S), NEW X \in SUBSET S, NEW x \in S \ X
  PROVE  SumOn(f, X \cup {x}) = f[x] + SumOn(f, X) /\ SumOn(f, X) \in Int /\ SumOn(f, X \cup {x}) \in Int /\ f[x] \in Int
<1>1. AreSummed(f, X \cup {x}) /\ AreSummed(f, X) /\ f[x] \in Int
  BY PartsOfSummed DEF AreSummed
<1>2. (X \cup {x}) \ {x} = X /\ x \in X \cup {x}
  OBVIOUS
<1>3. SumOn(f, X \cup {x}) = f[x] + SumOn(f, X)
  BY <1>1, <1>2, SumWithout DEF SumOn
<1> QED BY <1>1, <1>3, SumIsInt DEF SumOn

LEMMA EmptySum == ASSUME NEW f PROVE SumOn(f, {}) = 0
BY SumOfNone DEF SumOn

LEMMA SumAdds ==
  ASSUME NEW f, NEW g, NEW h, NEW S, AreSummed(f, S), AreSummed(g, S), \A x \in S : h[x] = f[x] + g[x]
  PROVE  SumOn(h, S) = SumOn(f, S) + SumOn(g, S)
<1> DEFINE P == {X \in SUBSET S : SumOn(h, X) = SumOn(f, X) + SumOn(g, X)}
<1>1. AreSummed(h, S)
  BY DEF AreSummed
<1>2. {} \in P
  BY EmptySum
<1>3. ASSUME NEW X \in SUBSET S, X \in P, NEW x \in S \ X PROVE X \cup {x} \in P
  <2>1. SumOn(f, X \cup {x}) = f[x] + SumOn(f, X) /\ SumOn(f, X) \in Int /\ f[x] \in Int
    BY SumWith
  <2>2. SumOn(g, X \cup {x}) = g[x] + SumOn(g, X) /\ SumOn(g, X) \in Int /\ g[x] \in Int
    BY SumWith
  <2>3. SumOn(h, X \cup {x}) = h[x] + SumOn(h, X)
    BY <1>1, SumWith
  <2>4. h[x] = f[x] + g[x] /\ SumOn(h, X) = SumOn(f, X) + SumOn(g, X)
    BY <1>3
  <2>5. SumOn(h, X \cup {x}) = SumOn(f, X \cup {x}) + SumOn(g, X \cup {x})
    BY <2>1, <2>2, <2>3, <2>4
  <2> QED BY <2>5
<1> HIDE DEF P
<1>4. S \in P
  <2>1. IsFiniteSet(S)
    BY DEF AreSummed
  <2> QED BY <1>2, <1>3, <2>1, SubsetsOneByOne
<1> QED BY <1>4 DEF P

LEMMA SumAgrees ==
  ASSUME NEW f, NEW g, NEW S, AreSummed(f, S), \A x \in S : g[x] = f[x]
  PROVE  SumOn(g, S) = SumOn(f, S)
<1> DEFINE P == {X \in SUBSET S : SumOn(g, X) = SumOn(f, X)}
<1>1. AreSummed(g, S)
  BY DEF AreSummed
<1>2. {} \in P
  BY EmptySum
<1>3. ASSUME NEW X \in SUBSET S, X \in P, NEW x \in S \ X PROVE X \cup {x} \in P
  <2>1. SumOn(f, X \cup {x}) = f[x] + SumOn(f, X)
    BY SumWith
  <2>2. SumOn(g, X \cup {x}) = g[x] + SumOn(g, X)
    BY <1>1, SumWith
  <2>3. SumOn(g, X \cup {x}) = SumOn(f, X \cup {x})
    BY <1>3, <2>1, <2>2
  <2> QED BY <2>3
<1> HIDE DEF P
<1>4. S \in P
  <2>1. IsFiniteSet(S)
    BY DEF AreSummed
  <2> QED BY <1>2, <1>3, <2>1, SubsetsOneByOne
<1> QED BY <1>4 DEF P

\* Of a relation between days and stocks, who is related.
StocksOf(R, T, d) == {s \in T : <<d, s>> \in R}
DaysOf(R, X, s) == {d \in X : <<d, s>> \in R}

LEMMA SumOfOnes ==
  ASSUME NEW T, IsFiniteSet(T), NEW A \in SUBSET T, NEW f, \A s \in T : f[s] = IF s \in A THEN 1 ELSE 0
  PROVE  SumOn(f, T) = Cardinality(A)
<1> DEFINE P == {X \in SUBSET T : SumOn(f, X) = Cardinality(X \cap A)}
<1>1. AreSummed(f, T)
  BY DEF AreSummed
<1>2. {} \in P
  <2>1. {} \cap A = {} /\ Cardinality({}) = 0
    BY FS_EmptySet
  <2> QED BY <2>1, EmptySum
<1>3. ASSUME NEW X \in SUBSET T, X \in P, NEW x \in T \ X PROVE X \cup {x} \in P
  <2>1. SumOn(f, X \cup {x}) = f[x] + SumOn(f, X)
    BY <1>1, SumWith
  <2>2. IsFiniteSet(X \cap A) /\ Cardinality(X \cap A) \in Nat
    BY FS_Subset, FS_CardinalityType
  <2>3. CASE x \in A
    <3>1. (X \cup {x}) \cap A = (X \cap A) \cup {x} /\ x \notin X \cap A
      BY <2>3
    <3>2. Cardinality((X \cap A) \cup {x}) = Cardinality(X \cap A) + 1
      BY <2>2, <3>1, FS_AddElement
    <3>3. f[x] = 1 /\ SumOn(f, X) = Cardinality(X \cap A)
      BY <1>3, <2>3
    <3>4. SumOn(f, X \cup {x}) = Cardinality((X \cup {x}) \cap A)
      <4>1. Cardinality((X \cup {x}) \cap A) = Cardinality((X \cap A) \cup {x})
        BY <3>1, Zenon
      <4> QED BY <2>1, <2>2, <3>2, <3>3, <4>1
    <3> QED BY <3>4
  <2>4. CASE x \notin A
    <3>1. (X \cup {x}) \cap A = X \cap A
      BY <2>4
    <3> QED BY <1>3, <2>1, <2>2, <2>4, <3>1
  <2> QED BY <2>3, <2>4
<1> HIDE DEF P
<1>4. T \in P
  BY <1>2, <1>3, SubsetsOneByOne
<1> QED
  <2>1. T \cap A = A
    OBVIOUS
  <2> QED BY <1>4, <2>1 DEF P

\* f counts its stocks by day and g its days by stock.
CountsBoth(R, D, T, f, g) ==
  /\ \A d \in D : f[d] = Cardinality(StocksOf(R, T, d))
  /\ \A s \in T : g[s] = Cardinality(DaysOf(R, D, s))

\* Counted day by day or stock by stock, it is the same number.
LEMMA DoubleCounting ==
  ASSUME NEW D, IsFiniteSet(D), NEW T, IsFiniteSet(T), NEW R,
         NEW f, NEW g, CountsBoth(R, D, T, f, g)
  PROVE  SumOn(f, D) = SumOn(g, T) /\ AreSummed(f, D) /\ AreSummed(g, T)
<1> DEFINE count(X) == [s \in T |-> Cardinality(DaysOf(R, X, s))]
           P == {X \in SUBSET D : SumOn(f, X) = SumOn(count(X), T)}
<1>1. \A d \in D : Cardinality(StocksOf(R, T, d)) \in Nat
  BY FS_Subset, FS_CardinalityType DEF StocksOf
<1>2. AreSummed(f, D)
  BY <1>1 DEF AreSummed, CountsBoth
<1>3. ASSUME NEW X \in SUBSET D, NEW s \in T
      PROVE  Cardinality(DaysOf(R, X, s)) \in Nat /\ IsFiniteSet(DaysOf(R, X, s))
  BY FS_Subset, FS_CardinalityType DEF DaysOf
<1>4. \A X \in SUBSET D : AreSummed(count(X), T)
  BY <1>3 DEF AreSummed
<1>5. {} \in P
  <2>1. \A s \in T : count({})[s] = IF s \in {} THEN 1 ELSE 0
    BY FS_EmptySet DEF DaysOf
  <2>2. SumOn(count({}), T) = 0
    <3>1. SumOn(count({}), T) = Cardinality({})
      <4> HIDE DEF count
      <4> QED BY <2>1, SumOfOnes
    <3> QED BY <3>1, FS_EmptySet
  <2> QED BY <2>2, EmptySum
<1>6. ASSUME NEW X \in SUBSET D, X \in P, NEW d \in D \ X PROVE X \cup {d} \in P
  <2> DEFINE ones == [s \in T |-> IF s \in StocksOf(R, T, d) THEN 1 ELSE 0]
  <2>1. SumOn(ones, T) = Cardinality(StocksOf(R, T, d))
    <3>1. StocksOf(R, T, d) \in SUBSET T
      BY DEF StocksOf
    <3>2. \A s \in T : ones[s] = IF s \in StocksOf(R, T, d) THEN 1 ELSE 0
      OBVIOUS
    <3> HIDE DEF ones
    <3> QED BY <3>1, <3>2, SumOfOnes
  <2>2. ASSUME NEW s \in T
        PROVE  Cardinality(DaysOf(R, X \cup {d}, s)) = Cardinality(DaysOf(R, X, s)) + ones[s]
    <3>1. CASE <<d, s>> \in R
      <4>1. DaysOf(R, X \cup {d}, s) = DaysOf(R, X, s) \cup {d} /\ d \notin DaysOf(R, X, s)
        BY <3>1 DEF DaysOf
      <4>2. ones[s] = 1
        BY <3>1 DEF StocksOf
      <4>3. Cardinality(DaysOf(R, X, s) \cup {d}) = Cardinality(DaysOf(R, X, s)) + 1
        BY <1>3, <4>1, FS_AddElement
      <4> QED BY <4>1, <4>2, <4>3
    <3>2. CASE <<d, s>> \notin R
      <4>1. DaysOf(R, X \cup {d}, s) = DaysOf(R, X, s)
        BY <3>2 DEF DaysOf
      <4>2. ones[s] = 0
        BY <3>2 DEF StocksOf
      <4> QED BY <1>3, <4>1, <4>2
    <3> QED BY <3>1, <3>2
  <2>3. \A s \in T : count(X \cup {d})[s] = count(X)[s] + ones[s]
    BY <2>2
  <2>4. AreSummed(count(X), T) /\ AreSummed(ones, T)
    BY <1>4 DEF AreSummed
  <2>5. SumOn(f, X \cup {d}) = f[d] + SumOn(f, X) /\ SumOn(f, X) \in Int /\ f[d] \in Int
    BY <1>2, SumWith
  <2>6. SumOn(f, X) = SumOn(count(X), T)
    BY <1>6
  <2>7. f[d] = Cardinality(StocksOf(R, T, d))
    BY DEF CountsBoth
  <2> HIDE DEF count, ones
  <2>8. SumOn(count(X \cup {d}), T) = SumOn(count(X), T) + SumOn(ones, T)
    BY <2>3, <2>4, SumAdds
  <2>9. SumOn(f, X \cup {d}) = SumOn(count(X \cup {d}), T)
    BY <2>1, <2>5, <2>6, <2>7, <2>8
  <2> QED BY <2>9
<1>7. D \in P
  <2> HIDE DEF P
  <2> QED BY <1>5, <1>6, SubsetsOneByOne
<1>8. SumOn(g, T) = SumOn(count(D), T) /\ AreSummed(g, T)
  <2>1. \A s \in T : g[s] = count(D)[s]
    BY DEF CountsBoth
  <2>2. AreSummed(count(D), T)
    BY <1>4
  <2>3. SumOn(g, T) = SumOn(count(D), T)
    <3> HIDE DEF count
    <3> QED BY <2>1, <2>2, SumAgrees
  <2> QED BY <2>1, <2>2, <2>3 DEF AreSummed
<1> QED BY <1>2, <1>7, <1>8
-----------------------------------------------------------------------------
(* Coverage gaps: days, rows and spans.                                     *)

GapFrames == [Stocks \X Days -> Rows]
GapKnown == [Stocks -> [born : Int, gone : Int, late : BOOLEAN, young : SUBSET Days]]

FirstBar(frame, s) == Min(BarDays(frame, s))
LastBar(frame, s) == Max(BarDays(frame, s))

\* The frames the totals and lists are promised for.
Counted(frame, known) ==
  /\ frame \in GapFrames /\ known \in GapKnown
  /\ RowsAreLived(frame, known) /\ Traded(frame) # {}

LEMMA SomeDays ==
  ASSUME NEW D \in SUBSET Days
  PROVE  /\ IsFiniteSet(D) /\ D \in SUBSET Int /\ \A d \in D : 1 <= d /\ d <= LastDay
         /\ D # {} => /\ Min(D) \in D /\ Max(D) \in D
                      /\ \A d \in D : Min(D) <= d /\ d <= Max(D)
<1>1. IsFiniteSet(Days) /\ Days \subseteq Int /\ \A d \in Days : 1 <= d /\ d <= LastDay
  BY FS_Interval, GapAssumption DEF Days
<1>2. IsFiniteSet(D) /\ D \in SUBSET Int
  BY <1>1, FS_Subset
<1> QED BY <1>1, <1>2, Ends

LEMMA DaysOfRows ==
  ASSUME NEW frame, NEW s
  PROVE  BarDays(frame, s) \in SUBSET Days /\ FlowDays(frame, s) \in SUBSET Days /\ RowDays(frame, s) \in SUBSET Days
         /\ BarDays(frame, s) \subseteq RowDays(frame, s) /\ FlowDays(frame, s) \subseteq RowDays(frame, s)
BY DEF BarDays, FlowDays, RowDays

LEMMA RowsOfADay ==
  ASSUME NEW frame, NEW d
  PROVE  /\ RowsOn(frame, d) \in Nat /\ IsFiniteSet({s \in Stocks : d \in BarDays(frame, s)})
         /\ RowsOn(frame, d) > 0 <=> \E s \in Stocks : d \in BarDays(frame, s)
<1> DEFINE S == {s \in Stocks : d \in BarDays(frame, s)}
<1>1. S \subseteq Stocks
  OBVIOUS
<1> HIDE DEF S
<1>2. IsFiniteSet(S) /\ Cardinality(S) \in Nat
  BY <1>1, GapAssumption, FS_Subset, FS_CardinalityType
<1>3. Cardinality(S) = 0 <=> S = {}
  BY <1>2, FS_EmptySet
<1>4. Cardinality(S) > 0 <=> S # {}
  BY <1>2, <1>3
<1>5. RowsOn(frame, d) = Cardinality(S)
  BY DEF RowsOn, S
<1> QED BY <1>2, <1>4, <1>5 DEF S

LEMMA TradedStocks ==
  ASSUME NEW frame
  PROVE  IsFiniteSet(Traded(frame)) /\ Traded(frame) \subseteq Stocks
<1>1. Traded(frame) \subseteq Stocks
  BY DEF Traded
<1> QED BY <1>1, GapAssumption, FS_Subset

LEMMA SpansOfStocks ==
  ASSUME NEW frame, NEW known, Counted(frame, known), NEW s \in Traded(frame)
  PROVE  /\ s \in Stocks /\ known[s].born \in Int /\ known[s].gone \in Int
         /\ FirstBar(frame, s) \in BarDays(frame, s) /\ LastBar(frame, s) \in BarDays(frame, s)
         /\ FirstBar(frame, s) \in Int /\ LastBar(frame, s) \in Int
         /\ \A d \in BarDays(frame, s) : FirstBar(frame, s) <= d /\ d <= LastBar(frame, s)
         /\ known[s].born <= FirstBar(frame, s) /\ LastBar(frame, s) <= known[s].gone
         /\ From(frame, known, s) = FirstBar(frame, s) /\ To(frame, known, s) = LastBar(frame, s)
<1>1. s \in Stocks /\ BarDays(frame, s) # {} /\ known[s].born \in Int /\ known[s].gone \in Int
  BY DEF Traded, Counted, GapKnown
<1>2. /\ FirstBar(frame, s) \in BarDays(frame, s) /\ LastBar(frame, s) \in BarDays(frame, s)
      /\ \A d \in BarDays(frame, s) : FirstBar(frame, s) <= d /\ d <= LastBar(frame, s)
      /\ BarDays(frame, s) \in SUBSET Int
  BY <1>1, DaysOfRows, SomeDays DEF FirstBar, LastBar
<1>3. \A d \in BarDays(frame, s) : known[s].born <= d /\ d <= known[s].gone
  BY <1>1, DaysOfRows DEF Counted, RowsAreLived
<1>4. /\ FirstBar(frame, s) \in Int /\ LastBar(frame, s) \in Int
      /\ known[s].born <= FirstBar(frame, s) /\ LastBar(frame, s) <= known[s].gone
  BY <1>2, <1>3
<1>5. Max({FirstBar(frame, s), known[s].born}) = FirstBar(frame, s)
  BY <1>1, <1>4, PairEnds
<1>6. Min({LastBar(frame, s), known[s].gone}) = LastBar(frame, s)
  BY <1>1, <1>4, PairEnds
<1>7. From(frame, known, s) = FirstBar(frame, s) /\ To(frame, known, s) = LastBar(frame, s)
  BY <1>5, <1>6 DEF From, To, FirstBar, LastBar
<1> QED BY <1>1, <1>2, <1>4, <1>7

LEMMA EndOfTheWindow ==
  ASSUME NEW frame, NEW known, Counted(frame, known)
  PROVE  /\ WindowEnd(frame) \in Days /\ WindowEnd(frame) \in Int
         /\ \A s \in Stocks : \A d \in BarDays(frame, s) : d <= WindowEnd(frame)
         /\ \E s \in Stocks : WindowEnd(frame) \in BarDays(frame, s)
<1> DEFINE D == {d \in Days : RowsOn(frame, d) > 0}
<1>1. ASSUME NEW s \in Stocks, NEW d \in BarDays(frame, s) PROVE d \in D
  BY DaysOfRows, RowsOfADay
<1>2. D # {}
  BY <1>1 DEF Counted, Traded
<1>3. D \in SUBSET Days
  OBVIOUS
<1>4. Max(D) \in D /\ \A d \in D : d <= Max(D)
  <2> HIDE DEF D
  <2> QED BY <1>2, <1>3, SomeDays
<1>5. Max(D) \in Days /\ Max(D) \in Int /\ \E s \in Stocks : Max(D) \in BarDays(frame, s)
  <2>1. Max(D) \in Days /\ RowsOn(frame, Max(D)) > 0
    BY <1>4
  <2>2. Max(D) \in Int
    BY <2>1, SomeDays
  <2> HIDE DEF D
  <2> QED BY <2>1, <2>2, RowsOfADay
<1>6. WindowEnd(frame) = Max(D)
  BY DEF WindowEnd
<1> HIDE DEF D
<1> QED BY <1>1, <1>4, <1>5, <1>6

LEMMA SpannedAreTraded ==
  ASSUME NEW frame, NEW known, Counted(frame, known)
  PROVE  Spanned(frame, known) = Traded(frame)
<1>1. ASSUME NEW s \in Traded(frame) PROVE From(frame, known, s) <= To(frame, known, s)
  BY SpansOfStocks
<1> QED BY <1>1 DEF Spanned

\* The days without prices between the first and the last that have them.
HoleDays(frame, s) == FirstBar(frame, s)..LastBar(frame, s) \ BarDays(frame, s)
HoleCells(frame) == {p \in Days \X Traded(frame) : p[1] \in HoleDays(frame, p[2])}

LEMMA HolesAreDays ==
  ASSUME NEW frame, NEW known, Counted(frame, known), NEW s \in Traded(frame)
  PROVE  HoleDays(frame, s) \in SUBSET Days /\ \A D \in SUBSET Days : DaysOf(HoleCells(frame), D, s) = HoleDays(frame, s) \cap D
<1>1. FirstBar(frame, s) \in Days /\ LastBar(frame, s) \in Days
  BY SpansOfStocks, DaysOfRows
<1>2. HoleDays(frame, s) \in SUBSET Days
  BY <1>1, GapAssumption DEF HoleDays, Days
<1> QED BY <1>2 DEF DaysOf, HoleCells

LEMMA DisjointSum ==
  ASSUME NEW A, NEW B, IsFiniteSet(A), IsFiniteSet(B), A \cap B = {}
  PROVE  IsFiniteSet(A \cup B) /\ Cardinality(A \cup B) = Cardinality(A) + Cardinality(B)
         /\ Cardinality(A) \in Nat /\ Cardinality(B) \in Nat
<1>1. Cardinality(A) \in Nat /\ Cardinality(B) \in Nat
  BY FS_CardinalityType
<1>2. IsFiniteSet(A \cup B) /\ Cardinality(A \cup B) = Cardinality(A) + Cardinality(B) - Cardinality(A \cap B)
  BY FS_Union
<1>3. Cardinality(A \cap B) = 0
  BY FS_EmptySet
<1> QED BY <1>1, <1>2, <1>3

\* The stocks that span a day, less those that have it, are those with a hole there.
LEMMA InternalCounts ==
  ASSUME NEW frame, NEW known, Counted(frame, known), NEW d \in Days
  PROVE  Internal(frame, known, d) = Cardinality(StocksOf(HoleCells(frame), Traded(frame), d))
<1> DEFINE T == Traded(frame)
           A == {s \in T : From(frame, known, s) <= d}
           B == {s \in T : To(frame, known, s) < d}
           C == {s \in Stocks : d \in BarDays(frame, s)}
           H == StocksOf(HoleCells(frame), T, d)
           starts == {From(frame, known, s) : s \in T}
<1>1. Spanned(frame, known) = T /\ d \in Int
  BY SpannedAreTraded, SomeDays
<1>2. ASSUME NEW s \in T
      PROVE  s \in H <=> FirstBar(frame, s) <= d /\ d <= LastBar(frame, s) /\ d \notin BarDays(frame, s)
  <2>1. FirstBar(frame, s) \in Int /\ LastBar(frame, s) \in Int
    BY SpansOfStocks
  <2> QED BY <1>1, <2>1 DEF StocksOf, HoleCells, HoleDays
<1>3. H \subseteq T /\ C \subseteq T
  BY DEF StocksOf, Traded
<1>4. IsFiniteSet(T) /\ T \subseteq Stocks
  BY TradedStocks
<1>5. A = (B \cup C) \cup H /\ B \cap C = {} /\ (B \cup C) \cap H = {}
  <2>1. ASSUME NEW s \in T
        PROVE  /\ s \in A <=> s \in B \/ s \in C \/ s \in H
               /\ ~(s \in B /\ s \in C) /\ ~(s \in B /\ s \in H) /\ ~(s \in C /\ s \in H)
    <3>1. /\ From(frame, known, s) = FirstBar(frame, s) /\ To(frame, known, s) = LastBar(frame, s)
          /\ FirstBar(frame, s) \in Int /\ LastBar(frame, s) \in Int /\ s \in Stocks
          /\ d \in BarDays(frame, s) => FirstBar(frame, s) <= d /\ d <= LastBar(frame, s)
          /\ FirstBar(frame, s) <= LastBar(frame, s)
      BY SpansOfStocks
    <3>2. s \in A <=> FirstBar(frame, s) <= d
      BY <3>1
    <3>3. s \in B <=> LastBar(frame, s) < d
      BY <3>1
    <3>4. s \in C <=> d \in BarDays(frame, s)
      BY <3>1
    <3> HIDE DEF A, B, C, H
    <3> QED BY <1>1, <1>2, <3>1, <3>2, <3>3, <3>4
  <2>2. A \subseteq T /\ B \subseteq T
    OBVIOUS
  <2> HIDE DEF A, B, C, H, T
  <2> QED BY <1>3, <2>1, <2>2
<1>6. IsFiniteSet(B) /\ IsFiniteSet(C) /\ IsFiniteSet(H)
  <2>1. B \subseteq T
    OBVIOUS
  <2> HIDE DEF B, C, H, T
  <2> QED BY <1>3, <1>4, <2>1, FS_Subset
<1>7. Cardinality(A) = Cardinality(B) + Cardinality(C) + Cardinality(H)
      /\ Cardinality(A) \in Int /\ Cardinality(B) \in Int /\ Cardinality(C) \in Int /\ Cardinality(H) \in Nat
  <2> HIDE DEF A, B, C, H
  <2>1. IsFiniteSet(B \cup C) /\ Cardinality(B \cup C) = Cardinality(B) + Cardinality(C)
        /\ Cardinality(B) \in Nat /\ Cardinality(C) \in Nat
    BY <1>5, <1>6, DisjointSum
  <2>2. Cardinality((B \cup C) \cup H) = Cardinality(B \cup C) + Cardinality(H) /\ Cardinality(H) \in Nat
    BY <1>5, <1>6, <2>1, DisjointSum
  <2> QED BY <1>5, <2>1, <2>2
<1>8. Spanning(frame, known, d) - RowsOn(frame, d) = Cardinality(H)
  <2>1. Spanning(frame, known, d) = Cardinality(A) - Cardinality(B)
    BY <1>1 DEF Spanning
  <2>2. RowsOn(frame, d) = Cardinality(C)
    BY DEF RowsOn
  <2> HIDE DEF A, B, C, H
  <2> QED BY <1>7, <2>1, <2>2
<1>9. starts # {} /\ starts \in SUBSET Days
  <2>1. \A s \in T : From(frame, known, s) \in Days
    BY SpansOfStocks, DaysOfRows
  <2>2. T # {}
    BY DEF Counted
  <2> QED BY <2>1, <2>2
<1>10. ASSUME d < Min(starts) \/ d > WindowEnd(frame) PROVE Cardinality(H) = 0
  <2>1. ASSUME NEW s \in H PROVE FALSE
    <3>1. s \in T
      BY <1>3
    <3>2. /\ FirstBar(frame, s) <= d /\ d <= LastBar(frame, s) /\ LastBar(frame, s) \in BarDays(frame, s)
          /\ From(frame, known, s) = FirstBar(frame, s) /\ s \in Stocks
          /\ FirstBar(frame, s) \in Int /\ LastBar(frame, s) \in Int
      BY <1>2, <2>1, <3>1, SpansOfStocks
    <3>3. LastBar(frame, s) <= WindowEnd(frame) /\ WindowEnd(frame) \in Int
      BY <3>2, EndOfTheWindow
    <3>4. From(frame, known, s) \in starts
      BY <3>1
    <3> HIDE DEF starts
    <3>5. Min(starts) <= From(frame, known, s) /\ Min(starts) \in Int
      BY <1>9, <3>4, SomeDays
    <3> QED BY <1>1, <1>10, <3>2, <3>3, <3>5
  <2>2. H = {}
    BY <2>1
  <2> QED BY <2>2, FS_EmptySet
<1>11. Max({0, Cardinality(H)}) = Cardinality(H)
  <2> HIDE DEF H
  <2>1. 0 \in Int /\ Cardinality(H) \in Int
    BY <1>7
  <2> QED BY <1>7, <2>1, PairEnds
<1>12. Internal(frame, known, d)
         = IF starts = {} \/ d < Min(starts) \/ d > WindowEnd(frame) THEN 0
           ELSE Max({0, Spanning(frame, known, d) - RowsOn(frame, d)})
  BY <1>1, Zenon DEF Internal
<1>13. Internal(frame, known, d) = Cardinality(H)
  <2> HIDE DEF starts, H
  <2> QED BY <1>8, <1>9, <1>10, <1>11, <1>12
<1> QED BY <1>13
-----------------------------------------------------------------------------
(* Coverage gaps: the totals and the lists.                                 *)

LEMMA SumOfAFunction ==
  ASSUME NEW S, NEW f, DOMAIN f = S
  PROVE  SumFunction(f) = SumOn(f, S)
BY DEF SumFunction, SumOn

\* The stocks' holes on some of the days, counted by day and by stock.
LEMMA HolesByStock ==
  ASSUME NEW frame, NEW known, Counted(frame, known), NEW D \in SUBSET Days,
         NEW f, DOMAIN f = D, \A d \in D : f[d] = Internal(frame, known, d),
         NEW g, \A s \in Traded(frame) : g[s] = Cardinality(HoleDays(frame, s) \cap D)
  PROVE  SumFunction(f) = SumOn(g, Traded(frame)) /\ AreSummed(g, Traded(frame))
<1>1. IsFiniteSet(D) /\ IsFiniteSet(Traded(frame))
  BY SomeDays, TradedStocks
<1>2. \A d \in D : f[d] = Cardinality(StocksOf(HoleCells(frame), Traded(frame), d))
  BY InternalCounts
<1>3. \A s \in Traded(frame) : g[s] = Cardinality(DaysOf(HoleCells(frame), D, s))
  BY HolesAreDays
<1>4. CountsBoth(HoleCells(frame), D, Traded(frame), f, g)
  BY <1>2, <1>3 DEF CountsBoth
<1>5. SumOn(f, D) = SumOn(g, Traded(frame)) /\ AreSummed(g, Traded(frame))
  BY <1>1, <1>4, DoubleCounting
<1> QED BY <1>5, SumOfAFunction

BehindDays(frame, known, s) == Behind(frame, known, s, Max(BarDays(frame, s)))

\* What a stock lacks up to the end of the warehouse: its holes and its tail.
LEMMA LackingOfAStock ==
  ASSUME NEW frame, NEW known, Counted(frame, known), NEW s \in Traded(frame)
  PROVE  /\ BehindDays(frame, known, s) \in SUBSET Days /\ BehindDays(frame, known, s) \cap HoleDays(frame, s) = {}
         /\ \A d \in BehindDays(frame, known, s) : d > LastBar(frame, s)
         /\ Min(BarDays(frame, s))..Min({WindowEnd(frame), known[s].gone}) \ BarDays(frame, s)
              = HoleDays(frame, s) \cup BehindDays(frame, known, s)
         /\ \A d \in BehindDays(frame, known, s) : d \notin BarDays(frame, s)
<1> DEFINE first == FirstBar(frame, s)
           last == LastBar(frame, s)
           end == Min({WindowEnd(frame), known[s].gone})
<1>1. /\ s \in Stocks /\ known[s].gone \in Int /\ first \in BarDays(frame, s) /\ last \in BarDays(frame, s)
      /\ first \in Int /\ last \in Int /\ \A d \in BarDays(frame, s) : first <= d /\ d <= last
      /\ last <= known[s].gone
  BY SpansOfStocks
<1>2. WindowEnd(frame) \in Days /\ WindowEnd(frame) \in Int /\ last <= WindowEnd(frame)
  BY <1>1, EndOfTheWindow
<1>3. end \in Int /\ end <= WindowEnd(frame) /\ last <= end
  <2>1. end = IF WindowEnd(frame) <= known[s].gone THEN WindowEnd(frame) ELSE known[s].gone
    BY <1>1, <1>2, PairEnds
  <2> HIDE DEF end, last
  <2> QED BY <1>1, <1>2, <2>1
<1>4. BehindDays(frame, known, s) = last + 1..end
  BY DEF BehindDays, Behind, LastBar
<1>5. BarDays(frame, s) \in SUBSET Int /\ BarDays(frame, s) \in SUBSET Days /\ last \in Days
  BY <1>1, DaysOfRows, SomeDays
<1>6. 1 <= last /\ WindowEnd(frame) <= LastDay /\ LastDay \in Int
  BY <1>2, <1>5, SomeDays, GapAssumption
<1>7. Min(BarDays(frame, s)) = first
  BY DEF FirstBar
<1>8. HoleDays(frame, s) = first..last \ BarDays(frame, s)
  BY DEF HoleDays
<1> HIDE DEF first, last, end
<1>9. BehindDays(frame, known, s) \in SUBSET Days
  BY <1>1, <1>2, <1>3, <1>4, <1>6 DEF Days
<1>10. first..end \ BarDays(frame, s) = HoleDays(frame, s) \cup BehindDays(frame, known, s)
  BY <1>1, <1>3, <1>4, <1>5, <1>8
<1>11. \A d \in BehindDays(frame, known, s) : d > last /\ d \notin BarDays(frame, s) /\ d \notin HoleDays(frame, s)
  BY <1>1, <1>3, <1>4, <1>5, <1>8
<1> QED BY <1>7, <1>9, <1>10, <1>11 DEF last, end

\* Every day a stock lacks is in exactly one of the totals.
LEMMA TotalsAddUp ==
  ASSUME NEW frame, NEW known, Counted(frame, known),
         NEW g, DOMAIN g = Traded(frame),
         \A s \in Traded(frame) : g[s] =
           Cardinality(Min(BarDays(frame, s))..Min({WindowEnd(frame), known[s].gone}) \ BarDays(frame, s))
  PROVE  DailyMissing(frame, known) + Suspended(frame, known) = SumFunction(g)
<1> DEFINE T == Traded(frame)
           N == NormalDays(frame, Days)
           onN == [d \in N |-> Internal(frame, known, d)]
           offN == [d \in Days \ N |-> Internal(frame, known, d)]
           a == [s \in T |-> Cardinality(HoleDays(frame, s) \cap N)]
           b == [s \in T |-> Cardinality(HoleDays(frame, s) \cap (Days \ N))]
           c == [s \in T |-> Cardinality(BehindDays(frame, known, s))]
           m == [s \in T |-> a[s] + b[s]]
<1>1. N \in SUBSET Days /\ Days \ N \in SUBSET Days
  BY DEF NormalDays
<1>2. Suspended(frame, known) = SumOn(a, T) /\ AreSummed(a, T)
  <2>0. /\ DOMAIN onN = N /\ \A d \in N : onN[d] = Internal(frame, known, d)
        /\ \A s \in Traded(frame) : a[s] = Cardinality(HoleDays(frame, s) \cap (N))
    OBVIOUS
  <2>1. SumFunction(onN) = SumOn(a, T) /\ AreSummed(a, T)
    <3> HIDE DEF onN, a, N
    <3> QED BY <1>1, <2>0, HolesByStock
  <2> QED BY <2>1 DEF Suspended
<1>3. InternalMissing(frame, known) = SumOn(b, T) /\ AreSummed(b, T)
  <2>0. /\ DOMAIN offN = Days \ N /\ \A d \in Days \ N : offN[d] = Internal(frame, known, d)
        /\ \A s \in Traded(frame) : b[s] = Cardinality(HoleDays(frame, s) \cap (Days \ N))
    OBVIOUS
  <2>1. SumFunction(offN) = SumOn(b, T) /\ AreSummed(b, T)
    <3> HIDE DEF offN, b, N
    <3> QED BY <1>1, <2>0, HolesByStock
  <2> QED BY <2>1 DEF InternalMissing
<1>4. DailyMissing(frame, known) = SumOn(b, T) + SumOn(c, T) /\ AreSummed(c, T)
  <2>1. SumFunction(c) = SumOn(c, T)
    BY SumOfAFunction
  <2>2. DailyMissing(frame, known) = InternalMissing(frame, known) + SumFunction(c)
    BY DEF DailyMissing, BehindDays
  <2>3. ASSUME NEW s \in T PROVE Cardinality(BehindDays(frame, known, s)) \in Int
    <3>1. BehindDays(frame, known, s) \in SUBSET Days
      BY LackingOfAStock
    <3> QED BY <3>1, SomeDays, FS_CardinalityType
  <2>4. IsFiniteSet(T)
    BY TradedStocks
  <2> QED BY <1>3, <2>1, <2>2, <2>3, <2>4 DEF AreSummed
<1>5. ASSUME NEW s \in T PROVE g[s] = m[s] + c[s]
  <2> DEFINE H == HoleDays(frame, s)
             L == BehindDays(frame, known, s)
  <2>1. H \in SUBSET Days /\ L \in SUBSET Days /\ L \cap H = {}
    BY HolesAreDays, LackingOfAStock
  <2>2. g[s] = Cardinality(H \cup L)
    BY LackingOfAStock
  <2>3. m[s] = Cardinality(H \cap N) + Cardinality(H \cap (Days \ N)) /\ c[s] = Cardinality(L)
    OBVIOUS
  <2> HIDE DEF H, L, N, m, c
  <2>4. IsFiniteSet(H \cap N) /\ IsFiniteSet(H \cap (Days \ N)) /\ IsFiniteSet(L) /\ IsFiniteSet(H)
    BY <1>1, <2>1, SomeDays
  <2>5. H = (H \cap N) \cup (H \cap (Days \ N)) /\ (H \cap N) \cap (H \cap (Days \ N)) = {} /\ H \cap L = {}
    BY <2>1
  <2>6. Cardinality((H \cap N) \cup (H \cap (Days \ N))) = Cardinality(H \cap N) + Cardinality(H \cap (Days \ N))
    BY <2>4, <2>5, DisjointSum
  <2>7. Cardinality(H \cup L) = Cardinality(H) + Cardinality(L)
    BY <2>4, <2>5, DisjointSum
  <2>8. Cardinality(H) = Cardinality((H \cap N) \cup (H \cap (Days \ N)))
    BY <2>5, Zenon
  <2> QED BY <2>2, <2>3, <2>6, <2>7, <2>8
<1>6. \A s \in T : m[s] = a[s] + b[s]
  OBVIOUS
<1>7. SumFunction(g) = SumOn(g, T)
  BY SumOfAFunction
<1> HIDE DEF T, a, b, c, m
<1>8. AreSummed(m, T) /\ SumOn(m, T) = SumOn(a, T) + SumOn(b, T)
  <2>1. AreSummed(m, T)
    BY <1>2, <1>3, <1>6 DEF AreSummed
  <2> QED BY <1>2, <1>3, <1>6, <2>1, SumAdds
<1>9. SumOn(g, T) = SumOn(m, T) + SumOn(c, T)
  BY <1>4, <1>5, <1>8, SumAdds
<1>10. SumOn(a, T) \in Int /\ SumOn(b, T) \in Int /\ SumOn(c, T) \in Int
  BY <1>2, <1>3, <1>4, SumIsInt DEF SumOn
<1> QED BY <1>2, <1>4, <1>7, <1>8, <1>9, <1>10

\* The days without rows do not enter the classification.
LEMMA OneClassification ==
  ASSUME NEW frame, NEW known, Counted(frame, known)
  PROVE  /\ OwnWindow(frame) \in SUBSET Days
         /\ NormalDays(frame, OwnWindow(frame)) = NormalDays(frame, Days)
<1> DEFINE A == AllRowDays(frame)
<1>1. A \in SUBSET Days /\ \A s \in Stocks : BarDays(frame, s) \subseteq A
  BY DaysOfRows DEF AllRowDays
<1>2. A # {}
  BY <1>1 DEF Counted, Traded
<1> HIDE DEF A
<1>3. /\ Min(A) \in A /\ Max(A) \in A /\ \A d \in A : Min(A) <= d /\ d <= Max(A)
      /\ A \in SUBSET Int /\ \A d \in A : 1 <= d /\ d <= LastDay
  BY <1>1, <1>2, SomeDays
<1>4. A \subseteq OwnWindow(frame) /\ OwnWindow(frame) \in SUBSET Days
  <2>1. OwnWindow(frame) = Min(A)..Max(A)
    BY DEF OwnWindow, A
  <2>2. Min(A) \in Int /\ Max(A) \in Int /\ 1 <= Min(A) /\ Max(A) <= LastDay
    BY <1>3
  <2>3. LastDay \in Int
    BY GapAssumption
  <2> QED BY <1>3, <2>1, <2>2, <2>3 DEF Days
<1>5. {d \in OwnWindow(frame) : RowsOn(frame, d) > 0} = {d \in Days : RowsOn(frame, d) > 0}
  <2>1. ASSUME NEW d \in Days, RowsOn(frame, d) > 0 PROVE d \in A
    BY <1>1, <2>1, RowsOfADay
  <2> QED BY <1>4, <2>1
<1> QED BY <1>4, <1>5, Zenon DEF NormalDays

\* With the days classified, the table of a stock has its holes outside the normal
\* days and its tail.
LEMMA TableOfAStock ==
  ASSUME NEW frame, NEW known, Counted(frame, known), NEW s \in Traded(frame),
         \A t \in Stocks : RowDays(frame, t) = BarDays(frame, t), Cardinality(OwnWindow(frame)) >= MinDays
  PROVE  TableOf(frame, known, s)
           = (HoleDays(frame, s) \cap (Days \ NormalDays(frame, Days))) \cup BehindDays(frame, known, s)
<1> DEFINE N == NormalDays(frame, Days)
           first == FirstBar(frame, s)
           last == LastBar(frame, s)
           end == Min({WindowEnd(frame), known[s].gone})
           window == first..end
<1>1. Classified(frame, OwnWindow(frame)) = N
  <2>1. Cardinality(OwnWindow(frame)) \in Nat /\ MinDays \in Nat
    BY OneClassification, SomeDays, FS_CardinalityType, GapAssumption
  <2>2. ~(Cardinality(OwnWindow(frame)) < MinDays)
    BY <2>1
  <2> QED BY <2>2, OneClassification DEF Classified
<1>2. /\ s \in Stocks /\ known[s].gone \in Int /\ known[s].born \in Int /\ first \in Int /\ last \in Int
      /\ known[s].born <= first
  BY SpansOfStocks
<1>3. WindowEnd(frame) \in Int /\ last <= WindowEnd(frame)
  BY <1>2, SpansOfStocks, EndOfTheWindow
<1>4. RowDays(frame, s) = BarDays(frame, s)
  BY <1>2
<1>5. Max({first, known[s].born}) = first /\ Max({WindowEnd(frame), last}) = WindowEnd(frame)
  BY <1>2, <1>3, PairEnds
<1>6. TableOf(frame, known, s) = {d \in window \ BarDays(frame, s) : d > last \/ d \notin N}
  <2>1. TableOf(frame, known, s)
          = TableMissing(frame, known, s, first, WindowEnd(frame), OwnWindow(frame))
    BY <1>4, <1>5 DEF TableOf, FirstBar, LastBar
  <2>2. TableMissing(frame, known, s, first, WindowEnd(frame), OwnWindow(frame))
          = {d \in window \ BarDays(frame, s) : d > last \/ d \notin N}
    BY <1>1, <1>4, <1>5 DEF TableMissing, LastBar
  <2> QED BY <2>1, <2>2
<1>7. /\ window \ BarDays(frame, s) = HoleDays(frame, s) \cup BehindDays(frame, known, s)
      /\ \A d \in BehindDays(frame, known, s) : d > last
  BY LackingOfAStock DEF FirstBar
<1>8. \A d \in HoleDays(frame, s) : d <= last /\ d \in Int /\ d \in Days
  BY <1>2, HolesAreDays DEF HoleDays
<1>9. \A d \in HoleDays(frame, s) : ~(d > last)
  BY <1>2, <1>8
<1> HIDE DEF window, N, last
<1> QED BY <1>6, <1>7, <1>8, <1>9 DEF N

LEMMA TableAddsUp ==
  ASSUME NEW frame, NEW known, Counted(frame, known),
         \A t \in Stocks : RowDays(frame, t) = BarDays(frame, t), Cardinality(OwnWindow(frame)) >= MinDays,
         NEW g, DOMAIN g = Traded(frame), \A s \in Traded(frame) : g[s] = Cardinality(TableOf(frame, known, s))
  PROVE  DailyMissing(frame, known) = SumFunction(g)
<1> DEFINE T == Traded(frame)
           M == Days \ NormalDays(frame, Days)
           offN == [d \in M |-> Internal(frame, known, d)]
           b == [s \in T |-> Cardinality(HoleDays(frame, s) \cap M)]
           c == [s \in T |-> Cardinality(BehindDays(frame, known, s))]
<1>1. InternalMissing(frame, known) = SumOn(b, T) /\ AreSummed(b, T)
  <2>0. /\ DOMAIN offN = M /\ (\A d \in M : offN[d] = Internal(frame, known, d)) /\ M \in SUBSET Days
        /\ \A s \in Traded(frame) : b[s] = Cardinality(HoleDays(frame, s) \cap M)
    OBVIOUS
  <2>1. SumFunction(offN) = SumOn(b, T) /\ AreSummed(b, T)
    <3> HIDE DEF offN, b, M
    <3> QED BY <2>0, HolesByStock
  <2> QED BY <2>1 DEF InternalMissing
<1>2. DailyMissing(frame, known) = SumOn(b, T) + SumOn(c, T) /\ AreSummed(c, T)
  <2>1. SumFunction(c) = SumOn(c, T)
    BY SumOfAFunction
  <2>2. DailyMissing(frame, known) = InternalMissing(frame, known) + SumFunction(c)
    BY DEF DailyMissing, BehindDays
  <2>3. ASSUME NEW s \in T PROVE Cardinality(BehindDays(frame, known, s)) \in Int
    <3>1. BehindDays(frame, known, s) \in SUBSET Days
      BY LackingOfAStock
    <3> QED BY <3>1, SomeDays, FS_CardinalityType
  <2>4. IsFiniteSet(T)
    BY TradedStocks
  <2> QED BY <1>1, <2>1, <2>2, <2>3, <2>4 DEF AreSummed
<1>3. ASSUME NEW s \in T PROVE g[s] = b[s] + c[s]
  <2> DEFINE H == HoleDays(frame, s)
             L == BehindDays(frame, known, s)
  <2>1. H \in SUBSET Days /\ L \in SUBSET Days /\ L \cap H = {}
    BY HolesAreDays, LackingOfAStock
  <2>2. g[s] = Cardinality((H \cap M) \cup L)
    BY TableOfAStock
  <2>3. b[s] = Cardinality(H \cap M) /\ c[s] = Cardinality(L)
    OBVIOUS
  <2> HIDE DEF H, L, M, b, c
  <2>4. IsFiniteSet(H \cap M) /\ IsFiniteSet(L) /\ (H \cap M) \cap L = {}
    BY <2>1, SomeDays
  <2>5. Cardinality((H \cap M) \cup L) = Cardinality(H \cap M) + Cardinality(L)
    BY <2>4, DisjointSum
  <2> QED BY <2>2, <2>3, <2>5
<1>4. SumFunction(g) = SumOn(g, T)
  BY SumOfAFunction
<1> HIDE DEF T, b, c
<1>5. SumOn(g, T) = SumOn(b, T) + SumOn(c, T)
  BY <1>1, <1>2, <1>3, SumAdds
<1> QED BY <1>2, <1>4, <1>5

LEMMA TotalsMatch ==
  ASSUME NEW frame \in GapFrames, NEW known \in GapKnown
  PROVE  TotalsMatchStocks(frame, known)
<1> SUFFICES ASSUME Traded(frame) # {}, RowsAreLived(frame, known)
             PROVE  TotalsMatchStocks(frame, known)
  BY Zenon DEF TotalsMatchStocks
<1>1. Counted(frame, known)
  BY DEF Counted
<1>2. DailyMissing(frame, known) + Suspended(frame, known)
        = SumFunction([s \in Traded(frame) |->
             Cardinality(Min(BarDays(frame, s))..Min({WindowEnd(frame), known[s].gone}) \ BarDays(frame, s))])
  <2> DEFINE g == [s \in Traded(frame) |->
                     Cardinality(Min(BarDays(frame, s))..Min({WindowEnd(frame), known[s].gone}) \ BarDays(frame, s))]
  <2>1. /\ DOMAIN g = Traded(frame)
        /\ \A s \in Traded(frame) : g[s] =
             Cardinality(Min(BarDays(frame, s))..Min({WindowEnd(frame), known[s].gone}) \ BarDays(frame, s))
    OBVIOUS
  <2> HIDE DEF g
  <2>2. DailyMissing(frame, known) + Suspended(frame, known) = SumFunction(g)
    BY <1>1, <2>1, TotalsAddUp
  <2> QED BY <2>2 DEF g
<1>3. (\A s \in Stocks : RowDays(frame, s) = BarDays(frame, s)) /\ Cardinality(OwnWindow(frame)) >= MinDays
        => DailyMissing(frame, known)
             = SumFunction([s \in Traded(frame) |-> Cardinality(TableOf(frame, known, s))])
  <2> DEFINE g == [s \in Traded(frame) |-> Cardinality(TableOf(frame, known, s))]
  <2>1. DOMAIN g = Traded(frame) /\ \A s \in Traded(frame) : g[s] = Cardinality(TableOf(frame, known, s))
    OBVIOUS
  <2> HIDE DEF g
  <2>2. (\A s \in Stocks : RowDays(frame, s) = BarDays(frame, s)) /\ Cardinality(OwnWindow(frame)) >= MinDays
          => DailyMissing(frame, known) = SumFunction(g)
    BY <1>1, <2>1, TableAddsUp
  <2> QED BY <2>2 DEF g
<1>4. ASSUME NEW s \in Traded(frame), known[s].gone > LastDay
      PROVE  s \in Stale(frame, known) <=> Behind(frame, known, s, Max(BarDays(frame, s))) # {}
  <2>1. /\ known[s].gone \in Int /\ LastBar(frame, s) \in Int
        /\ WindowEnd(frame) \in Int /\ WindowEnd(frame) <= LastDay /\ LastDay \in Int
    BY <1>1, SpansOfStocks, EndOfTheWindow, SomeDays, GapAssumption
  <2>2. Min({WindowEnd(frame), known[s].gone}) = WindowEnd(frame)
    <3>1. Min({WindowEnd(frame), known[s].gone})
            = IF WindowEnd(frame) <= known[s].gone THEN WindowEnd(frame) ELSE known[s].gone
      BY <2>1, PairEnds
    <3> QED BY <1>4, <2>1, <3>1
  <2>3. Behind(frame, known, s, Max(BarDays(frame, s))) = LastBar(frame, s) + 1..WindowEnd(frame)
    BY <2>2 DEF Behind, LastBar
  <2>4. s \in Stale(frame, known) <=> LastBar(frame, s) < WindowEnd(frame)
    BY <1>4 DEF Stale, LastBar
  <2>5. LastBar(frame, s) + 1..WindowEnd(frame) # {} <=> LastBar(frame, s) < WindowEnd(frame)
    <3>1. LastBar(frame, s) < WindowEnd(frame) => WindowEnd(frame) \in LastBar(frame, s) + 1..WindowEnd(frame)
      BY <2>1
    <3>2. ASSUME NEW d \in LastBar(frame, s) + 1..WindowEnd(frame) PROVE LastBar(frame, s) < WindowEnd(frame)
      BY <2>1
    <3> QED BY <3>1, <3>2
  <2> QED BY <2>3, <2>4, <2>5
<1> QED BY <1>2, <1>3, <1>4, Zenon DEF TotalsMatchStocks
\* What the totals leave out as before the source, the list leaves out too: the first
\* row is the first with prices, or capital flow came before any of them.
LEMMA CountedLateIsListedLate ==
  ASSUME NEW frame, NEW known, Counted(frame, known), NEW s \in Traded(frame), CountedLate(frame, known, s)
  PROVE  ListedLate(frame, known, s)
<1> DEFINE start == Min(FlowDays(frame, s))
           bar == Min(BarDays(frame, s))
           row == Min(RowDays(frame, s))
           bars == Min(AllBarDays(frame))
           all == Min(AllRowDays(frame))
<1>1. /\ s \in Stocks /\ BarDays(frame, s) # {} /\ FlowDays(frame, s) # {}
      /\ BarDays(frame, s) \in SUBSET Days /\ FlowDays(frame, s) \in SUBSET Days
      /\ RowDays(frame, s) = BarDays(frame, s) \cup FlowDays(frame, s)
  BY DaysOfRows DEF Traded, CountedLate, RowDays
<1>2. /\ bar \in BarDays(frame, s) /\ start \in FlowDays(frame, s) /\ row \in RowDays(frame, s)
      /\ \A e \in RowDays(frame, s) : row <= e
      /\ \A e \in FlowDays(frame, s) : start <= e
      /\ \A e \in BarDays(frame, s) : bar <= e
      /\ bar \in Int /\ start \in Int /\ row \in Int
  BY <1>1, SomeDays
<1>3. bars \in Int /\ all \in Int /\ all <= bars
  <2>1. AllBarDays(frame) \in SUBSET Days /\ AllRowDays(frame) \in SUBSET Days
    BY DaysOfRows DEF AllBarDays, AllRowDays
  <2>2. AllBarDays(frame) # {} /\ AllBarDays(frame) \subseteq AllRowDays(frame)
    BY <1>1 DEF AllBarDays, AllRowDays, RowDays
  <2> QED BY <2>1, <2>2, SomeDays
<1> HIDE DEF start, bar, row, bars, all
<1>4. ASSUME bar > bars, start - bar \in 0..SourceLag
      PROVE  row > all /\ start - row \in 0..SourceLag
  <2>1. row \in BarDays(frame, s) \/ row \in FlowDays(frame, s)
    BY <1>1, <1>2
  <2>2. row = bar
    BY <1>1, <1>2, <1>4, <2>1
  <2> QED BY <1>2, <1>3, <1>4, <2>2
<1>5. BeginsLate(known, s, start, row, all)
  <2>1. BeginsLate(known, s, start, bar, bars)
    BY DEF CountedLate, start, bar, bars
  <2> QED BY <1>4, <2>1 DEF BeginsLate
<1> QED BY <1>1, <1>5 DEF ListedLate, start, row, all

LEMMA FlowDaysAreFetched ==
  ASSUME NEW frame, NEW known, Counted(frame, known), NEW s \in Stocks,
         NEW d \in FlowMissing(frame, known, s) \ SourceGaps
  PROVE  s \in FlowList(frame, known) \/ (ListedLate(frame, known, s) /\ d < Min(FlowDays(frame, s)))
<1> DEFINE rows == RowDays(frame, s)
           flow == FlowDays(frame, s)
           end == Min({WindowEnd(frame), known[s].gone})
           normal == Classified(frame, Days)
<1>1. /\ known[s].born \in Int /\ known[s].gone \in Int
      /\ \A e \in rows : known[s].born <= e /\ e <= known[s].gone
  BY DEF Counted, GapKnown, RowsAreLived
<1>2. rows \in SUBSET Days /\ flow \in SUBSET Days /\ flow \subseteq rows
  BY DaysOfRows
<1>3. /\ flow # {} => Min(flow) \in flow /\ \A e \in flow : Min(flow) <= e
      /\ rows # {} => Max(rows) \in rows /\ \A e \in rows : e <= Max(rows)
      /\ rows \in SUBSET Int /\ flow \in SUBSET Int
  BY <1>2, SomeDays
<1> DEFINE Lacks == /\ rows # {} /\ d \in (Days \ SourceGaps) \ flow
                    /\ known[s].born <= d /\ d <= known[s].gone
                    /\ ListedLate(frame, known, s) => d >= Min(flow)
                    /\ d \in BarDays(frame, s) \/ d > Max(rows)
<1>4. ASSUME Lacks PROVE s \in FlowList(frame, known)
  BY <1>4 DEF FlowList, Needed
<1>5. CASE d \in Empty(frame, s)
  <2>1. d \in Days /\ frame[s, d] = "bar" /\ d \notin SourceGaps
    BY <1>5 DEF Empty
  <2>2. d \in BarDays(frame, s) /\ d \notin flow /\ d \in rows
    BY <2>1 DEF BarDays, FlowDays, RowDays
  <2>3. ASSUME ListedLate(frame, known, s), ~(d < Min(flow)) PROVE d >= Min(flow)
    <3>1. Min(flow) \in Int
      BY <1>3, <2>3 DEF ListedLate
    <3>2. d \in Int
      BY <2>1, SomeDays
    <3> HIDE DEF flow
    <3> QED BY <2>3, <3>1, <3>2
  <2> QED BY <1>1, <1>4, <2>1, <2>2, <2>3
<1>6. CASE rows # {} /\ d \in Behind(frame, known, s, Max(rows))
  <2>1. WindowEnd(frame) \in Int /\ WindowEnd(frame) <= LastDay /\ LastDay \in Int
    BY EndOfTheWindow, SomeDays, GapAssumption
  <2>2. end = IF WindowEnd(frame) <= known[s].gone THEN WindowEnd(frame) ELSE known[s].gone
    BY <1>1, <2>1, PairEnds
  <2>3. Max(rows) \in Int /\ 1 <= Max(rows) /\ known[s].born <= Max(rows) /\ Max(rows) \in rows
    BY <1>1, <1>2, <1>3, <1>6, SomeDays
  <2>4. d \in Max(rows) + 1..end
    BY <1>6 DEF Behind
  <2> HIDE DEF end, rows, flow
  <2>5. d \in Int /\ d > Max(rows) /\ d <= WindowEnd(frame) /\ d <= known[s].gone /\ known[s].born <= d
    BY <1>1, <2>1, <2>2, <2>3, <2>4
  <2>6. d \in Days
    BY <2>1, <2>3, <2>5 DEF Days
  <2>7. d \notin flow
    BY <1>2, <1>3, <1>6, <2>3, <2>5
  <2>8. ASSUME ListedLate(frame, known, s) PROVE d >= Min(flow)
    <3>0. flow # {}
      BY <2>8 DEF ListedLate, flow
    <3>1. Min(flow) \in rows
      BY <1>2, <1>3, <3>0
    <3>2. Min(flow) \in Int /\ Min(flow) <= Max(rows)
      BY <1>3, <1>6, <3>1
    <3> QED BY <2>3, <2>5, <3>2
  <2> QED BY <1>4, <1>6, <2>5, <2>6, <2>7, <2>8
<1>7. d \in FlowMissing(frame, known, s) /\ d \in Int
  <2>1. \/ d \in Empty(frame, s)
        \/ rows # {} /\ d \in Behind(frame, known, s, Max(rows))
    BY DEF FlowMissing
  <2>2. Empty(frame, s) \subseteq Days
    BY DEF Empty
  <2>3. ASSUME d \in Behind(frame, known, s, Max(rows)) PROVE d \in Int
    BY <2>3 DEF Behind
  <2> QED BY <2>1, <2>2, <2>3, SomeDays
<1>8. \/ d \in Empty(frame, s)
      \/ rows # {} /\ d \in Behind(frame, known, s, Max(rows))
  BY <1>7 DEF FlowMissing
<1> QED BY <1>5, <1>6, <1>8

LEMMA SkippedHaveNoHole ==
  ASSUME NEW frame, NEW known, Counted(frame, known), NEW s \in Complete(frame, known),
         NEW d \in TableMissing(frame, known, s, 1, LastDay, Days)
  PROVE  d > Max(BarDays(frame, s))
<1> DEFINE rows == RowDays(frame, s)
           bars == BarDays(frame, s)
           normal == Classified(frame, Days)
           window == Max({1, known[s].born})..Min({LastDay, known[s].gone})
<1>1. /\ s \in Stocks /\ Capped(frame, s) # {} /\ Required(frame, known, s) \subseteq Capped(frame, s)
      /\ known[s].born \in Int /\ known[s].gone \in Int
  BY DEF Complete, Counted, GapKnown
<1>2. /\ Max({1, known[s].born}) = IF 1 >= known[s].born THEN 1 ELSE known[s].born
      /\ Min({LastDay, known[s].gone}) = IF LastDay <= known[s].gone THEN LastDay ELSE known[s].gone
      /\ LastDay \in Int
  <2>1. LastDay \in Int /\ 1 \in Int
    BY GapAssumption
  <2>2. Max({1, known[s].born}) = IF 1 >= known[s].born THEN 1 ELSE known[s].born
    BY <1>1, <2>1, PairEnds
  <2>3. Min({LastDay, known[s].gone}) = IF LastDay <= known[s].gone THEN LastDay ELSE known[s].gone
    BY <1>1, <2>1, PairEnds
  <2> QED BY <2>1, <2>2, <2>3
<1>3. /\ d \in window /\ d \notin rows
      /\ d > Max(rows) \/ d \notin normal
  BY DEF TableMissing
<1>4. d \in Days /\ d \in Int /\ known[s].born <= d /\ d <= known[s].gone
  BY <1>1, <1>2, <1>3 DEF Days
<1>5. Capped(frame, s) \subseteq bars /\ bars \subseteq rows /\ bars \in SUBSET Days /\ rows \in SUBSET Days
  BY DaysOfRows DEF Capped, BarDays
<1>6. d \in normal
  <2> SUFFICES ASSUME d \notin normal PROVE FALSE
    OBVIOUS
  <2>1. d \in Required(frame, known, s)
    BY <1>4 DEF Required
  <2> QED BY <1>1, <1>3, <1>5, <2>1
<1>7. d > Max(rows)
  BY <1>3, <1>6
<1> HIDE DEF rows, bars
<1>8. Max(bars) \in bars /\ Max(bars) \in Int /\ Max(rows) \in Int /\ Max(bars) <= Max(rows)
  <2>1. bars # {} /\ rows # {}
    BY <1>1, <1>5
  <2>2. Max(bars) \in bars /\ bars \in SUBSET Int /\ rows \in SUBSET Int
        /\ Max(rows) \in rows /\ \A e \in rows : e <= Max(rows)
    BY <1>5, <2>1, SomeDays
  <2> QED BY <1>5, <2>2
<1>9. d > Max(bars)
  BY <1>4, <1>7, <1>8
<1> QED BY <1>9 DEF bars

LEMMA ListsAreFetched ==
  ASSUME NEW frame \in GapFrames, NEW known \in GapKnown
  PROVE  GapsAreFetched(frame, known)
<1> SUFFICES ASSUME Traded(frame) # {}, RowsAreLived(frame, known)
             PROVE  GapsAreFetched(frame, known)
  BY DEF GapsAreFetched
<1>1. Counted(frame, known)
  BY DEF Counted
<1>2. ASSUME NEW s \in Stocks, NEW d \in FlowMissing(frame, known, s) \ SourceGaps
      PROVE  s \in FlowList(frame, known) \/ (ListedLate(frame, known, s) /\ d < Min(FlowDays(frame, s)))
  BY <1>1, FlowDaysAreFetched
<1>4. ASSUME NEW s \in Traded(frame), CountedLate(frame, known, s)
      PROVE  ListedLate(frame, known, s)
  BY <1>1, <1>4, CountedLateIsListedLate
<1>3. ASSUME NEW s \in Complete(frame, known), NEW d \in TableMissing(frame, known, s, 1, LastDay, Days)
      PROVE  d > Max(BarDays(frame, s))
  BY <1>1, SkippedHaveNoHole
<1> QED BY <1>2, <1>3, <1>4 DEF GapsAreFetched

GapsState ==
  /\ "of" \in DOMAIN work
  /\ work.of = "gaps" =>
       {"frame", "known"} \subseteq DOMAIN work /\ work.frame \in GapFrames /\ work.known \in GapKnown

LEMMA GapsStateBegins ==
  ASSUME Init
  PROVE  GapsState
<1> SUFFICES ASSUME work.of = "gaps" PROVE GapsState
  BY InitIsNamed DEF GapsState
<1>1. PICK known \in [Stocks -> Lives] :
        work = [of |-> "gaps", frame |-> [c \in Stocks \X Days |-> "none"], known |-> known]
  <2>1. ASSUME SyncBegins PROVE work.of = "sync"
    BY <2>1 DEF SyncBegins
  <2>2. ASSUME DailyBegins PROVE work.of = "daily"
    BY <2>2 DEF DailyBegins
  <2>3. ~FetchBegins
    BY DEF FetchBegins
  <2>4. ~TextBegins
    BY DEF TextBegins
  <2>5. ~MarketBegins
    BY DEF MarketBegins
  <2>6. DataBegins
    BY <2>3, <2>4, <2>5 DEF Init
  <2>7. \E known \in [Stocks -> Lives] :
          /\ \A s \in Whole : known[s] = Unknown
          /\ work = [of |-> "gaps", frame |-> [c \in Stocks \X Days |-> "none"], known |-> known]
    <3>1. work # [of |-> "life", l |-> NewLife] /\ work # [of |-> "flowJob", j |-> NewFlowJob]
      OBVIOUS
    <3>2. work.of # "sync" /\ work.of # "daily"
      OBVIOUS
    <3> QED BY <2>1, <2>2, <2>6, <3>1, <3>2, Zenon DEF DataBegins
  <2> QED BY <2>7
<1>2. /\ DOMAIN work = {"of", "frame", "known"} /\ work.known = known
      /\ work.frame = [c \in Stocks \X Days |-> "none"]
  BY <1>1
<1>3. work.frame \in GapFrames
  BY <1>2 DEF GapFrames, Rows
<1>4. work.known \in GapKnown
  BY <1>2, ProcedureAssumption DEF GapKnown
<1> QED BY <1>2, <1>3, <1>4 DEF GapsState

LEMMA GapsStateGoesOn ==
  ASSUME GapsState, [Next]_work
  PROVE  GapsState'
<1>1. "of" \in DOMAIN work /\ "of" \in DOMAIN work' /\ work'.of = work.of
  BY NextIsNamed DEF GapsState
<1>2. CASE work' = work
  BY <1>2 DEF GapsState
<1>3. CASE work' # work /\ work.of = "gaps"
  <2>1. WriteRow
    BY <1>1, <1>3
    DEF Next, SendRequest, AskForSlot, FetchBars, TryCombination, ReadPage, FetchFlow, FetchBatch,
        KeepRows, AppendRow, AskForBreadth, AskForSectors, RefreshPool, ReadLocal,
        WriteMemory, TakeTurn, SyncMarket, FetchDaily, LiveOn, FillFlow, Launch
  <2>2. PICK s \in Stocks, d \in Days :
          \E row \in Writable(s, work.frame[s, d]) : work' = [work EXCEPT !.frame[<<s, d>>] = row]
    BY <2>1 DEF WriteRow
  <2>3. PICK row \in Writable(s, work.frame[s, d]) : work' = [work EXCEPT !.frame[<<s, d>>] = row]
    BY <2>2
  <2>4. {"frame", "known"} \subseteq DOMAIN work /\ work.frame \in GapFrames /\ work.known \in GapKnown
    BY <1>3 DEF GapsState
  <2>5. row \in Rows /\ <<s, d>> \in Stocks \X Days
    BY DEF Writable
  <2>6. /\ DOMAIN work' = DOMAIN work /\ work'.known = work.known
        /\ work'.frame = [work.frame EXCEPT ![<<s, d>>] = row]
    BY <2>3, <2>4
  <2>7. work'.frame \in GapFrames
    BY <2>4, <2>5, <2>6 DEF GapFrames
  <2> QED BY <1>1, <2>4, <2>6, <2>7 DEF GapsState
<1>4. CASE work.of # "gaps"
  BY <1>1, <1>4 DEF GapsState
<1> QED BY <1>2, <1>3, <1>4

\* warehouse.py, operations.py and sync.py: the totals, which are made of counts per
\* day, are what one gets stock by stock, the days called missing are those of the
\* table per stock, the profile finds the stocks that are behind, a day that lacks
\* capital flow puts its stock on the list of those to fetch, and a stock that a sync
\* skips has no hole.
THEOREM GapsCorrect == Spec => []GapsAgree
<1>1. GapsState => GapsAgree
  <2> SUFFICES ASSUME GapsState, work.of = "gaps"
               PROVE  TotalsMatchStocks(work.frame, work.known) /\ GapsAreFetched(work.frame, work.known)
    BY DEF GapsAgree
  <2>1. work.frame \in GapFrames /\ work.known \in GapKnown
    BY DEF GapsState
  <2> QED BY <2>1, TotalsMatch, ListsAreFetched
<1> QED BY <1>1, GapsStateBegins, GapsStateGoesOn, PTL DEF Spec

-----------------------------------------------------------------------------
\* The memory of the assistant.

\* What is left of the fading part of a score, unit of time by unit of time.
FadesTo(age, f) ==
  f = [t \in 0..age |-> IF t = 0 THEN 80 ELSE f[t - 1] \div 2]

LEMMA Halves == ASSUME NEW x \in 0..80 PROVE x \div 2 \in 0..80
OBVIOUS

LEMMA FadesBySteps ==
  ASSUME NEW age \in Nat, NEW f, FadesTo(age, f)
  PROVE  DOMAIN f = 0..age /\ f[0] = 80 /\ \A t \in 1..age : f[t] = f[t - 1] \div 2
BY DEF FadesTo

LEMMA FadesExist ==
  ASSUME NEW age \in Nat
  PROVE  \E f \in [0..age -> 0..80] : FadesTo(age, f)
<1> DEFINE T == {k \in Nat : ~ \E f \in [0..k -> 0..80] : FadesTo(k, f)}
<1> SUFFICES ASSUME T # {} PROVE FALSE
  OBVIOUS
<1>1. PICK k \in T : \A y \in T : k <= y
  <2>1. T \subseteq Nat
    OBVIOUS
  <2> HIDE DEF T
  <2> QED BY <2>1, Least
<1>2. k # 0
  <2> DEFINE z == [t \in 0..0 |-> 80]
  <2>1. FadesTo(0, z) /\ z \in [0..0 -> 0..80]
    BY DEF FadesTo
  <2> HIDE DEF z
  <2>2. 0 \notin T
    BY <2>1
  <2> QED BY <2>2
<1>3. k \in Nat /\ k - 1 \in Nat /\ k - 1 \notin T
  <2>1. k \in Nat
    OBVIOUS
  <2> HIDE DEF T
  <2> QED BY <1>1, <1>2, <2>1
<1>4. PICK f \in [0..(k - 1) -> 0..80] : FadesTo(k - 1, f)
  BY <1>3
<1> DEFINE g == [t \in 0..k |-> IF t < k THEN f[t] ELSE f[k - 1] \div 2]
<1>5. g \in [0..k -> 0..80]
  <2>1. f[k - 1] \in 0..80
    BY <1>3
  <2>2. f[k - 1] \div 2 \in 0..80
    BY <2>1, Halves
  <2> QED BY <1>3, <2>2
<1>6. FadesTo(k, g)
  <2>1. \A t \in 0..k : g[t] = IF t = 0 THEN 80 ELSE g[t - 1] \div 2
    <3> SUFFICES ASSUME NEW t \in 0..k PROVE g[t] = IF t = 0 THEN 80 ELSE g[t - 1] \div 2
      OBVIOUS
    <3>1. t \in Nat /\ (t < k => t \in 0..(k - 1) /\ (t # 0 => t - 1 \in 0..k /\ t - 1 < k))
      BY <1>3
    <3>2. \A s \in 0..(k - 1) : f[s] = IF s = 0 THEN 80 ELSE f[s - 1] \div 2
      BY <1>4 DEF FadesTo
    <3>3. CASE t < k
      BY <3>1, <3>2, <3>3
    <3>4. CASE ~(t < k)
      <4>1. t = k /\ t # 0 /\ t - 1 \in 0..k /\ t - 1 < k
        BY <1>2, <1>3, <3>4
      <4> QED BY <4>1
    <3> QED BY <3>3, <3>4
  <2> HIDE DEF g
  <2>2. g = [t \in 0..k |-> g[t]]
    BY <1>5
  <2> QED BY <2>1, <2>2 DEF FadesTo
<1> QED BY <1>3, <1>5, <1>6

LEMMA DecayFades ==
  ASSUME NEW age \in Nat
  PROVE  \E f : FadesTo(age, f) /\ Decay(age) = 20 + f[age]
<1> DEFINE f == CHOOSE f : FadesTo(age, f)
<1>1. FadesTo(age, f)
  <2>1. \E x : FadesTo(age, x)
    BY FadesExist
  <2> QED BY <2>1
<1>2. Decay(age) = 20 + f[age]
  BY DEF Decay, FadesTo
<1> HIDE DEF f
<1> QED BY <1>1, <1>2

\* What is fading stays between nothing and all of it, and only falls.
LEMMA FadesFall ==
  ASSUME NEW age \in Nat, NEW f, FadesTo(age, f)
  PROVE  \A t \in 0..age : f[t] \in 0..80 /\ f[age] <= f[t]
<1>1. DOMAIN f = 0..age /\ f[0] = 80 /\ \A t \in 1..age : f[t] = f[t - 1] \div 2
  BY FadesBySteps
<1>2. \A t \in 0..age : f[t] \in 0..80
  <2> DEFINE T == {t \in 0..age : f[t] \notin 0..80}
  <2> SUFFICES ASSUME T # {} PROVE FALSE
    OBVIOUS
  <2>1. PICK k \in T : \A y \in T : k <= y
    <3>1. T \subseteq Nat
      OBVIOUS
    <3> HIDE DEF T
    <3> QED BY <3>1, Least
  <2>2. k \in 0..age /\ f[k] \notin 0..80
    OBVIOUS
  <2>3. k # 0
    BY <1>1, <2>2
  <2>4. k - 1 \in 0..age /\ k - 1 \notin T
    <3> HIDE DEF T
    <3> QED BY <2>1, <2>2, <2>3
  <2>5. f[k - 1] \in 0..80
    BY <2>4
  <2>6. f[k] = f[k - 1] \div 2
    BY <1>1, <2>2, <2>3
  <2> QED BY <2>2, <2>5, <2>6
<1>3. \A t \in 0..age : f[age] <= f[t]
  <2> DEFINE T == {d \in 0..age : ~(f[age] <= f[age - d])}
  <2> SUFFICES ASSUME T # {} PROVE FALSE
    <3> HIDE DEF T
    <3>1. T = {}
      OBVIOUS
    <3>2. ASSUME NEW t \in 0..age PROVE f[age] <= f[t]
      <4>1. age - t \in 0..age /\ age - (age - t) = t
        OBVIOUS
      <4> QED BY <3>1, <4>1 DEF T
    <3> QED BY <3>2
  <2>1. PICK k \in T : \A y \in T : k <= y
    <3>1. T \subseteq Nat
      OBVIOUS
    <3> HIDE DEF T
    <3> QED BY <3>1, Least
  <2>2. k \in 0..age /\ ~(f[age] <= f[age - k])
    OBVIOUS
  <2>3. k # 0
    BY <1>2, <2>2
  <2>4. k - 1 \in 0..age /\ k - 1 \notin T
    <3> HIDE DEF T
    <3> QED BY <2>1, <2>2, <2>3
  <2>5. f[age] <= f[age - (k - 1)]
    BY <2>4
  <2>6. age - (k - 1) \in 1..age /\ age - (k - 1) - 1 = age - k /\ age - k \in 0..age
    BY <2>2, <2>3
  <2>7. f[age - (k - 1)] = f[age - k] \div 2 /\ f[age - k] \in 0..80 /\ f[age] \in 0..80
    BY <1>1, <1>2, <2>6
  <2> QED BY <2>2, <2>5, <2>7
<1> QED BY <1>2, <1>3

LEMMA DecayFalls ==
  ASSUME NEW a \in Nat, NEW b \in Nat, a <= b
  PROVE  Decay(a) \in 20..100 /\ Decay(b) \in 20..100 /\ Decay(b) <= Decay(a)
<1>1. PICK f : FadesTo(a, f) /\ Decay(a) = 20 + f[a]
  BY DecayFades
<1>2. PICK g : FadesTo(b, g) /\ Decay(b) = 20 + g[b]
  BY DecayFades
<1>3. \A t \in 0..a : f[t] = g[t]
  <2> DEFINE T == {t \in 0..a : f[t] # g[t]}
  <2> SUFFICES ASSUME T # {} PROVE FALSE
    OBVIOUS
  <2>1. PICK k \in T : \A y \in T : k <= y
    <3>1. T \subseteq Nat
      OBVIOUS
    <3> HIDE DEF T
    <3> QED BY <3>1, Least
  <2>2. k \in 0..a /\ f[k] # g[k]
    OBVIOUS
  <2>3. f[0] = 80 /\ \A t \in 1..a : f[t] = f[t - 1] \div 2
    BY <1>1, FadesBySteps
  <2>7. g[0] = 80 /\ \A t \in 1..b : g[t] = g[t - 1] \div 2
    BY <1>2, FadesBySteps
  <2>4. k # 0
    BY <2>2, <2>3, <2>7
  <2>5. k - 1 \in 0..a /\ k - 1 \notin T
    <3> HIDE DEF T
    <3> QED BY <2>1, <2>2, <2>4
  <2>6. f[k - 1] = g[k - 1]
    BY <2>5
  <2> QED BY <2>2, <2>3, <2>4, <2>6, <2>7
<1>4. f[a] \in 0..80 /\ g[b] \in 0..80 /\ g[b] <= g[a] /\ f[a] = g[a]
  BY <1>1, <1>2, <1>3, FadesFall
<1>5. Decay(a) = 20 + f[a] /\ Decay(b) = 20 + g[b] /\ g[b] <= f[a]
  BY <1>1, <1>2, <1>4
<1>6. \A x, y \in 0..80 : \A p, q : p = 20 + x /\ q = 20 + y /\ y <= x => p \in 20..100 /\ q \in 20..100 /\ q <= p
  OBVIOUS
<1>7. f[a] \in 0..80 /\ g[b] \in 0..80
  BY <1>4
<1> QED BY <1>5, <1>6, <1>7

LEMMA ProductsGrow ==
  ASSUME NEW x \in Int, NEW y \in Int, NEW z \in Nat, x >= y
  PROVE  x * z >= y * z
<1>1. (x - y) * z >= 0
  <2>1. x - y \in Nat
    OBVIOUS
  <2> QED BY <2>1
<1>2. (x - y) * z = x * z - y * z
  OBVIOUS
<1>3. x * z \in Int /\ y * z \in Int
  OBVIOUS
<1> QED BY <1>1, <1>2, <1>3

RecordsOf ==
  [id : Nat, content : Contents, category : Categories, weight : 1..3, hits : Nat, at : Nat,
   by : {"added", "updated", "user"}, meant : Categories]

\* The cap of the hits is what the order of the weights rests on.
LEMMA StressedRanksFirst ==
  ASSUME NEW now \in Nat, NEW r \in RecordsOf, NEW s \in RecordsOf,
         r.at <= now, s.at <= r.at, r.weight = 3, s.weight = 1
  PROVE  Score(r, now) > Score(s, now)
<1> DEFINE hr == IF r.hits > MaxHits THEN MaxHits ELSE r.hits
           hs == IF s.hits > MaxHits THEN MaxHits ELSE s.hits
           dr == Decay(now - r.at)
           ds == Decay(now - s.at)
<1>1. r.at \in Nat /\ s.at \in Nat /\ r.hits \in Nat /\ s.hits \in Nat
  BY DEF RecordsOf
<1>2. hr \in Nat /\ hs \in Nat /\ hs <= MaxHits /\ HitBoost \in Nat /\ MaxHits \in Nat /\ HitBoost * MaxHits < 200
  BY <1>1, MemoryAssumption
<1>3. dr \in 20..100 /\ ds \in 20..100 /\ ds <= dr
  <2>1. now - r.at \in Nat /\ now - s.at \in Nat /\ now - r.at <= now - s.at
    BY <1>1
  <2> QED BY <2>1, DecayFalls
<1>4. /\ Score(r, now) = 3 * (100 + HitBoost * hr) * dr
      /\ Score(s, now) = 1 * (100 + HitBoost * hs) * ds
  BY DEF Score
<1> HIDE DEF hr, hs, dr, ds
<1>5. HitBoost * hr \in Nat /\ HitBoost * hs \in Nat /\ HitBoost * hs < 200
  <2>1. HitBoost * hr \in Nat /\ HitBoost * hs \in Nat /\ HitBoost * MaxHits \in Nat
    BY <1>2
  <2>2. MaxHits * HitBoost >= hs * HitBoost
    BY <1>2, ProductsGrow
  <2>3. MaxHits * HitBoost = HitBoost * MaxHits /\ hs * HitBoost = HitBoost * hs
    BY <1>2
  <2> QED BY <1>2, <2>1, <2>2, <2>3
<1> DEFINE a == 100 + HitBoost * hr
           b == 100 + HitBoost * hs
<1>6. a \in Nat /\ b \in Nat /\ 3 * a >= 300 /\ b <= 299 /\ dr \in Nat /\ ds \in Nat /\ dr >= 20
  BY <1>3, <1>5
<1>7. Score(r, now) = (3 * a) * dr /\ Score(s, now) = b * ds
  BY <1>4, <1>6
<1> HIDE DEF a, b
<1>8. (3 * a) * dr >= 300 * dr
  <2>1. 3 * a \in Int /\ 300 \in Int
    BY <1>6
  <2> QED BY <1>6, <2>1, ProductsGrow
<1>9. 299 * ds >= b * ds
  BY <1>6, ProductsGrow
<1>10. (3 * a) * dr \in Int /\ b * ds \in Int
  BY <1>6
<1> QED BY <1>3, <1>6, <1>7, <1>8, <1>9, <1>10

\* The records of a file in the order of their writing: no two have the same rank.
LEMMA RanksOfRecords ==
  ASSUME NEW n \in Nat, NEW r, DOMAIN r = 1..n,
         \A i \in 1..n : r[i].at \in Int,
         \A i, j \in 1..n : i # j => r[i].at # r[j].at
  PROVE  /\ \A i \in 1..n : Cardinality(Newer(r, i)) \in 0..(n - 1)
         /\ \A i, j \in 1..n : r[i].at > r[j].at => Cardinality(Newer(r, i)) < Cardinality(Newer(r, j))
         /\ \A k \in 1..n : \E i \in 1..n : Cardinality(Newer(r, i)) = k - 1
<1> DEFINE rank == [i \in 1..n |-> Cardinality(Newer(r, i))]
<1>1. IsFiniteSet(1..n) /\ Cardinality(1..n) = n
  <2>1. 1 \in Int /\ n \in Int
    OBVIOUS
  <2>2. IsFiniteSet(1..n) /\ Cardinality(1..n) = IF 1 > n THEN 0 ELSE n - 1 + 1
    BY <2>1, FS_Interval
  <2> QED BY <2>2
<1>2. ASSUME NEW i \in 1..n
      PROVE  /\ IsFiniteSet(Newer(r, i)) /\ i \notin Newer(r, i) /\ Newer(r, i) \subseteq 1..n
             /\ Cardinality(Newer(r, i)) \in 0..(n - 1)
  <2>1. i \notin Newer(r, i) /\ Newer(r, i) \subseteq (1..n) \ {i}
    BY DEF Newer
  <2>2. IsFiniteSet((1..n) \ {i}) /\ Cardinality((1..n) \ {i}) = n - 1
    BY <1>1, FS_RemoveElement
  <2>3. IsFiniteSet(Newer(r, i)) /\ Cardinality(Newer(r, i)) <= n - 1
    BY <2>1, <2>2, FS_Subset
  <2>4. Cardinality(Newer(r, i)) \in Nat
    BY <2>3, FS_CardinalityType
  <2> QED BY <2>1, <2>3, <2>4
<1>3. ASSUME NEW i \in 1..n, NEW j \in 1..n, r[i].at > r[j].at
      PROVE  Cardinality(Newer(r, i)) < Cardinality(Newer(r, j))
  <2>1. Newer(r, i) \cup {i} \subseteq Newer(r, j)
    BY <1>3 DEF Newer
  <2>2. /\ IsFiniteSet(Newer(r, i) \cup {i})
        /\ Cardinality(Newer(r, i) \cup {i}) = Cardinality(Newer(r, i)) + 1
    BY <1>2, FS_AddElement
  <2>3. Cardinality(Newer(r, i) \cup {i}) <= Cardinality(Newer(r, j))
    BY <1>2, <2>1, FS_Subset
  <2>4. Cardinality(Newer(r, i)) \in Int /\ Cardinality(Newer(r, j)) \in Int
    BY <1>2
  <2> QED BY <2>2, <2>3, <2>4
<1>4. rank \in Injection(1..n, 0..(n - 1))
  <2>1. rank \in [1..n -> 0..(n - 1)]
    BY <1>2
  <2>2. ASSUME NEW i \in 1..n, NEW j \in 1..n, rank[i] = rank[j] PROVE i = j
    <3>1. Cardinality(Newer(r, i)) = Cardinality(Newer(r, j))
      BY <2>2
    <3>2. ~(r[i].at > r[j].at) /\ ~(r[j].at > r[i].at)
      BY <1>2, <1>3, <3>1
    <3>3. r[i].at \in Int /\ r[j].at \in Int
      OBVIOUS
    <3>4. r[i].at = r[j].at
      BY <3>2, <3>3
    <3> QED BY <3>4
  <2> HIDE DEF rank
  <2>3. IsInjective(rank)
    BY <2>1, <2>2 DEF IsInjective
  <2> QED BY <2>1, <2>3 DEF Injection
<1>5. rank \in Surjection(1..n, 0..(n - 1))
  <2>1. IsFiniteSet(0..(n - 1)) /\ Cardinality(0..(n - 1)) = n
    <3>1. 0 \in Int /\ n - 1 \in Int
      OBVIOUS
    <3>2. /\ IsFiniteSet(0..(n - 1))
          /\ Cardinality(0..(n - 1)) = IF 0 > n - 1 THEN 0 ELSE (n - 1) - 0 + 1
      BY <3>1, FS_Interval
    <3> QED BY <3>2
  <2> HIDE DEF rank
  <2> QED BY <1>1, <1>4, <2>1, FS_Injection
<1>6. ASSUME NEW k \in 1..n PROVE \E i \in 1..n : Cardinality(Newer(r, i)) = k - 1
  <2>1. k - 1 \in 0..(n - 1)
    OBVIOUS
  <2>2. \E i \in 1..n : rank[i] = k - 1
    <3> HIDE DEF rank
    <3> QED BY <1>5, <2>1 DEF Surjection
  <2> QED BY <2>2
<1> QED BY <1>2, <1>3, <1>6

\* The size newest of n records, in order: those left out are older than each of them.
KeptNewest(r, n, size) ==
  /\ size <= MaxRecords /\ DOMAIN Trimmed(r) = 1..size
  /\ Trimmed(r) = [k \in 1..size |-> Trimmed(r)[k]]
  /\ \A k \in 1..size : \E i \in 1..n : Trimmed(r)[k] = r[i]
  /\ \A k, l \in 1..size : k < l => Trimmed(r)[k].at > Trimmed(r)[l].at
  /\ \A i \in 1..n : \/ \E k \in 1..size : Trimmed(r)[k] = r[i]
                     \/ size = MaxRecords /\ \A k \in 1..size : Trimmed(r)[k].at > r[i].at

\* A trim keeps the newest records, in order: any it drops is older than all of them.
LEMMA TrimmedKeepsTheNewest ==
  ASSUME NEW n \in Nat, NEW r, DOMAIN r = 1..n, Len(r) = n,
         \A i \in 1..n : r[i].at \in Int,
         \A i, j \in 1..n : i # j => r[i].at # r[j].at
  PROVE  \E size \in Nat : KeptNewest(r, n, size)
<1> DEFINE size == IF n <= MaxRecords THEN n ELSE MaxRecords
           place(k) == CHOOSE i \in DOMAIN r : Cardinality(Newer(r, i)) = k - 1
<1>1. size \in Nat /\ size <= MaxRecords /\ size <= n /\ (size = n \/ size = MaxRecords)
  BY MemoryAssumption
<1>2. Min({Len(r), MaxRecords}) = size
  <2>1. n \in Int /\ MaxRecords \in Int
    BY MemoryAssumption
  <2>2. Min({n, MaxRecords}) = IF n <= MaxRecords THEN n ELSE MaxRecords
    BY <2>1, PairEnds
  <2> QED BY <2>2
<1>3. Trimmed(r) = [k \in 1..size |-> r[place(k)]]
  BY <1>2 DEF Trimmed
<1> HIDE DEF size
<1>4. /\ \A i \in 1..n : Cardinality(Newer(r, i)) \in 0..(n - 1)
      /\ \A i, j \in 1..n : r[i].at > r[j].at => Cardinality(Newer(r, i)) < Cardinality(Newer(r, j))
      /\ \A k \in 1..n : \E i \in 1..n : Cardinality(Newer(r, i)) = k - 1
  BY RanksOfRecords
<1>5. ASSUME NEW k \in 1..size
      PROVE  place(k) \in 1..n /\ Cardinality(Newer(r, place(k))) = k - 1
  <2>1. k \in 1..n
    BY <1>1
  <2>2. \E i \in DOMAIN r : Cardinality(Newer(r, i)) = k - 1
    BY <1>4, <2>1
  <2> QED BY <2>2
<1> HIDE DEF place
<1>6. ASSUME NEW i \in 1..n, NEW j \in 1..n, Cardinality(Newer(r, i)) < Cardinality(Newer(r, j))
      PROVE  r[i].at > r[j].at
  <2>1. Cardinality(Newer(r, i)) \in Int /\ Cardinality(Newer(r, j)) \in Int /\ i # j
    BY <1>4, <1>6
  <2>2. ~(r[j].at > r[i].at)
    BY <1>4, <1>6, <2>1
  <2>3. r[i].at # r[j].at /\ r[i].at \in Int /\ r[j].at \in Int
    BY <2>1
  <2> QED BY <2>2, <2>3
<1>7. DOMAIN Trimmed(r) = 1..size /\ \A k \in 1..size : Trimmed(r)[k] = r[place(k)]
  BY <1>3
<1>8. Trimmed(r) = [k \in 1..size |-> Trimmed(r)[k]]
  BY <1>3
<1>9. ASSUME NEW k \in 1..size, NEW l \in 1..size, k < l
      PROVE  Trimmed(r)[k].at > Trimmed(r)[l].at
  <2>1. Cardinality(Newer(r, place(k))) < Cardinality(Newer(r, place(l)))
    BY <1>5, <1>9
  <2>2. r[place(k)].at > r[place(l)].at
    BY <1>5, <1>6, <2>1
  <2> QED BY <1>7, <2>2
<1>10. ASSUME NEW i \in 1..n
       PROVE  \/ \E k \in 1..size : Trimmed(r)[k] = r[i]
              \/ size = MaxRecords /\ \A k \in 1..size : Trimmed(r)[k].at > r[i].at
  <2> DEFINE k == Cardinality(Newer(r, i)) + 1
  <2>1. k \in 1..n /\ Cardinality(Newer(r, i)) = k - 1
    BY <1>4
  <2> HIDE DEF k
  <2>2. CASE k \in 1..size
    <3>1. Cardinality(Newer(r, place(k))) = Cardinality(Newer(r, i)) /\ place(k) \in 1..n
      BY <1>5, <2>1, <2>2
    <3>2. ~(r[place(k)].at > r[i].at) /\ ~(r[i].at > r[place(k)].at)
      BY <1>4, <3>1
    <3>3. r[place(k)].at = r[i].at
      <4>1. r[place(k)].at \in Int /\ r[i].at \in Int
        BY <3>1
      <4> QED BY <3>2, <4>1
    <3>4. place(k) = i
      BY <3>1, <3>3
    <3> QED BY <1>7, <2>2, <3>4
  <2>3. CASE k \notin 1..size
    <3>1. size = MaxRecords /\ k > size
      BY <1>1, <2>1, <2>3
    <3>2. ASSUME NEW l \in 1..size PROVE Trimmed(r)[l].at > r[i].at
      <4>1. Cardinality(Newer(r, place(l))) < Cardinality(Newer(r, i)) /\ place(l) \in 1..n
        BY <1>1, <1>5, <2>1, <3>1
      <4>2. r[place(l)].at > r[i].at
        BY <1>6, <4>1
      <4> QED BY <1>7, <4>2
    <3> QED BY <3>1, <3>2
  <2> QED BY <2>2, <2>3
<1>11. \A k \in 1..size : \E i \in 1..n : Trimmed(r)[k] = r[i]
  BY <1>5, <1>7
<1> QED BY <1>1, <1>7, <1>8, <1>9, <1>10, <1>11 DEF KeptNewest

OpsOf ==
  [kind : {"add", "update", "delete"}, id : Nat, content : Contents, category : SUBSET Categories,
   weight : SUBSET (1..3), named : SUBSET Categories]

\* A file all of whose records were written until `now`, each at a time of its own.
FileOf(r, now) ==
  /\ r \in Seq(RecordsOf)
  /\ \A i \in DOMAIN r : r[i].id \in 1..now /\ r[i].at \in 1..now
  /\ \A i, j \in DOMAIN r : i # j => r[i].id # r[j].id /\ r[i].at # r[j].at
  /\ \A i, j \in DOMAIN r : i # j /\ r[i].by = "added" /\ r[j].by = "added" => r[i].content.says # r[j].content.says
  /\ \A i \in DOMAIN r : r[i].by = "added" => ~Rejected(r[i].category, r[i].content)

LaterThan(written, id) == {i \in DOMAIN written : written[i] > written[id]}

\* What is gone from the file was named by a deletion, or enough was written after it.
Books(r, written, deleted, now) ==
  /\ written \in Seq(0..now) /\ Len(written) = now
  /\ \A i \in DOMAIN r : written[r[i].id] = r[i].at
  /\ \A id \in 1..now : written[id] # 0 /\ ~HasId(r, id) /\ id \notin deleted =>
       Cardinality(LaterThan(written, id)) >= MaxRecords

MemoryInv(m) ==
  /\ DOMAIN m = {"records", "now", "plan", "recalled", "written", "deleted"}
  /\ m.now \in Nat \ {0}
  /\ FileOf(m.records, m.now - 1)
  /\ Books(m.records, m.written, m.deleted, m.now - 1)
  /\ m.plan \subseteq OpsOf

LEMMA NamedRecord ==
  ASSUME NEW r, NEW id, HasId(r, id)
  PROVE  Named(r, id) \in DOMAIN r /\ r[Named(r, id)].id = id
<1>1. \E i \in DOMAIN r : r[i].id = id
  BY DEF HasId
<1> QED BY <1>1 DEF Named

LEMMA FileIsASequence ==
  ASSUME NEW r, NEW now, FileOf(r, now)
  PROVE  /\ Len(r) \in Nat /\ DOMAIN r = 1..Len(r)
         /\ \A i \in DOMAIN r : r[i] \in RecordsOf /\ r[i].at \in Nat /\ r[i].id \in Nat
<1>1. r \in Seq(RecordsOf)
  BY DEF FileOf
<1>2. Len(r) \in Nat /\ DOMAIN r = 1..Len(r) /\ \A i \in DOMAIN r : r[i] \in RecordsOf
  BY <1>1
<1>3. \A x \in RecordsOf : x.at \in Nat /\ x.id \in Nat
  BY DEF RecordsOf
<1> QED BY <1>2, <1>3

\* The trim of a file is a file.
LEMMA TrimmedFile ==
  ASSUME NEW now \in Nat, NEW r, FileOf(r, now)
  PROVE  /\ FileOf(Trimmed(r), now)
         /\ \A k \in DOMAIN Trimmed(r) : \E i \in DOMAIN r : Trimmed(r)[k] = r[i]
         /\ \A i \in DOMAIN r :
              \/ HasId(Trimmed(r), r[i].id)
              \/ Len(Trimmed(r)) = MaxRecords /\ \A k \in DOMAIN Trimmed(r) : Trimmed(r)[k].at > r[i].at
<1> DEFINE n == Len(r)
<1>1. /\ n \in Nat /\ DOMAIN r = 1..n /\ Len(r) = n
      /\ \A i \in 1..n : r[i] \in RecordsOf /\ r[i].at \in Int
  BY FileIsASequence
<1>2. \A i, j \in 1..n : i # j => r[i].at # r[j].at
  BY <1>1 DEF FileOf
<1> HIDE DEF n
<1>0. PICK size \in Nat : KeptNewest(r, n, size)
  BY <1>1, <1>2, TrimmedKeepsTheNewest
<1>3. /\ size <= MaxRecords /\ DOMAIN Trimmed(r) = 1..size
      /\ Trimmed(r) = [k \in 1..size |-> Trimmed(r)[k]]
      /\ \A k \in 1..size : \E i \in 1..n : Trimmed(r)[k] = r[i]
      /\ \A k, l \in 1..size : k < l => Trimmed(r)[k].at > Trimmed(r)[l].at
      /\ \A i \in 1..n : \/ \E k \in 1..size : Trimmed(r)[k] = r[i]
                         \/ size = MaxRecords /\ \A k \in 1..size : Trimmed(r)[k].at > r[i].at
  BY <1>0 DEF KeptNewest
<1> DEFINE t == Trimmed(r)
<1> HIDE DEF t
<1>4. \A k \in 1..size : t[k] \in RecordsOf /\ t[k].at \in Int
  BY <1>1, <1>3 DEF t
<1>5. t \in Seq(RecordsOf) /\ Len(t) = size /\ DOMAIN t = 1..size
  <2>1. t = [k \in 1..size |-> t[k]]
    BY <1>3 DEF t
  <2>2. t \in [1..size -> RecordsOf]
    BY <1>4, <2>1
  <2> QED BY <2>2
<1>6. ASSUME NEW k \in 1..size, NEW l \in 1..size, k # l
      PROVE  \E i, j \in 1..n : i # j /\ t[k] = r[i] /\ t[l] = r[j]
  <2>1. PICK i \in 1..n : t[k] = r[i]
    BY <1>3 DEF t
  <2>2. PICK j \in 1..n : t[l] = r[j]
    BY <1>3 DEF t
  <2>3. t[k].at # t[l].at
    <3>1. CASE k < l
      BY <1>3, <1>4, <3>1 DEF t
    <3>2. CASE l < k
      BY <1>3, <1>4, <3>2 DEF t
    <3> QED BY <1>6, <3>1, <3>2
  <2>4. i # j
    BY <2>1, <2>2, <2>3
  <2> QED BY <2>1, <2>2, <2>4
<1>7. FileOf(t, now)
  <2>1. \A i \in 1..n : r[i].id \in 1..now /\ r[i].at \in 1..now /\ (r[i].by = "added" => ~Rejected(r[i].category, r[i].content))
    BY <1>1 DEF FileOf
  <2>2. \A i, j \in 1..n : i # j =>
          /\ r[i].id # r[j].id /\ r[i].at # r[j].at
          /\ (r[i].by = "added" /\ r[j].by = "added" => r[i].content.says # r[j].content.says)
    BY <1>1 DEF FileOf
  <2>3. \A k \in 1..size : \E i \in 1..n : t[k] = r[i]
    BY <1>3 DEF t
  <2>4. \A k \in 1..size : t[k].id \in 1..now /\ t[k].at \in 1..now
    BY <2>1, <2>3
  <2>5. \A k \in 1..size : t[k].by = "added" => ~Rejected(t[k].category, t[k].content)
    BY <2>1, <2>3
  <2>6. ASSUME NEW k \in 1..size, NEW l \in 1..size, k # l
        PROVE  /\ t[k].id # t[l].id /\ t[k].at # t[l].at
               /\ (t[k].by = "added" /\ t[l].by = "added" => t[k].content.says # t[l].content.says)
    BY <1>6, <2>2, <2>6
  <2> QED BY <1>5, <2>4, <2>5, <2>6 DEF FileOf
<1>8. \A k \in DOMAIN t : \E i \in DOMAIN r : t[k] = r[i]
  BY <1>1, <1>3, <1>5 DEF t
<1>9. ASSUME NEW i \in DOMAIN r
      PROVE  \/ HasId(t, r[i].id)
             \/ Len(t) = MaxRecords /\ \A k \in DOMAIN t : t[k].at > r[i].at
  <2>1. \/ \E k \in 1..size : t[k] = r[i]
        \/ size = MaxRecords /\ \A k \in 1..size : t[k].at > r[i].at
    BY <1>1, <1>3 DEF t
  <2>2. CASE \E k \in 1..size : t[k] = r[i]
    <3>1. PICK k \in 1..size : t[k] = r[i]
      BY <2>2
    <3>2. k \in DOMAIN t /\ t[k].id = r[i].id
      BY <1>5, <3>1
    <3> QED BY <3>2 DEF HasId
  <2>3. CASE size = MaxRecords /\ \A k \in 1..size : t[k].at > r[i].at
    BY <1>5, <2>3
  <2> QED BY <2>1, <2>2, <2>3
<1> QED BY <1>7, <1>8, <1>9 DEF t

\* A write at `now` changes records of the file, each later than it was, adds the one
\* it names by the time, and leaves out what a deletion named.
Rewritten(r, new, gone, now) ==
  /\ \A i \in DOMAIN new : new[i].id = now \/ HasId(r, new[i].id)
  /\ \A i \in DOMAIN new, j \in DOMAIN r : r[j].id = new[i].id => r[j].at <= new[i].at
  /\ \A j \in DOMAIN r : HasId(new, r[j].id) \/ r[j].id \in gone

NotedTimes(t, written, now) ==
  [id \in 1..now |-> IF HasId(t, id) THEN t[Named(t, id)].at ELSE IF id < now THEN written[id] ELSE 0]

LEMMA TimesOnlyGrow ==
  ASSUME NEW now \in Nat \ {0}, NEW r, NEW written, NEW deleted, NEW new, NEW gone,
         FileOf(r, now - 1), Books(r, written, deleted, now - 1),
         FileOf(new, now), Rewritten(r, new, gone, now)
  PROVE  LET later == NotedTimes(new, written, now)
         IN  /\ later \in Seq(0..now) /\ Len(later) = now /\ DOMAIN later = 1..now
             /\ \A k \in DOMAIN new : later[new[k].id] = new[k].at
             /\ \A id \in 1..(now - 1) : later[id] >= written[id] /\ (~HasId(new, id) => later[id] = written[id])
             /\ ~HasId(new, now) => later[now] = 0
<1> DEFINE later == NotedTimes(new, written, now)
<1>2. \A id \in 1..(now - 1) : written[id] \in 0..(now - 1)
  BY DEF Books
<1>3. \A k \in DOMAIN new : new[k].id \in 1..now /\ new[k].at \in 1..now
  BY DEF FileOf
<1>4. /\ DOMAIN later = 1..now
      /\ \A id \in 1..now :
           later[id] = IF HasId(new, id) THEN new[Named(new, id)].at ELSE IF id < now THEN written[id] ELSE 0
  BY DEF NotedTimes
<1>5. later = [id \in 1..now |-> later[id]]
  BY DEF NotedTimes
<1> HIDE DEF later
<1>6. ASSUME NEW id \in 1..now PROVE later[id] \in 0..now
  <2>1. CASE HasId(new, id)
    <3>1. Named(new, id) \in DOMAIN new
      BY <2>1, NamedRecord
    <3> QED BY <1>3, <1>4, <2>1, <3>1
  <2>2. CASE ~HasId(new, id) /\ id < now
    <3>1. id \in 1..(now - 1) /\ later[id] = written[id]
      BY <1>4, <2>2
    <3> QED BY <1>2, <3>1
  <2>3. CASE ~HasId(new, id) /\ ~(id < now)
    BY <1>4, <2>3
  <2> QED BY <2>1, <2>2, <2>3
<1>7. later \in Seq(0..now) /\ Len(later) = now
  <2>1. later \in [1..now -> 0..now]
    BY <1>5, <1>6
  <2> QED BY <2>1
<1>8. ASSUME NEW k \in DOMAIN new PROVE later[new[k].id] = new[k].at
  <2>1. HasId(new, new[k].id)
    BY DEF HasId
  <2>2. Named(new, new[k].id) \in DOMAIN new /\ new[Named(new, new[k].id)].id = new[k].id
    BY <2>1, NamedRecord
  <2>3. Named(new, new[k].id) = k
    BY <2>2 DEF FileOf
  <2> QED BY <1>3, <1>4, <2>1, <2>3
<1>9. ASSUME NEW id \in 1..(now - 1)
      PROVE  later[id] >= written[id] /\ (~HasId(new, id) => later[id] = written[id])
  <2>1. CASE ~HasId(new, id)
    <3>1. id \in 1..now /\ id < now
      OBVIOUS
    <3>2. later[id] = written[id] /\ written[id] \in Int
      BY <1>2, <1>4, <2>1, <3>1
    <3> QED BY <3>2
  <2>2. CASE HasId(new, id)
    <3>1. PICK k \in DOMAIN new : new[k].id = id
      BY <2>2 DEF HasId
    <3>3. HasId(r, id)
      <4>1. id # now
        OBVIOUS
      <4> QED BY <3>1, <4>1 DEF Rewritten
    <3>4. PICK j \in DOMAIN r : r[j].id = id
      BY <3>3 DEF HasId
    <3>5. r[j].at <= new[k].at
      BY <3>1, <3>4 DEF Rewritten
    <3>6. written[id] = r[j].at
      BY <3>4 DEF Books
    <3>7. later[id] = new[k].at
      BY <1>8, <3>1
    <3> QED BY <2>2, <3>5, <3>6, <3>7
  <2> QED BY <2>1, <2>2
<1>10. ~HasId(new, now) => later[now] = 0
  <2>1. now \in 1..now /\ ~(now < now)
    OBVIOUS
  <2> QED BY <1>4, <2>1
<1> QED BY <1>4, <1>7, <1>8, <1>9, <1>10 DEF later

\* What a write forgets is older than all it keeps.
LEMMA BooksGoOn ==
  ASSUME NEW now \in Nat \ {0}, NEW r, NEW written, NEW deleted, NEW new, NEW gone,
         FileOf(r, now - 1), Books(r, written, deleted, now - 1),
         FileOf(new, now), Rewritten(r, new, gone, now)
  PROVE  Books(Trimmed(new), NotedTimes(new, written, now), deleted \cup gone, now)
<1> DEFINE t == Trimmed(new)
           later == NotedTimes(new, written, now)
<1>1. /\ later \in Seq(0..now) /\ Len(later) = now /\ DOMAIN later = 1..now
      /\ \A k \in DOMAIN new : later[new[k].id] = new[k].at
      /\ \A id \in 1..(now - 1) : later[id] >= written[id] /\ (~HasId(new, id) => later[id] = written[id])
      /\ ~HasId(new, now) => later[now] = 0
  BY TimesOnlyGrow
<1>2. /\ FileOf(t, now)
      /\ \A k \in DOMAIN t : \E i \in DOMAIN new : t[k] = new[i]
      /\ \A i \in DOMAIN new :
           \/ HasId(t, new[i].id)
           \/ Len(t) = MaxRecords /\ \A k \in DOMAIN t : t[k].at > new[i].at
  BY TrimmedFile
<1> HIDE DEF t, later
<1>3. /\ DOMAIN written = 1..(now - 1)
      /\ \A id \in 1..(now - 1) : written[id] \in Int /\ later[id] \in Int
  BY <1>1 DEF Books
<1>5. \A k \in DOMAIN t : later[t[k].id] = t[k].at
  BY <1>1, <1>2
<1>4. ASSUME NEW id \in 1..now, later[id] # 0, ~HasId(t, id), id \notin deleted \cup gone
      PROVE  Cardinality(LaterThan(later, id)) >= MaxRecords
  <2>3. IsFiniteSet(LaterThan(later, id)) /\ Cardinality(LaterThan(later, id)) \in Nat
    <3>1. LaterThan(later, id) \subseteq 1..now
      BY <1>1 DEF LaterThan
    <3>2. IsFiniteSet(1..now)
      <4>1. 1 \in Int /\ now \in Int
        OBVIOUS
      <4> QED BY <4>1, FS_Interval
    <3> QED BY <3>1, <3>2, FS_Subset, FS_CardinalityType
  <2>4. CASE HasId(new, id)
    <3>4. PICK i \in DOMAIN new : new[i].id = id
      BY <2>4 DEF HasId
    <3>5. later[id] = new[i].at /\ new[i].at \in Int
      <4>1. new[i].at \in Nat
        BY FileIsASequence
      <4> QED BY <1>1, <3>4, <4>1
    <3>6. Len(t) = MaxRecords /\ \A k \in DOMAIN t : t[k].at > new[i].at
      BY <1>2, <1>4, <3>4
    <3>7. /\ DOMAIN t = 1..MaxRecords /\ MaxRecords \in Nat
          /\ \A k \in 1..MaxRecords : t[k].at \in Int /\ t[k].id \in 1..now
      <4>1. DOMAIN t = 1..Len(t) /\ \A k \in DOMAIN t : t[k].at \in Int
        BY <1>2, FileIsASequence
      <4>2. \A k \in DOMAIN t : t[k].id \in 1..now
        BY <1>2 DEF FileOf
      <4> QED BY <3>6, <4>1, <4>2, MemoryAssumption
    <3> DEFINE f == [k \in 1..MaxRecords |-> t[k].id]
    <3>8. ASSUME NEW k \in 1..MaxRecords PROVE f[k] \in LaterThan(later, id)
      <4>1. t[k].at > new[i].at /\ later[t[k].id] = t[k].at /\ t[k].at \in Int
        BY <1>5, <3>6, <3>7
      <4>2. later[t[k].id] > later[id]
        BY <3>5, <4>1
      <4>3. t[k].id \in DOMAIN later
        BY <1>1, <3>7
      <4> QED BY <4>2, <4>3 DEF LaterThan
    <3>9. f \in Injection(1..MaxRecords, LaterThan(later, id))
      <4>1. f \in [1..MaxRecords -> LaterThan(later, id)]
        BY <3>8
      <4>2. ASSUME NEW k \in 1..MaxRecords, NEW l \in 1..MaxRecords, f[k] = f[l] PROVE k = l
        <5>1. t[k].id = t[l].id
          BY <4>2
        <5> QED BY <1>2, <3>7, <5>1 DEF FileOf
      <4> HIDE DEF f
      <4>3. IsInjective(f)
        BY <4>1, <4>2 DEF IsInjective
      <4> QED BY <4>1, <4>3 DEF Injection
    <3> HIDE DEF f
    <3>10. Cardinality(1..MaxRecords) <= Cardinality(LaterThan(later, id))
      BY <2>3, <3>9, FS_Injection
    <3>11. Cardinality(1..MaxRecords) = MaxRecords
      <4>1. 1 \in Int /\ MaxRecords \in Int
        BY <3>7
      <4>2. Cardinality(1..MaxRecords) = IF 1 > MaxRecords THEN 0 ELSE MaxRecords - 1 + 1
        BY <4>1, FS_Interval
      <4> QED BY <3>7, <4>2
    <3> QED BY <2>3, <3>7, <3>10, <3>11
  <2>5. CASE ~HasId(new, id)
    <3>0. id \in 1..(now - 1) /\ later[id] = written[id]
      <4>1. id # now
        BY <1>1, <1>4, <2>5
      <4>2. id \in 1..(now - 1)
        BY <4>1
      <4> QED BY <1>1, <2>5, <4>2
    <3>5. ~HasId(r, id)
      <4> SUFFICES ASSUME HasId(r, id) PROVE FALSE
        OBVIOUS
      <4>1. PICK j \in DOMAIN r : r[j].id = id
        BY DEF HasId
      <4> QED BY <1>4, <2>5, <4>1 DEF Rewritten
    <3>1. Cardinality(LaterThan(written, id)) >= MaxRecords
      BY <1>4, <3>0, <3>5 DEF Books
    <3>2. LaterThan(written, id) \subseteq LaterThan(later, id)
      <4> SUFFICES ASSUME NEW i \in LaterThan(written, id) PROVE i \in LaterThan(later, id)
        OBVIOUS
      <4>1. i \in 1..(now - 1) /\ written[i] > written[id]
        BY <1>3 DEF LaterThan
      <4>2. later[i] >= written[i] /\ i \in 1..now
        BY <1>1, <4>1
      <4>3. later[i] > later[id]
        BY <1>3, <3>0, <4>1, <4>2
      <4> QED BY <1>1, <4>2, <4>3 DEF LaterThan
    <3>3. Cardinality(LaterThan(written, id)) <= Cardinality(LaterThan(later, id))
      BY <2>3, <3>2, FS_Subset
    <3>4. Cardinality(LaterThan(written, id)) \in Nat
      BY <2>3, <3>2, FS_Subset, FS_CardinalityType
    <3> QED BY <2>3, <3>1, <3>3, <3>4, MemoryAssumption
  <2> QED BY <2>4, <2>5
<1> QED BY <1>1, <1>4, <1>5 DEF Books, t, later

Gone(ops) == {op.id : op \in {o \in ops : o.kind = "delete"}}

\* What a record the model added has to be.
Addable(r, i, rec) ==
  rec.by = "added" => /\ ~Rejected(rec.category, rec.content)
                      /\ \A j \in DOMAIN r : j # i => r[j].content.says # rec.content.says

LEMMA StoredKeeps ==
  ASSUME NEW m, MemoryInv(m), NEW new, NEW ops, FileOf(new, m.now),
         Rewritten(m.records, new, Gone(ops), m.now)
  PROVE  MemoryInv(Stored(m, new, ops)) /\ MemoryInv([Stored(m, new, ops) EXCEPT !.plan = {}])
<1> DEFINE s == Stored(m, new, ops)
<1>1. /\ DOMAIN m = {"records", "now", "plan", "recalled", "written", "deleted"}
      /\ m.now \in Nat \ {0} /\ m.plan \subseteq OpsOf
      /\ FileOf(m.records, m.now - 1) /\ Books(m.records, m.written, m.deleted, m.now - 1)
  BY DEF MemoryInv
<1>2. /\ DOMAIN s = {"records", "now", "plan", "recalled", "written", "deleted"}
      /\ s.records = Trimmed(new) /\ s.now = m.now + 1 /\ s.plan = m.plan
  BY <1>1 DEF Stored
<1>3. s.written = NotedTimes(new, m.written, m.now)
  BY <1>1 DEF Stored, NotedTimes
<1>4. s.deleted = m.deleted \cup Gone(ops)
  BY <1>1 DEF Stored, Gone
<1> HIDE DEF s
<1>5. s.now - 1 = m.now /\ s.now \in Nat \ {0}
  BY <1>1, <1>2
<1>6. FileOf(s.records, s.now - 1)
  BY <1>1, <1>2, <1>5, TrimmedFile
<1>7. Books(Trimmed(new), NotedTimes(new, m.written, m.now), m.deleted \cup Gone(ops), m.now)
  BY <1>1, BooksGoOn
<1>8. Books(s.records, s.written, s.deleted, s.now - 1)
  BY <1>2, <1>3, <1>4, <1>5, <1>7
<1>9. MemoryInv(s)
  BY <1>1, <1>2, <1>5, <1>6, <1>8 DEF MemoryInv
<1> DEFINE e == [s EXCEPT !.plan = {}]
<1>10. /\ DOMAIN e = {"records", "now", "plan", "recalled", "written", "deleted"}
       /\ e.records = s.records /\ e.now = s.now /\ e.plan = {} /\ e.written = s.written /\ e.deleted = s.deleted
  BY <1>2
<1> HIDE DEF e
<1>11. MemoryInv(e)
  BY <1>5, <1>6, <1>8, <1>10 DEF MemoryInv
<1> QED BY <1>9, <1>11 DEF s, e

LEMMA SameFile ==
  ASSUME NEW now \in Nat \ {0}, NEW r, NEW gone, FileOf(r, now - 1)
  PROVE  FileOf(r, now) /\ Rewritten(r, r, gone, now)
<1>1. \A x \in 1..(now - 1) : x \in 1..now
  OBVIOUS
<1>2. FileOf(r, now)
  BY <1>1 DEF FileOf
<1>3. \A i \in DOMAIN r : HasId(r, r[i].id)
  BY DEF HasId
<1>4. ASSUME NEW i \in DOMAIN r, NEW j \in DOMAIN r, r[j].id = r[i].id PROVE r[j].at <= r[i].at
  <2>1. j = i
    BY <1>4 DEF FileOf
  <2>2. r[i].at \in Nat
    BY FileIsASequence
  <2> QED BY <2>1, <2>2
<1> QED BY <1>2, <1>3, <1>4 DEF Rewritten

LEMMA AppendedFile ==
  ASSUME NEW now \in Nat \ {0}, NEW r, NEW gone, FileOf(r, now - 1),
         NEW rec \in RecordsOf, rec.id = now, rec.at = now, Addable(r, 0, rec)
  PROVE  FileOf(Append(r, rec), now) /\ Rewritten(r, Append(r, rec), gone, now)
<1> DEFINE n == Len(r)
           a == Append(r, rec)
<1>1. /\ n \in Nat /\ DOMAIN r = 1..n /\ r \in Seq(RecordsOf)
      /\ \A i \in 1..n : r[i] \in RecordsOf /\ r[i].at \in Nat
  BY FileIsASequence DEF FileOf
<1>2. /\ a \in Seq(RecordsOf) /\ DOMAIN a = 1..(n + 1) /\ a[n + 1] = rec
      /\ \A i \in 1..n : a[i] = r[i]
  BY <1>1
<1> HIDE DEF a, n
<1>3. \A i \in 1..(n + 1) : i \in 1..n \/ i = n + 1
  BY <1>1
<1>4. \A i \in 1..n : r[i].id \in 1..(now - 1) /\ r[i].at \in 1..(now - 1)
  BY <1>1 DEF FileOf
<1>5. \A i \in 1..(n + 1) : a[i].id \in 1..now /\ a[i].at \in 1..now
  <2> SUFFICES ASSUME NEW i \in 1..(n + 1) PROVE a[i].id \in 1..now /\ a[i].at \in 1..now
    OBVIOUS
  <2>1. CASE i = n + 1
    BY <1>2, <2>1
  <2>2. CASE i \in 1..n
    BY <1>2, <1>4, <2>2
  <2> QED BY <1>3, <2>1, <2>2
<1>6. ASSUME NEW i \in 1..(n + 1), NEW j \in 1..(n + 1), i # j
      PROVE  /\ a[i].id # a[j].id /\ a[i].at # a[j].at
             /\ (a[i].by = "added" /\ a[j].by = "added" => a[i].content.says # a[j].content.says)
  <2>1. CASE i \in 1..n /\ j \in 1..n
    <3>1. /\ r[i].id # r[j].id /\ r[i].at # r[j].at
          /\ r[i].by = "added" /\ r[j].by = "added" => r[i].content.says # r[j].content.says
      <4>1. i \in DOMAIN r /\ j \in DOMAIN r
        BY <1>1, <2>1
      <4> QED BY <1>6, <4>1, Zenon DEF FileOf
    <3>2. a[i] = r[i] /\ a[j] = r[j]
      BY <1>2, <2>1
    <3> QED BY <3>1, <3>2, Zenon
  <2>2. CASE i = n + 1 /\ j \in 1..n
    <3>1. r[j].id # now /\ r[j].at # now
      BY <1>4, <2>2
    <3>2. j # 0 /\ j \in DOMAIN r
      BY <1>1, <2>2
    <3>3. rec.by = "added" => r[j].content.says # rec.content.says
      BY <3>2 DEF Addable
    <3> QED BY <1>2, <2>2, <3>1, <3>3
  <2>3. CASE i \in 1..n /\ j = n + 1
    <3>1. r[i].id # now /\ r[i].at # now
      BY <1>4, <2>3
    <3>2. i # 0 /\ i \in DOMAIN r
      BY <1>1, <2>3
    <3>3. rec.by = "added" => r[i].content.says # rec.content.says
      BY <3>2 DEF Addable
    <3> QED BY <1>2, <2>3, <3>1, <3>3
  <2> QED BY <1>3, <1>6, <2>1, <2>2, <2>3
<1>7. \A i \in 1..(n + 1) : a[i].by = "added" => ~Rejected(a[i].category, a[i].content)
  <2> SUFFICES ASSUME NEW i \in 1..(n + 1), a[i].by = "added" PROVE ~Rejected(a[i].category, a[i].content)
    OBVIOUS
  <2>1. CASE i = n + 1
    BY <1>2, <2>1 DEF Addable
  <2>2. CASE i \in 1..n
    BY <1>1, <1>2, <2>2 DEF FileOf
  <2> QED BY <1>3, <2>1, <2>2
<1>8. FileOf(a, now)
  BY <1>2, <1>5, <1>6, <1>7 DEF FileOf
<1>9. \A i \in 1..(n + 1) : a[i].id = now \/ HasId(r, a[i].id)
  <2> SUFFICES ASSUME NEW i \in 1..(n + 1) PROVE a[i].id = now \/ HasId(r, a[i].id)
    OBVIOUS
  <2>1. CASE i = n + 1
    BY <1>2, <2>1
  <2>2. CASE i \in 1..n
    BY <1>1, <1>2, <2>2 DEF HasId
  <2> QED BY <1>3, <2>1, <2>2
<1>10. ASSUME NEW i \in 1..(n + 1), NEW j \in 1..n, r[j].id = a[i].id PROVE r[j].at <= a[i].at
  <2>1. i \in 1..n
    BY <1>2, <1>3, <1>4, <1>10
  <2>2. i = j
    BY <1>1, <1>2, <1>10, <2>1 DEF FileOf
  <2> QED BY <1>1, <1>2, <2>1, <2>2
<1>11. \A j \in 1..n : HasId(a, r[j].id)
  <2> SUFFICES ASSUME NEW j \in 1..n PROVE HasId(a, r[j].id)
    OBVIOUS
  <2>1. j \in DOMAIN a /\ a[j].id = r[j].id
    BY <1>1, <1>2
  <2> QED BY <2>1 DEF HasId
<1>12. Rewritten(r, a, gone, now)
  BY <1>1, <1>2, <1>9, <1>10, <1>11 DEF Rewritten
<1> QED BY <1>8, <1>12 DEF a

LEMMA ChangedFile ==
  ASSUME NEW now \in Nat \ {0}, NEW r, NEW gone, FileOf(r, now - 1), NEW at \in DOMAIN r,
         NEW rec \in RecordsOf, rec.id = r[at].id, rec.at = now, Addable(r, at, rec)
  PROVE  FileOf([r EXCEPT ![at] = rec], now) /\ Rewritten(r, [r EXCEPT ![at] = rec], gone, now)
<1> DEFINE a == [r EXCEPT ![at] = rec]
<1>1. /\ r \in Seq(RecordsOf)
      /\ \A i \in DOMAIN r : r[i] \in RecordsOf /\ r[i].at \in Nat
  BY FileIsASequence DEF FileOf
<1>2. /\ a \in Seq(RecordsOf) /\ DOMAIN a = DOMAIN r /\ a[at] = rec
      /\ \A i \in DOMAIN r : i # at => a[i] = r[i]
  BY <1>1
<1> HIDE DEF a
<1>3. \A i \in DOMAIN r : r[i].id \in 1..(now - 1) /\ r[i].at \in 1..(now - 1)
  BY DEF FileOf
<1>4. \A i \in DOMAIN r : a[i].id = r[i].id
  BY <1>2
<1>5. \A i \in DOMAIN r : a[i].id \in 1..now /\ a[i].at \in 1..now
  <2> SUFFICES ASSUME NEW i \in DOMAIN r PROVE a[i].id \in 1..now /\ a[i].at \in 1..now
    OBVIOUS
  <2>1. CASE i = at
    BY <1>2, <1>3, <2>1
  <2>2. CASE i # at
    BY <1>2, <1>3, <2>2
  <2> QED BY <2>1, <2>2
<1>6. ASSUME NEW i \in DOMAIN r, NEW j \in DOMAIN r, i # j
      PROVE  /\ a[i].id # a[j].id /\ a[i].at # a[j].at
             /\ (a[i].by = "added" /\ a[j].by = "added" => a[i].content.says # a[j].content.says)
  <2>0. a[i].id # a[j].id
    BY <1>4, <1>6 DEF FileOf
  <2>1. CASE i # at /\ j # at
    BY <1>2, <1>6, <2>1 DEF FileOf
  <2>2. CASE i = at
    <3>1. r[j].at # now /\ j # at
      BY <1>3, <1>6, <2>2
    <3>2. rec.by = "added" => r[j].content.says # rec.content.says
      BY <3>1 DEF Addable
    <3> QED BY <1>2, <2>0, <2>2, <3>1, <3>2
  <2>3. CASE j = at
    <3>1. r[i].at # now /\ i # at
      BY <1>3, <1>6, <2>3
    <3>2. rec.by = "added" => r[i].content.says # rec.content.says
      BY <3>1 DEF Addable
    <3> QED BY <1>2, <2>0, <2>3, <3>1, <3>2
  <2> QED BY <2>1, <2>2, <2>3
<1>7. \A i \in DOMAIN r : a[i].by = "added" => ~Rejected(a[i].category, a[i].content)
  <2> SUFFICES ASSUME NEW i \in DOMAIN r, a[i].by = "added" PROVE ~Rejected(a[i].category, a[i].content)
    OBVIOUS
  <2>1. CASE i = at
    BY <1>2, <2>1 DEF Addable
  <2>2. CASE i # at
    BY <1>2, <2>2 DEF FileOf
  <2> QED BY <2>1, <2>2
<1>8. FileOf(a, now)
  BY <1>2, <1>5, <1>6, <1>7 DEF FileOf
<1>9. \A i \in DOMAIN r : HasId(r, a[i].id) /\ HasId(a, r[i].id)
  BY <1>2, <1>4 DEF HasId
<1>10. ASSUME NEW i \in DOMAIN r, NEW j \in DOMAIN r, r[j].id = a[i].id PROVE r[j].at <= a[i].at
  <2>1. i = j
    BY <1>4, <1>10 DEF FileOf
  <2>2. CASE i = at
    BY <1>2, <1>3, <2>1, <2>2
  <2>3. CASE i # at
    BY <1>1, <1>2, <2>1, <2>3
  <2> QED BY <2>2, <2>3
<1>12. Rewritten(r, a, gone, now)
  BY <1>2, <1>9, <1>10 DEF Rewritten
<1> QED BY <1>8, <1>12 DEF a

LEMMA Removed ==
  ASSUME NEW S, NEW r \in Seq(S), NEW i \in DOMAIN r
  PROVE  /\ RemoveAt(r, i) \in Seq(S) /\ DOMAIN RemoveAt(r, i) = 1..(Len(r) - 1)
         /\ \A j \in 1..(Len(r) - 1) : RemoveAt(r, i)[j] = IF j < i THEN r[j] ELSE r[j + 1]
<1>1. Len(r) \in Nat /\ DOMAIN r = 1..Len(r) /\ i \in 1..Len(r)
  OBVIOUS
<1>2. /\ SubSeq(r, 1, i - 1) \in Seq(S) /\ Len(SubSeq(r, 1, i - 1)) = i - 1
      /\ \A j \in 1..(i - 1) : SubSeq(r, 1, i - 1)[j] = r[j]
  BY <1>1
<1>3. /\ SubSeq(r, i + 1, Len(r)) \in Seq(S) /\ Len(SubSeq(r, i + 1, Len(r))) = Len(r) - i
      /\ \A j \in 1..(Len(r) - i) : SubSeq(r, i + 1, Len(r))[j] = r[i + j]
  BY <1>1
<1> DEFINE f == SubSeq(r, 1, i - 1)
           b == SubSeq(r, i + 1, Len(r))
<1>4. RemoveAt(r, i) = f \o b
  BY DEF RemoveAt
<1> HIDE DEF f, b
<1>5. f \in Seq(S) /\ b \in Seq(S) /\ Len(f) = i - 1 /\ Len(b) = Len(r) - i
  BY <1>2, <1>3 DEF f, b
<1>6. /\ f \o b \in Seq(S) /\ DOMAIN (f \o b) = 1..(Len(r) - 1)
      /\ \A j \in 1..(Len(r) - 1) : (f \o b)[j] = IF j < i THEN f[j] ELSE b[j - i + 1]
  <2>1. f \o b \in Seq(S) /\ Len(f \o b) = Len(f) + Len(b)
    BY <1>5, ConcatProperties
  <2>2. DOMAIN (f \o b) = 1..(Len(r) - 1)
    <3> DEFINE g == f \o b
    <3>1. g \in Seq(S) /\ Len(g) = Len(r) - 1
      BY <1>1, <1>5, <2>1
    <3> HIDE DEF g
    <3>2. DOMAIN g = 1..Len(g)
      BY <3>1
    <3> QED BY <3>1, <3>2 DEF g
  <2>3. \A j \in 1..(Len(f) + Len(b)) : (f \o b)[j] = IF j <= Len(f) THEN f[j] ELSE b[j - Len(f)]
    BY <1>5, ConcatProperties
  <2>4. ASSUME NEW j \in 1..(Len(r) - 1) PROVE (f \o b)[j] = IF j < i THEN f[j] ELSE b[j - i + 1]
    <3>1. j \in 1..(Len(f) + Len(b)) /\ (j <= Len(f) <=> j < i) /\ j - Len(f) = j - i + 1
      BY <1>1, <1>5
    <3>2. (f \o b)[j] = IF j <= Len(f) THEN f[j] ELSE b[j - Len(f)]
      BY <2>3, <3>1
    <3> QED BY <3>1, <3>2
  <2> QED BY <2>1, <2>2, <2>4
<1>7. ASSUME NEW j \in 1..(Len(r) - 1) PROVE (f \o b)[j] = IF j < i THEN r[j] ELSE r[j + 1]
  <2>1. CASE j < i
    BY <1>1, <1>2, <1>6, <2>1 DEF f
  <2>2. CASE ~(j < i)
    <3>1. j - i + 1 \in 1..(Len(r) - i) /\ i + (j - i + 1) = j + 1
      BY <1>1, <2>2
    <3>2. b[j - i + 1] = r[i + (j - i + 1)]
      BY <1>3, <3>1 DEF b
    <3> QED BY <1>6, <2>2, <3>1, <3>2
  <2> QED BY <2>1, <2>2
<1> QED BY <1>4, <1>6, <1>7

LEMMA ShortenedFile ==
  ASSUME NEW now \in Nat \ {0}, NEW r, NEW gone, FileOf(r, now - 1), NEW id \in gone
  PROVE  FileOf(Without(r, id), now) /\ Rewritten(r, Without(r, id), gone, now)
<1>0. CASE ~HasId(r, id)
  BY <1>0, SameFile DEF Without
<1>1. CASE HasId(r, id)
  <2> DEFINE at == Named(r, id)
             n == Len(r)
             a == RemoveAt(r, at)
  <2>1. at \in DOMAIN r /\ r[at].id = id
    BY <1>1, NamedRecord
  <2>2. /\ n \in Nat /\ DOMAIN r = 1..n /\ r \in Seq(RecordsOf)
        /\ \A i \in 1..n : r[i] \in RecordsOf /\ r[i].at \in Nat
    BY FileIsASequence DEF FileOf
  <2> HIDE DEF at
  <2>3. /\ a \in Seq(RecordsOf) /\ DOMAIN a = 1..(n - 1)
        /\ \A j \in 1..(n - 1) : a[j] = IF j < at THEN r[j] ELSE r[j + 1]
    BY <2>1, <2>2, Removed
  <2> HIDE DEF a, n
  <2> DEFINE old(j) == IF j < at THEN j ELSE j + 1
  <2>4. \A j \in 1..(n - 1) : old(j) \in 1..n /\ a[j] = r[old(j)]
    BY <2>2, <2>3
  <2>5. \A i, j \in 1..(n - 1) : i # j => old(i) # old(j)
    BY <2>1, <2>2
  <2> HIDE DEF old
  <2>6. FileOf(r, now)
    BY SameFile
  <2>7. FileOf(a, now)
    <3>1. \A j \in 1..(n - 1) :
            a[j].id \in 1..now /\ a[j].at \in 1..now /\ (a[j].by = "added" => ~Rejected(a[j].category, a[j].content))
      BY <2>2, <2>4, <2>6 DEF FileOf
    <3>2. ASSUME NEW i \in 1..(n - 1), NEW j \in 1..(n - 1), i # j
          PROVE  /\ a[i].id # a[j].id /\ a[i].at # a[j].at
                 /\ (a[i].by = "added" /\ a[j].by = "added" => a[i].content.says # a[j].content.says)
      <4>1. old(i) # old(j) /\ old(i) \in DOMAIN r /\ old(j) \in DOMAIN r /\ a[i] = r[old(i)] /\ a[j] = r[old(j)]
        BY <2>2, <2>4, <2>5, <3>2
      <4> QED BY <2>6, <4>1 DEF FileOf
    <3> QED BY <2>3, <3>1, <3>2 DEF FileOf
  <2>8. \A j \in 1..(n - 1) : HasId(r, a[j].id)
    BY <2>2, <2>4 DEF HasId
  <2>9. ASSUME NEW i \in 1..(n - 1), NEW j \in 1..n, r[j].id = a[i].id PROVE r[j].at <= a[i].at
    <3>1. j = old(i) /\ a[i] = r[old(i)] /\ old(i) \in 1..n
      BY <2>2, <2>4, <2>9 DEF FileOf
    <3> QED BY <2>2, <3>1
  <2>10. \A j \in 1..n : HasId(a, r[j].id) \/ r[j].id \in gone
    <3> SUFFICES ASSUME NEW j \in 1..n, j # at PROVE HasId(a, r[j].id)
      BY <2>1
    <3> DEFINE k == IF j < at THEN j ELSE j - 1
    <3>1. k \in 1..(n - 1) /\ a[k] = r[j]
      <4>1. n \in Nat /\ at \in 1..n
        BY <2>1, <2>2
      <4>2. CASE j < at
        <5>1. k = j /\ j \in 1..(n - 1)
          BY <4>1, <4>2
        <5> QED BY <2>3, <4>2, <5>1
      <4>3. CASE ~(j < at)
        <5>1. k = j - 1 /\ k \in 1..(n - 1) /\ ~(k < at) /\ k + 1 = j
          BY <4>1, <4>3
        <5>2. a[k] = r[k + 1]
          BY <2>3, <5>1
        <5> QED BY <5>1, <5>2
      <4> QED BY <4>2, <4>3
    <3> HIDE DEF k
    <3> QED BY <2>3, <3>1 DEF HasId
  <2>11. Rewritten(r, a, gone, now)
    BY <2>2, <2>3, <2>8, <2>9, <2>10 DEF Rewritten
  <2> QED BY <1>1, <2>7, <2>11 DEF Without, a, at
<1> QED BY <1>0, <1>1

LEMMA ChosenOf ==
  ASSUME NEW S, NEW set \in SUBSET S, NEW default \in S
  PROVE  OrElse(set, default) \in S
BY DEF OrElse

LEMMA NewRecord ==
  ASSUME NEW id \in Nat, NEW content \in Contents, NEW category \in Categories, NEW weight \in 1..3,
         NEW at \in Nat, NEW by \in {"added", "updated", "user"}
  PROVE  /\ MemoryRecord(id, content, category, weight, at, by) \in RecordsOf
         /\ MemoryRecord(id, content, category, weight, at, by).id = id
         /\ MemoryRecord(id, content, category, weight, at, by).at = at
         /\ MemoryRecord(id, content, category, weight, at, by).by = by
         /\ MemoryRecord(id, content, category, weight, at, by).category = category
         /\ MemoryRecord(id, content, category, weight, at, by).content = content
BY DEF MemoryRecord, RecordsOf

LEMMA AddKeepsTheFile ==
  ASSUME NEW now \in Nat \ {0}, NEW r, NEW gone, FileOf(r, now - 1), NEW op \in OpsOf
  PROVE  FileOf(AddRecord(r, op, now, now), now) /\ Rewritten(r, AddRecord(r, op, now, now), gone, now)
<1> DEFINE category == OrElse(op.category, "fact")
           same == SameSubject(r, category, op.content)
           weight == OrElse(op.weight, 1)
           known == \E i \in DOMAIN r : r[i].content.says = op.content.says
<1>1. op.content \in Contents /\ category \in Categories /\ weight \in 1..3
  <2>1. op.category \in SUBSET Categories /\ op.weight \in SUBSET (1..3) /\ op.content \in Contents
    BY DEF OpsOf
  <2>2. "fact" \in Categories /\ 1 \in 1..3
    BY DEF Categories
  <2> QED BY <2>1, <2>2, ChosenOf
<1>2. AddRecord(r, op, now, now) =
        IF Rejected(category, op.content) \/ known THEN r
        ELSE IF same # {}
        THEN [r EXCEPT ![First(same)] =
                [@ EXCEPT !.content = op.content, !.weight = weight, !.at = now, !.by = "added"]]
        ELSE Append(r, MemoryRecord(now, op.content, category, weight, now, "added"))
  BY DEF AddRecord
<1> HIDE DEF weight
<1>3. CASE Rejected(category, op.content) \/ known
  BY <1>2, <1>3, SameFile
<1>4. CASE ~(Rejected(category, op.content) \/ known) /\ same # {}
  <2> DEFINE at == First(same)
             rec == [r[at] EXCEPT !.content = op.content, !.weight = weight, !.at = now, !.by = "added"]
  <2>1. same \subseteq DOMAIN r /\ DOMAIN r \subseteq Nat /\ \A i \in same : r[i].category = category
    <3>1. DOMAIN r = 1..Len(r) /\ Len(r) \in Nat
      BY FileIsASequence
    <3> QED BY <3>1 DEF SameSubject
  <2> HIDE DEF same, category
  <2>2. at \in same
    <3>1. same \subseteq Nat /\ same # {}
      BY <1>4, <2>1
    <3>2. \E i \in same : \A j \in same : i <= j
      BY <3>1, Least
    <3> QED BY <3>2 DEF First
  <2>3. at \in DOMAIN r /\ r[at] \in RecordsOf /\ r[at].category = category
    BY <2>1, <2>2, FileIsASequence
  <2>4. /\ rec \in RecordsOf /\ rec.id = r[at].id /\ rec.at = now /\ rec.by = "added"
        /\ rec.category = category /\ rec.content = op.content
    BY <1>1, <2>3 DEF RecordsOf
  <2>5. AddRecord(r, op, now, now) = [r EXCEPT ![at] = rec]
    BY <1>2, <1>4
  <2> HIDE DEF at, rec
  <2>6. Addable(r, at, rec)
    BY <1>4, <2>4 DEF Addable
  <2>7. FileOf([r EXCEPT ![at] = rec], now) /\ Rewritten(r, [r EXCEPT ![at] = rec], gone, now)
    BY <2>3, <2>4, <2>6, ChangedFile
  <2> QED BY <2>5, <2>7, Zenon
<1>5. CASE ~(Rejected(category, op.content) \/ known) /\ same = {}
  <2> DEFINE rec == MemoryRecord(now, op.content, category, weight, now, "added")
  <2> HIDE DEF category, same
  <2>1. /\ rec \in RecordsOf /\ rec.id = now /\ rec.at = now
        /\ rec.category = category /\ rec.content = op.content
    <3>1. now \in Nat /\ "added" \in {"added", "updated", "user"}
      OBVIOUS
    <3> QED BY <1>1, <3>1, NewRecord, SMTT(30)
  <2>2. AddRecord(r, op, now, now) = Append(r, rec)
    BY <1>2, <1>5
  <2> HIDE DEF rec
  <2>3. Addable(r, 0, rec)
    BY <1>5, <2>1 DEF Addable
  <2>4. FileOf(Append(r, rec), now) /\ Rewritten(r, Append(r, rec), gone, now)
    BY <2>1, <2>3, AppendedFile, Zenon
  <2> QED BY <2>2, <2>4, Zenon
<1> QED BY <1>3, <1>4, <1>5

LEMMA UpdateKeepsTheFile ==
  ASSUME NEW now \in Nat \ {0}, NEW r, NEW gone, FileOf(r, now - 1), NEW op \in OpsOf
  PROVE  FileOf(UpdateRecord(r, op, now), now) /\ Rewritten(r, UpdateRecord(r, op, now), gone, now)
<1>1. CASE ~HasId(r, op.id) \/ Rejected(r[Named(r, op.id)].category, op.content)
  <2>1. UpdateRecord(r, op, now) = r
    BY <1>1 DEF UpdateRecord
  <2> QED BY <2>1, SameFile
<1>2. CASE ~(~HasId(r, op.id) \/ Rejected(r[Named(r, op.id)].category, op.content))
  <2> DEFINE at == Named(r, op.id)
             category == OrElse(op.category, r[at].category)
             weight == OrElse(op.weight, r[at].weight)
             meant == OrElse(op.named, r[at].meant)
             rec == [r[at] EXCEPT !.content = op.content, !.category = category, !.weight = weight,
                                  !.at = now, !.by = "updated", !.meant = meant]
  <2>1. at \in DOMAIN r /\ r[at] \in RecordsOf
    BY <1>2, NamedRecord, FileIsASequence
  <2>2. UpdateRecord(r, op, now) = [r EXCEPT ![at] = rec]
    BY <1>2 DEF UpdateRecord
  <2> HIDE DEF at
  <2>3. category \in Categories /\ weight \in 1..3 /\ meant \in Categories /\ op.content \in Contents
    <3>1. /\ op.category \in SUBSET Categories /\ op.weight \in SUBSET (1..3)
          /\ op.named \in SUBSET Categories /\ op.content \in Contents
      BY DEF OpsOf
    <3>2. r[at].category \in Categories /\ r[at].weight \in 1..3 /\ r[at].meant \in Categories
      BY <2>1 DEF RecordsOf
    <3> QED BY <3>1, <3>2, ChosenOf
  <2> HIDE DEF category, weight, meant
  <2>4. rec \in RecordsOf /\ rec.id = r[at].id /\ rec.at = now /\ rec.by = "updated"
    BY <2>1, <2>3 DEF RecordsOf
  <2> HIDE DEF rec
  <2>5. Addable(r, at, rec)
    BY <2>4 DEF Addable
  <2>6. FileOf([r EXCEPT ![at] = rec], now) /\ Rewritten(r, [r EXCEPT ![at] = rec], gone, now)
    BY <2>1, <2>4, <2>5, ChangedFile
  <2> QED BY <2>2, <2>6, Zenon
<1> QED BY <1>1, <1>2

LEMMA AppliedKeepsTheFile ==
  ASSUME NEW now \in Nat \ {0}, NEW r, FileOf(r, now - 1), NEW op \in OpsOf
  PROVE  FileOf(Applied(r, op, now, now), now) /\ Rewritten(r, Applied(r, op, now, now), Gone({op}), now)
<1>0. op.kind \in {"add", "update", "delete"}
  BY DEF OpsOf
<1>1. CASE op.kind = "add"
  <2>1. Applied(r, op, now, now) = AddRecord(r, op, now, now)
    BY <1>1 DEF Applied
  <2> QED BY <2>1, AddKeepsTheFile
<1>2. CASE op.kind = "update"
  <2>1. Applied(r, op, now, now) = UpdateRecord(r, op, now)
    BY <1>2 DEF Applied
  <2> QED BY <2>1, UpdateKeepsTheFile
<1>3. CASE op.kind = "delete"
  <2>1. Applied(r, op, now, now) = Without(r, op.id)
    BY <1>3 DEF Applied
  <2>2. op.id \in Gone({op})
    BY <1>3 DEF Gone
  <2> QED BY <2>1, <2>2, ShortenedFile
<1> QED BY <1>0, <1>1, <1>2, <1>3

LEMMA OperationsAreTyped ==
  ASSUME NEW kind \in {"add", "update", "delete"}, NEW id \in Nat, NEW c \in Contents,
         NEW category \in SUBSET Categories, NEW weight \in SUBSET (1..3)
  PROVE  Op(kind, id, c, category, weight) \in OpsOf
BY DEF Op, OpsOf

LEMMA WritesKeepTheMemory ==
  ASSUME NEW m, MemoryInv(m), NEW op \in OpsOf
  PROVE  MemoryInv(ApplyPlan(m, op)) /\ MemoryInv(ManageMemory(m, op))
<1>1. m.now \in Nat \ {0} /\ FileOf(m.records, m.now - 1)
  BY DEF MemoryInv
<1> DEFINE new == Applied(m.records, op, m.now, m.now)
<1>2. FileOf(new, m.now) /\ Rewritten(m.records, new, Gone({op}), m.now)
  BY <1>1, AppliedKeepsTheFile
<1> HIDE DEF new
<1>3. MemoryInv(Stored(m, new, {op})) /\ MemoryInv([Stored(m, new, {op}) EXCEPT !.plan = {}])
  BY <1>2, StoredKeeps
<1> QED BY <1>3 DEF ApplyPlan, ManageMemory, new

LEMMA PanelKeepsTheMemory ==
  ASSUME NEW m, MemoryInv(m), NEW c \in Contents
  PROVE  /\ \A k \in Categories : MemoryInv(CreateRecord(m, c, k))
         /\ \A i \in DOMAIN m.records : MemoryInv(EditRecord(m, i, c))
         /\ \A id : MemoryInv(DeleteRecord(m, id))
<1>1. m.now \in Nat \ {0} /\ FileOf(m.records, m.now - 1)
  BY DEF MemoryInv
<1>2. ASSUME NEW k \in Categories PROVE MemoryInv(CreateRecord(m, c, k))
  <2> DEFINE rec == MemoryRecord(m.now, c, k, 2, m.now, "user")
  <2>1. rec \in RecordsOf /\ rec.id = m.now /\ rec.at = m.now /\ rec.by = "user"
    <3>1. m.now \in Nat /\ 2 \in 1..3 /\ "user" \in {"added", "updated", "user"}
      BY <1>1
    <3> QED BY <3>1, NewRecord
  <2>2. CreateRecord(m, c, k) = Stored(m, Append(m.records, rec), {})
    BY DEF CreateRecord
  <2> HIDE DEF rec
  <2>3. Addable(m.records, 0, rec)
    BY <2>1 DEF Addable
  <2>4. FileOf(Append(m.records, rec), m.now) /\ Rewritten(m.records, Append(m.records, rec), Gone({}), m.now)
    BY <1>1, <2>1, <2>3, AppendedFile, Zenon
  <2>5. MemoryInv(Stored(m, Append(m.records, rec), {}))
    BY <2>4, StoredKeeps, Zenon
  <2> QED BY <2>2, <2>5, Zenon
<1>3. ASSUME NEW i \in DOMAIN m.records PROVE MemoryInv(EditRecord(m, i, c))
  <2> DEFINE rec == [m.records[i] EXCEPT !.content = c, !.at = m.now, !.by = "user"]
  <2>1. m.records[i] \in RecordsOf
    BY <1>1, FileIsASequence
  <2>2. rec \in RecordsOf /\ rec.id = m.records[i].id /\ rec.at = m.now /\ rec.by = "user"
    BY <1>1, <2>1 DEF RecordsOf
  <2>3. EditRecord(m, i, c) = Stored(m, [m.records EXCEPT ![i] = rec], {})
    BY DEF EditRecord
  <2> HIDE DEF rec
  <2>4. Addable(m.records, i, rec)
    BY <2>2 DEF Addable
  <2>5. /\ FileOf([m.records EXCEPT ![i] = rec], m.now)
        /\ Rewritten(m.records, [m.records EXCEPT ![i] = rec], Gone({}), m.now)
    BY <1>1, <2>2, <2>4, ChangedFile, Zenon
  <2>6. MemoryInv(Stored(m, [m.records EXCEPT ![i] = rec], {}))
    BY <2>5, StoredKeeps, Zenon
  <2> QED BY <2>3, <2>6, Zenon
<1>4. ASSUME NEW id PROVE MemoryInv(DeleteRecord(m, id))
  <2> DEFINE ops == {[kind |-> "delete", id |-> id]}
  <2>1. id \in Gone(ops)
    <3>1. [kind |-> "delete", id |-> id].kind = "delete" /\ [kind |-> "delete", id |-> id].id = id
      OBVIOUS
    <3> QED BY <3>1 DEF Gone
  <2>2. DeleteRecord(m, id) = Stored(m, Without(m.records, id), ops)
    BY DEF DeleteRecord
  <2> HIDE DEF ops
  <2>3. FileOf(Without(m.records, id), m.now) /\ Rewritten(m.records, Without(m.records, id), Gone(ops), m.now)
    BY <1>1, <2>1, ShortenedFile
  <2> QED BY <2>2, <2>3, StoredKeeps
<1> QED BY <1>2, <1>3, <1>4

LEMMA RecallKeepsTheMemory ==
  ASSUME NEW m, MemoryInv(m)
  PROVE  MemoryInv(Recall(m))
<1>1. /\ DOMAIN m = {"records", "now", "plan", "recalled", "written", "deleted"}
      /\ m.now \in Nat \ {0} /\ m.plan \subseteq OpsOf
      /\ FileOf(m.records, m.now - 1) /\ Books(m.records, m.written, m.deleted, m.now - 1)
  BY DEF MemoryInv
<1> DEFINE s == Recall(m)
<1>2. /\ DOMAIN s = DOMAIN m /\ s.records = m.records /\ s.now = m.now /\ s.plan = m.plan
      /\ s.written = m.written /\ s.deleted = m.deleted
  BY <1>1 DEF Recall
<1> HIDE DEF s
<1>3. MemoryInv(s)
  BY <1>1, <1>2 DEF MemoryInv
<1> QED BY <1>3 DEF s

LEMMA HitsKeepTheMemory ==
  ASSUME NEW m, MemoryInv(m)
  PROVE  MemoryInv(BumpHits(m))
<1>1. /\ DOMAIN m = {"records", "now", "plan", "recalled", "written", "deleted"}
      /\ m.now \in Nat \ {0} /\ m.plan \subseteq OpsOf
      /\ FileOf(m.records, m.now - 1) /\ Books(m.records, m.written, m.deleted, m.now - 1)
  BY DEF MemoryInv
<1> DEFINE s == BumpHits(m)
           r == m.records
           n == Len(r)
           hit(i) == IF r[i].id \in m.recalled THEN [r[i] EXCEPT !.hits = @ + 1] ELSE r[i]
           new == [i \in DOMAIN r |-> hit(i)]
           now == m.now
           later == Append(m.written, 0)
<1>2. /\ DOMAIN s = DOMAIN m /\ s.records = new /\ s.now = now + 1 /\ s.plan = m.plan
      /\ s.written = later /\ s.deleted = m.deleted
  BY <1>1 DEF BumpHits
<1>3. /\ n \in Nat /\ DOMAIN r = 1..n /\ \A i \in 1..n : r[i] \in RecordsOf /\ r[i].at \in Nat /\ r[i].id \in Nat
  BY <1>1, FileIsASequence
<1>4. /\ FileOf(r, now) /\ now \in Nat \ {0}
  BY <1>1, SameFile
<1> HIDE DEF s, n
<1>5. ASSUME NEW i \in 1..n
      PROVE  /\ hit(i) \in RecordsOf /\ hit(i).id = r[i].id /\ hit(i).at = r[i].at /\ hit(i).by = r[i].by
             /\ hit(i).category = r[i].category /\ hit(i).content = r[i].content
  <2>1. r[i] \in RecordsOf
    BY <1>3
  <2>2. /\ [r[i] EXCEPT !.hits = @ + 1] \in RecordsOf
        /\ [r[i] EXCEPT !.hits = @ + 1].id = r[i].id /\ [r[i] EXCEPT !.hits = @ + 1].at = r[i].at
        /\ [r[i] EXCEPT !.hits = @ + 1].by = r[i].by
        /\ [r[i] EXCEPT !.hits = @ + 1].category = r[i].category
        /\ [r[i] EXCEPT !.hits = @ + 1].content = r[i].content
    BY <2>1 DEF RecordsOf
  <2>3. CASE r[i].id \in m.recalled
    BY <2>2, <2>3
  <2>4. CASE r[i].id \notin m.recalled
    BY <2>1, <2>4
  <2> QED BY <2>3, <2>4
<1> HIDE DEF hit
<1>6. /\ new \in Seq(RecordsOf) /\ DOMAIN new = 1..n
      /\ \A i \in 1..n : new[i] = hit(i)
  <2>1. new = [i \in 1..n |-> hit(i)]
    BY <1>3
  <2>2. [i \in 1..n |-> hit(i)] \in [1..n -> RecordsOf]
    BY <1>5
  <2> HIDE DEF new
  <2> QED BY <1>3, <2>1, <2>2
<1> HIDE DEF new
<1>7. \A i \in 1..n : /\ new[i].id = r[i].id /\ new[i].at = r[i].at /\ new[i].by = r[i].by
                      /\ new[i].category = r[i].category /\ new[i].content = r[i].content
  BY <1>5, <1>6
<1>8. FileOf(new, now)
  <2>1. \A i \in 1..n : new[i].id \in 1..now /\ new[i].at \in 1..now
    BY <1>3, <1>4, <1>7 DEF FileOf
  <2>2. ASSUME NEW i \in 1..n, NEW j \in 1..n, i # j
        PROVE  /\ new[i].id # new[j].id /\ new[i].at # new[j].at
               /\ (new[i].by = "added" /\ new[j].by = "added" => new[i].content.says # new[j].content.says)
    <3>1. /\ new[i].id = r[i].id /\ new[i].at = r[i].at /\ new[i].by = r[i].by /\ new[i].content = r[i].content
          /\ new[j].id = r[j].id /\ new[j].at = r[j].at /\ new[j].by = r[j].by /\ new[j].content = r[j].content
      BY <1>7
    <3>2. /\ r[i].id # r[j].id /\ r[i].at # r[j].at
          /\ r[i].by = "added" /\ r[j].by = "added" => r[i].content.says # r[j].content.says
      <4>1. i \in DOMAIN r /\ j \in DOMAIN r
        BY <1>3
      <4> QED BY <1>4, <2>2, <4>1, Zenon DEF FileOf
    <3> QED BY <3>1, <3>2, Zenon
  <2>3. ASSUME NEW i \in 1..n, new[i].by = "added" PROVE ~Rejected(new[i].category, new[i].content)
    <3>1. new[i].by = r[i].by /\ new[i].category = r[i].category /\ new[i].content = r[i].content
      BY <1>7
    <3> QED BY <1>3, <1>4, <2>3, <3>1 DEF FileOf
  <2> QED BY <1>6, <2>1, <2>2, <2>3 DEF FileOf
<1>9. /\ later \in Seq(0..now) /\ Len(later) = now
      /\ \A id \in 1..(now - 1) : later[id] = m.written[id]
      /\ later[now] = 0
      /\ DOMAIN m.written = 1..(now - 1) /\ DOMAIN later = 1..now
      /\ \A id \in 1..(now - 1) : m.written[id] \in 0..(now - 1)
  <2>1. m.written \in Seq(0..(now - 1)) /\ Len(m.written) = now - 1
    BY <1>1 DEF Books
  <2>2. m.written \in Seq(0..now)
    BY <1>4, <2>1
  <2>3. 0 \in 0..now
    BY <1>4
  <2> QED BY <1>4, <2>1, <2>2, <2>3
<1> HIDE DEF later, now
<1>10. \A i \in 1..n : later[new[i].id] = new[i].at
  <2> SUFFICES ASSUME NEW i \in 1..n PROVE later[new[i].id] = new[i].at
    OBVIOUS
  <2>1. i \in DOMAIN r
    BY <1>3
  <2>2. r[i].id \in 1..(now - 1) /\ m.written[r[i].id] = r[i].at
    BY <1>1, <2>1, Zenon DEF FileOf, Books, now
  <2> QED BY <1>7, <1>9, <2>2
<1>11. ASSUME NEW id \in 1..now, later[id] # 0, ~HasId(new, id), id \notin m.deleted
       PROVE  Cardinality(LaterThan(later, id)) >= MaxRecords
  <2>1. id \in 1..(now - 1) /\ m.written[id] # 0
    <3>1. id # now
      BY <1>9, <1>11
    <3>2. id \in 1..(now - 1)
      BY <1>4, <3>1
    <3> QED BY <1>9, <1>11, <3>2
  <2>2. ~HasId(r, id)
    BY <1>3, <1>6, <1>7, <1>11 DEF HasId
  <2>3. Cardinality(LaterThan(m.written, id)) >= MaxRecords
    BY <1>1, <1>11, <2>1, <2>2 DEF Books, now
  <2>4. LaterThan(m.written, id) = LaterThan(later, id)
    <3>1. ASSUME NEW i \in LaterThan(m.written, id) PROVE i \in LaterThan(later, id)
      <4>1. i \in 1..(now - 1) /\ m.written[i] > m.written[id]
        BY <1>9 DEF LaterThan
      <4>2. i \in DOMAIN later /\ later[i] = m.written[i] /\ later[id] = m.written[id]
        BY <1>4, <1>9, <2>1, <4>1
      <4> QED BY <4>1, <4>2 DEF LaterThan
    <3>2. ASSUME NEW i \in LaterThan(later, id) PROVE i \in LaterThan(m.written, id)
      <4>1. i \in 1..now /\ later[i] > later[id]
        BY <1>9 DEF LaterThan
      <4>2. later[id] = m.written[id] /\ m.written[id] \in Nat
        BY <1>9, <2>1
      <4>3. i # now
        BY <1>9, <4>1, <4>2
      <4>4. i \in 1..(now - 1)
        BY <1>4, <4>1, <4>3
      <4> QED BY <1>9, <4>1, <4>2, <4>4 DEF LaterThan
    <3> QED BY <3>1, <3>2
  <2> QED BY <2>3, <2>4
<1>12. Books(new, later, m.deleted, now)
  BY <1>6, <1>9, <1>10, <1>11 DEF Books
<1>13. s.now - 1 = now /\ s.now \in Nat \ {0}
  BY <1>2, <1>4
<1>14. MemoryInv(s)
  BY <1>1, <1>2, <1>8, <1>12, <1>13 DEF MemoryInv
<1> QED BY <1>14 DEF s

LEMMA PlannedAreTyped ==
  ASSUME NEW m, MemoryInv(m), NEW new \in PlanOps(m)
  PROVE  MemoryInv(new)
<1>1. /\ DOMAIN m = {"records", "now", "plan", "recalled", "written", "deleted"}
      /\ m.now \in Nat \ {0} /\ m.plan \subseteq OpsOf
      /\ FileOf(m.records, m.now - 1) /\ Books(m.records, m.written, m.deleted, m.now - 1)
  BY DEF MemoryInv
<1> DEFINE ids == {m.records[i].id : i \in DOMAIN m.records}
           added(c, k) == Op("add", 0, c, {k}, {})
           updated(id, c, k) == Op("update", id, c, k, {})
           removed(id) == Op("delete", id, AnyContent, {}, {})
<1>2. PICK op \in Proposed(m) : new = [m EXCEPT !.plan = {Complemented(op)}]
  BY DEF PlanOps
<1>7. op \in {added(c, k) : c \in Contents, k \in Categories}
               \cup {updated(id, c, k) : id \in ids, c \in Contents, k \in {{}, {"strategy"}}}
               \cup {removed(id) : id \in ids}
  BY DEF Proposed
<1>3. \A id \in ids : id \in Nat /\ AnyContent \in Contents
  <2> SUFFICES ASSUME NEW i \in DOMAIN m.records
               PROVE  m.records[i].id \in Nat /\ AnyContent \in Contents
    OBVIOUS
  <2>1. m.records[i] \in RecordsOf /\ m.records[i].id \in Nat
    BY <1>1, FileIsASequence
  <2>2. Contents # {}
    BY <2>1 DEF RecordsOf
  <2> QED BY <2>1, <2>2 DEF AnyContent
<1>8. ASSUME NEW c \in Contents, NEW k \in Categories PROVE added(c, k) \in OpsOf
  <2>1. {k} \in SUBSET Categories /\ {} \in SUBSET (1..3)
    OBVIOUS
  <2> QED BY <2>1, OperationsAreTyped
<1>9. ASSUME NEW id \in ids, NEW c \in Contents, NEW k \in {{}, {"strategy"}} PROVE updated(id, c, k) \in OpsOf
  <2>1. k \in SUBSET Categories /\ {} \in SUBSET (1..3)
    BY DEF Categories
  <2> QED BY <1>3, <2>1, OperationsAreTyped
<1>10. ASSUME NEW id \in ids PROVE removed(id) \in OpsOf
  <2>1. {} \in SUBSET Categories /\ {} \in SUBSET (1..3)
    OBVIOUS
  <2> QED BY <1>3, <2>1, OperationsAreTyped
<1> HIDE DEF ids, added, updated, removed
<1>4. op \in OpsOf
  BY <1>7, <1>8, <1>9, <1>10
<1>5. Complemented(op) \in OpsOf
  <2> DEFINE category == OrElse(op.category, "fact")
             weight == OrElse(op.weight, 1)
  <2>1. category \in Categories /\ weight \in 1..3
    <3>1. op.category \in SUBSET Categories /\ op.weight \in SUBSET (1..3)
      BY <1>4 DEF OpsOf
    <3>2. "fact" \in Categories /\ 1 \in 1..3
      BY DEF Categories
    <3> QED BY <3>1, <3>2, ChosenOf
  <2>2. Complemented(op) = [op EXCEPT !.category = {category}, !.weight = {weight}]
    BY DEF Complemented
  <2> HIDE DEF category, weight
  <2>3. {category} \in SUBSET Categories /\ {weight} \in SUBSET (1..3)
    BY <2>1
  <2>4. [op EXCEPT !.category = {category}, !.weight = {weight}] \in OpsOf
    BY <1>4, <2>3 DEF OpsOf
  <2> QED BY <2>2, <2>4
<1>6. /\ DOMAIN new = DOMAIN m /\ new.records = m.records /\ new.now = m.now /\ new.plan = {Complemented(op)}
      /\ new.written = m.written /\ new.deleted = m.deleted
  BY <1>1, <1>2
<1> QED BY <1>1, <1>5, <1>6 DEF MemoryInv

LEMMA ToolsAreTyped ==
  ASSUME NEW m, MemoryInv(m), NEW op \in ToolOps(m)
  PROVE  op \in OpsOf
<1> DEFINE ids == {m.records[i].id : i \in DOMAIN m.records}
           added(c, k) == Op("add", 0, c, {k}, {3})
           updated(id, c, k) == Op("update", id, c, k, {})
<1>1. op \in {added(c, k) : c \in Contents, k \in Categories}
               \cup {updated(id, c, k) : id \in ids, c \in Contents, k \in {{}, {"holding"}}}
  BY DEF ToolOps
<1>2. \A id \in ids : id \in Nat
  BY FileIsASequence DEF MemoryInv
<1>3. ASSUME NEW c \in Contents, NEW k \in Categories PROVE added(c, k) \in OpsOf
  <2>1. {k} \in SUBSET Categories /\ {3} \in SUBSET (1..3)
    OBVIOUS
  <2> QED BY <2>1, OperationsAreTyped
<1>4. ASSUME NEW id \in ids, NEW c \in Contents, NEW k \in {{}, {"holding"}} PROVE updated(id, c, k) \in OpsOf
  <2>1. k \in SUBSET Categories /\ {} \in SUBSET (1..3)
    BY DEF Categories
  <2> QED BY <1>2, <2>1, OperationsAreTyped
<1> HIDE DEF ids, added, updated
<1> QED BY <1>1, <1>3, <1>4

LEMMA MemoryStepsKeepIt ==
  ASSUME NEW m, MemoryInv(m), NEW new, new \in MemorySteps(m) \/ new \in TurnSteps(m)
  PROVE  MemoryInv(new)
<1>1. m.plan \subseteq OpsOf
  BY DEF MemoryInv
<1>2. CASE new \in RecallSteps(m)
  BY <1>2, RecallKeepsTheMemory, HitsKeepTheMemory DEF RecallSteps
<1>3. CASE new \in PlanOps(m)
  BY <1>3, PlannedAreTyped
<1>4. CASE new \in {ApplyPlan(m, op) : op \in m.plan}
  BY <1>1, <1>4, WritesKeepTheMemory
<1>5. CASE new \in {ManageMemory(m, op) : op \in ToolOps(m)}
  BY <1>5, ToolsAreTyped, WritesKeepTheMemory
<1>6. CASE new \in {CreateRecord(m, c, k) : c \in Contents, k \in Categories}
  BY <1>6, PanelKeepsTheMemory
<1>7. CASE new \in {EditRecord(m, i, c) : i \in DOMAIN m.records, c \in Contents}
  BY <1>7, PanelKeepsTheMemory
<1>8. CASE new \in {DeleteRecord(m, m.records[i].id) : i \in DOMAIN m.records}
  <2>1. PICK i \in DOMAIN m.records : new = DeleteRecord(m, m.records[i].id)
    BY <1>8
  <2>2. Contents # {}
    <3>1. m.records[i] \in RecordsOf
      BY FileIsASequence DEF MemoryInv
    <3> QED BY <3>1 DEF RecordsOf
  <2> QED BY <2>1, <2>2, PanelKeepsTheMemory
<1>9. CASE new \in {ManageMemory(m, Op("add", 0, c, {"fact"}, {w})) : c \in Contents, w \in {1, 3}}
  <2>1. PICK c \in Contents, w \in {1, 3} : new = ManageMemory(m, Op("add", 0, c, {"fact"}, {w}))
    BY <1>9
  <2>2. {"fact"} \in SUBSET Categories /\ {w} \in SUBSET (1..3)
    BY DEF Categories
  <2>3. Op("add", 0, c, {"fact"}, {w}) \in OpsOf
    BY <2>2, OperationsAreTyped
  <2> QED BY <2>1, <2>3, WritesKeepTheMemory
<1>10. CASE new \in MemorySteps(m)
  <2>1. \/ new \in PlanOps(m) \/ new \in {ApplyPlan(m, op) : op \in m.plan}
        \/ new \in {ManageMemory(m, op) : op \in ToolOps(m)}
        \/ new \in {CreateRecord(m, c, k) : c \in Contents, k \in Categories}
        \/ new \in {EditRecord(m, i, c) : i \in DOMAIN m.records, c \in Contents}
        \/ new \in {DeleteRecord(m, m.records[i].id) : i \in DOMAIN m.records}
        \/ new \in RecallSteps(m)
    BY <1>10 DEF MemorySteps
  <2> QED BY <1>2, <1>3, <1>4, <1>5, <1>6, <1>7, <1>8, <2>1
<1>11. CASE new \in TurnSteps(m)
  <2>1. \/ new \in RecallSteps(m)
        \/ new \in {ManageMemory(m, Op("add", 0, c, {"fact"}, {w})) : c \in Contents, w \in {1, 3}}
    BY <1>11 DEF TurnSteps
  <2> QED BY <1>2, <1>9, <2>1
<1> QED BY <1>10, <1>11

LEMMA NewMemoryIsSound == MemoryInv(NewMemory)
<1>1. /\ DOMAIN NewMemory = {"records", "now", "plan", "recalled", "written", "deleted"}
      /\ NewMemory.now = 1 /\ NewMemory.plan = {} /\ NewMemory.records = <<>> /\ NewMemory.written = <<>>
  BY DEF NewMemory
<1>2. FileOf(<<>>, 0)
  BY DEF FileOf
<1>3. Books(<<>>, <<>>, NewMemory.deleted, 0)
  BY DEF Books
<1> QED BY <1>1, <1>2, <1>3 DEF MemoryInv

MemoryState == "of" \in DOMAIN work /\ (work.of \in {"memory", "turns"} => "m" \in DOMAIN work /\ MemoryInv(work.m))

LEMMA MemoryStateBegins ==
  ASSUME Init
  PROVE  MemoryState
<1> SUFFICES ASSUME work.of \in {"memory", "turns"} PROVE MemoryState
  BY InitIsNamed DEF MemoryState
<1>1. PICK of \in {"memory", "turns"} : work = [of |-> of, m |-> NewMemory]
  <2>1. ASSUME SyncBegins PROVE work.of = "sync"
    BY <2>1 DEF SyncBegins
  <2>2. ASSUME DailyBegins PROVE work.of = "daily"
    BY <2>2 DEF DailyBegins
  <2>3. ~FetchBegins
    BY DEF FetchBegins
  <2>4. ~DataBegins
    BY <2>1, <2>2 DEF DataBegins
  <2>5. ~MarketBegins
    BY DEF MarketBegins
  <2>6. TextBegins
    BY <2>3, <2>4, <2>5 DEF Init
  <2>7. \E of \in {"memory", "turns"} : work = [of |-> of, m |-> NewMemory]
    BY <2>6 DEF TextBegins
  <2> QED BY <2>7
<1>2. "of" \in DOMAIN work /\ "m" \in DOMAIN work /\ work.m = NewMemory
  BY <1>1
<1> QED BY <1>2, NewMemoryIsSound DEF MemoryState

LEMMA MemoryStateGoesOn ==
  ASSUME MemoryState, [Next]_work
  PROVE  MemoryState'
<1>1. "of" \in DOMAIN work /\ "of" \in DOMAIN work' /\ work'.of = work.of
  BY NextIsNamed DEF MemoryState
<1>2. CASE work' = work
  BY <1>2 DEF MemoryState
<1>3. CASE work' # work /\ work.of \in {"memory", "turns"}
  <2>1. WriteMemory \/ TakeTurn
    BY <1>1, <1>3
    DEF Next, SendRequest, AskForSlot, FetchBars, TryCombination, ReadPage, FetchFlow, FetchBatch,
        KeepRows, WriteRow, AppendRow, AskForBreadth, AskForSectors, RefreshPool, ReadLocal,
        SyncMarket, FetchDaily, LiveOn, FillFlow, Launch
  <2>2. PICK m : (m \in MemorySteps(work.m) \/ m \in TurnSteps(work.m)) /\ work' = [work EXCEPT !.m = m]
    BY <2>1 DEF WriteMemory, TakeTurn
  <2>3. "m" \in DOMAIN work /\ MemoryInv(work.m)
    BY <1>3 DEF MemoryState
  <2>4. "m" \in DOMAIN work' /\ work'.m = m
    BY <2>2, <2>3
  <2>5. MemoryInv(m)
    BY <2>2, <2>3, MemoryStepsKeepIt
  <2> QED BY <1>1, <2>4, <2>5 DEF MemoryState
<1>4. CASE work.of \notin {"memory", "turns"}
  BY <1>1, <1>4 DEF MemoryState
<1> QED BY <1>2, <1>3, <1>4

\* memory.py: on whatever older listing an operation was planned, two records the
\* model added say two things and none but of the profile is a market number; what is
\* gone was deleted by name or has enough written after it; and what the user
\* stressed is recalled before what he mentioned in passing, however often that was.
THEOREM MemoryCorrect == Spec => []MemoryIsSound
<1>1. MemoryState => MemoryIsSound
  <2> SUFFICES ASSUME MemoryState, work.of \in {"memory", "turns"}
               PROVE  MemoryIsKept(work.m) /\ StressedComesFirst(work.m)
    BY DEF MemoryIsSound
  <2> DEFINE m == work.m
             r == m.records
  <2>1. /\ m.now \in Nat \ {0} /\ FileOf(r, m.now - 1) /\ Books(r, m.written, m.deleted, m.now - 1)
    BY DEF MemoryState, MemoryInv
  <2> HIDE DEF m
  <2>2. MemoryIsKept(m)
    <3>1. \A i, j \in DOMAIN r : i # j /\ r[i].by = "added" /\ r[j].by = "added"
                                    => r[i].content.says # r[j].content.says
      BY <2>1 DEF FileOf
    <3>2. \A i \in DOMAIN r : r[i].by = "added" => ~Rejected(r[i].category, r[i].content)
      BY <2>1 DEF FileOf
    <3>3. ASSUME NEW id \in DOMAIN m.written, m.written[id] # 0, ~HasId(r, id), id \notin m.deleted
          PROVE  Cardinality({i \in DOMAIN m.written : m.written[i] > m.written[id]}) >= MaxRecords
      <4>1. id \in 1..(m.now - 1)
        BY <2>1 DEF Books
      <4>2. Cardinality(LaterThan(m.written, id)) >= MaxRecords
        BY <2>1, <3>3, <4>1 DEF Books
      <4> QED BY <4>2 DEF LaterThan
    <3> QED BY <3>1, <3>2, <3>3, Zenon DEF MemoryIsKept
  <2>3. StressedComesFirst(m)
    <3> SUFFICES ASSUME NEW i \in DOMAIN r, NEW j \in DOMAIN r,
                        r[i].weight = 3, r[j].weight = 1, r[i].at >= r[j].at
                 PROVE  Score(r[i], m.now) > Score(r[j], m.now)
      BY DEF StressedComesFirst
    <3>1. /\ r[i] \in RecordsOf /\ r[j] \in RecordsOf /\ r[i].at \in Nat /\ r[j].at \in Nat
      BY <2>1, FileIsASequence
    <3>2. r[i].at <= m.now /\ m.now \in Nat
      BY <2>1 DEF FileOf
    <3>3. r[j].at <= r[i].at
      BY <3>1
    <3> QED BY <3>1, <3>2, <3>3, StressedRanksFirst
  <2> QED BY <2>2, <2>3 DEF m
<1> QED BY <1>1, MemoryStateBegins, MemoryStateGoesOn, PTL DEF Spec
-----------------------------------------------------------------------------
(* Conditions: numerals.                                                    *)

LEMMA DecimalNumerals ==
  ASSUME NEW a \in DOMAIN DecimalDigits, NEW c \in DOMAIN DecimalDigits
  PROVE  /\ DecimalValue(<<a>>) = DecimalDigits[a]
         /\ DecimalValue(<<a, c>>) = 10 * DecimalDigits[a] + DecimalDigits[c]
<1> DEFINE StepsTo(numeral, f) ==
             f = [k \in 0..Len(numeral) |-> IF k = 0 THEN 0 ELSE 10 * f[k - 1] + DecimalDigits[numeral[k]]]
           Value(numeral) == CHOOSE f : StepsTo(numeral, f)
<1>1. ASSUME NEW numeral PROVE DecimalValue(numeral) = Value(numeral)[Len(numeral)]
  BY DEF DecimalValue
<1>2. DecimalDigits[a] \in Nat /\ DecimalDigits[c] \in Nat
  BY DEF DecimalDigits
<1>3. DecimalValue(<<a>>) = DecimalDigits[a]
  <2> DEFINE m == <<a>>
             f == Value(m)
             g == [k \in 0..1 |-> IF k = 0 THEN 0 ELSE DecimalDigits[a]]
  <2>1. Len(m) = 1 /\ m[1] = a
    OBVIOUS
  <2>2. StepsTo(m, g)
    <3>1. \A k \in 0..1 : k = 0 \/ k = 1
      OBVIOUS
    <3>2. g[0] = 0 /\ 10 * g[0] + DecimalDigits[m[1]] = DecimalDigits[a]
      BY <1>2, <2>1
    <3>3. ASSUME NEW k \in 0..1
          PROVE  g[k] = IF k = 0 THEN 0 ELSE 10 * g[k - 1] + DecimalDigits[m[k]]
      BY <3>1, <3>2
    <3>4. DOMAIN g = 0..1 /\ g = [k \in 0..1 |-> g[k]]
      OBVIOUS
    <3> HIDE DEF g, m
    <3>5. g = [k \in 0..1 |-> IF k = 0 THEN 0 ELSE 10 * g[k - 1] + DecimalDigits[m[k]]]
      BY <3>3, <3>4
    <3> QED BY <2>1, <3>5
  <2> HIDE DEF StepsTo, g, m
  <2>3. StepsTo(m, f)
    <3>1. \E x : StepsTo(m, x)
      BY <2>2
    <3> QED BY <3>1
  <2> HIDE DEF f
  <2>4. f[1] = 10 * f[0] + DecimalDigits[m[1]] /\ f[0] = 0
    BY <2>1, <2>3 DEF StepsTo
  <2>5. DecimalValue(m) = f[1]
    BY <1>1, <2>1 DEF f
  <2> QED BY <1>2, <2>1, <2>4, <2>5 DEF m
<1>4. DecimalValue(<<a, c>>) = 10 * DecimalDigits[a] + DecimalDigits[c]
  <2> DEFINE m == <<a, c>>
             f == Value(m)
             g == [k \in 0..2 |-> IF k = 0 THEN 0 ELSE IF k = 1 THEN DecimalDigits[a]
                                    ELSE 10 * DecimalDigits[a] + DecimalDigits[c]]
  <2>1. Len(m) = 2 /\ m[1] = a /\ m[2] = c
    OBVIOUS
  <2>2. StepsTo(m, g)
    <3>1. \A k \in 0..2 : k = 0 \/ k = 1 \/ k = 2
      OBVIOUS
    <3>2. g[0] = 0 /\ g[1] = DecimalDigits[a] /\ g[2] = 10 * DecimalDigits[a] + DecimalDigits[c]
      OBVIOUS
    <3>3. 10 * g[0] + DecimalDigits[m[1]] = g[1]
      BY <1>2, <2>1, <3>2
    <3>4. 10 * g[1] + DecimalDigits[m[2]] = g[2]
      BY <2>1, <3>2
    <3>5. ASSUME NEW k \in 0..2
          PROVE  g[k] = IF k = 0 THEN 0 ELSE 10 * g[k - 1] + DecimalDigits[m[k]]
      <4> HIDE DEF g, m
      <4> QED BY <3>1, <3>2, <3>3, <3>4
    <3>6. DOMAIN g = 0..2 /\ g = [k \in 0..2 |-> g[k]]
      OBVIOUS
    <3> HIDE DEF g, m
    <3>7. g = [k \in 0..2 |-> IF k = 0 THEN 0 ELSE 10 * g[k - 1] + DecimalDigits[m[k]]]
      BY <3>5, <3>6
    <3> QED BY <2>1, <3>7
  <2> HIDE DEF StepsTo, g, m
  <2>3. StepsTo(m, f)
    <3>1. \E x : StepsTo(m, x)
      BY <2>2
    <3> QED BY <3>1
  <2> HIDE DEF f
  <2>4. f[0] = 0 /\ f[1] = 10 * f[0] + DecimalDigits[m[1]] /\ f[2] = 10 * f[1] + DecimalDigits[m[2]]
    BY <2>1, <2>3 DEF StepsTo
  <2>5. DecimalValue(m) = f[2]
    BY <1>1, <2>1 DEF f
  <2>6. f[1] = DecimalDigits[a]
    BY <1>2, <2>1, <2>4
  <2> QED BY <2>1, <2>4, <2>5, <2>6 DEF m
<1> QED BY <1>3, <1>4

\* A numeral with its one ten at k.
LEMMA TenNumerals ==
  ASSUME NEW numeral, NEW at \in DOMAIN numeral, DOMAIN numeral \subseteq Nat,
         \A k \in DOMAIN numeral : \A j \in 1..k - 1 : j \in DOMAIN numeral,
         numeral[at] = "shi", \A k \in DOMAIN numeral : k # at => numeral[k] \in DOMAIN ChineseDigits
  PROVE  ParseWindow(numeral) = AroundTen(numeral, at)
<1>1. \A k \in DOMAIN numeral : k # at => numeral[k] # "shi"
  BY DEF ChineseDigits
<1>2. \A k \in DOMAIN numeral : TenAt(numeral, k) <=> k = at
  BY <1>1 DEF TenAt
<1>3. (CHOOSE k \in DOMAIN numeral : TenAt(numeral, k)) = at
  BY <1>2
<1>4. "shi" \notin DOMAIN DecimalDigits
  BY DEF DecimalDigits
<1>5. /\ ~(\A k \in DOMAIN numeral : numeral[k] \in DOMAIN DecimalDigits)
      /\ \E k \in DOMAIN numeral : numeral[k] = "shi"
  BY <1>4
<1> QED BY <1>3, <1>5 DEF ParseWindow

LEMMA DigitsApart ==
  /\ DOMAIN DecimalDigits \cap DOMAIN ChineseDigits = {}
  /\ "shi" \notin DOMAIN DecimalDigits /\ "shi" \notin DOMAIN ChineseDigits
  /\ \A c \in DOMAIN DecimalDigits : DecimalDigits[c] \in 0..9
  /\ \A c \in DOMAIN ChineseDigits : ChineseDigits[c] \in 0..9 /\ Digit(c) = ChineseDigits[c]
<1>1. /\ DOMAIN DecimalDigits = {"d0", "d1", "d2", "d3", "d4", "d5", "d6", "d7", "d8", "d9"}
      /\ DOMAIN ChineseDigits = {"ling", "yi", "er", "liang", "san", "si", "wu", "liu", "qi", "ba", "jiu"}
  BY DEF DecimalDigits, ChineseDigits
<1>2. \A c \in DOMAIN DecimalDigits : DecimalDigits[c] \in 0..9
  BY DEF DecimalDigits
<1>3. \A c \in DOMAIN ChineseDigits : ChineseDigits[c] \in 0..9
  BY DEF ChineseDigits
<1> QED BY <1>1, <1>2, <1>3 DEF Digit

\* _parse_window gives the number a numeral below a hundred stands for.
LEMMA NumeralsAreRead ==
  ASSUME NEW numeral, NEW days, Reads(numeral, days)
  PROVE  ParseWindow(numeral) = days
<1> DEFINE Decimals(d) == {c \in DOMAIN DecimalDigits : DecimalDigits[c] = d}
           Chinese(d) == {c \in DOMAIN ChineseDigits : ChineseDigits[c] = d}
<1>1. PICK tens \in 0..9, ones \in 0..9 :
        /\ days = 10 * tens + ones
        /\ \/ tens = 0 /\ \E c \in Decimals(ones) \cup Chinese(ones) : numeral = <<c>>
           \/ \E a \in Decimals(tens), c \in Decimals(ones) : numeral = <<a>> \o <<c>>
           \/ /\ tens > 0
              /\ \E a \in {<<c>> : c \in Chinese(tens)} \cup (IF tens = 1 THEN {<<>>} ELSE {}),
                    c \in {<<c>> : c \in Chinese(ones)} \cup (IF ones = 0 THEN {<<>>} ELSE {}) :
                      numeral = a \o <<"shi">> \o c
  BY DEF Reads
<1>2. CASE tens = 0 /\ \E c \in Decimals(ones) : numeral = <<c>>
  <2>1. PICK c \in Decimals(ones) : numeral = <<c>>
    BY <1>2
  <2>2. DecimalValue(numeral) = ones
    BY <2>1, DecimalNumerals
  <2>3. \A k \in DOMAIN numeral : numeral[k] \in DOMAIN DecimalDigits
    BY <2>1
  <2> QED BY <1>1, <1>2, <2>2, <2>3 DEF ParseWindow
<1>3. CASE tens = 0 /\ \E c \in Chinese(ones) : numeral = <<c>>
  <2>1. PICK c \in Chinese(ones) : numeral = <<c>>
    BY <1>3
  <2>2. DOMAIN numeral = 1..1 /\ Len(numeral) = 1 /\ numeral[1] = c
    BY <2>1
  <2>3. c \notin DOMAIN DecimalDigits /\ c # "shi" /\ Digit(c) = ones
    BY DigitsApart
  <2>4. ParseWindow(numeral) = ones
    BY <2>2, <2>3 DEF ParseWindow
  <2> QED BY <1>1, <1>3, <2>4
<1>4. CASE \E a \in Decimals(tens), c \in Decimals(ones) : numeral = <<a>> \o <<c>>
  <2>0. PICK a \in Decimals(tens), c \in Decimals(ones) : numeral = <<a>> \o <<c>>
    BY <1>4
  <2>1. numeral = <<a, c>>
    <3>1. /\ numeral \in Seq(DOMAIN DecimalDigits) /\ Len(numeral) = 2
          /\ numeral[1] = a /\ numeral[2] = c
      BY <2>0
    <3>2. <<a, c>> \in Seq(DOMAIN DecimalDigits) /\ Len(<<a, c>>) = 2
      OBVIOUS
    <3>3. \A k \in 1..2 : numeral[k] = <<a, c>>[k]
      BY <3>1
    <3> QED BY <3>1, <3>2, <3>3, SeqEqual
  <2>2. DecimalValue(numeral) = 10 * tens + ones
    BY <2>1, DecimalNumerals
  <2>3. \A k \in DOMAIN numeral : numeral[k] \in DOMAIN DecimalDigits
    BY <2>1
  <2> QED BY <1>1, <2>2, <2>3 DEF ParseWindow
<1>5. ASSUME tens = 1, numeral = <<>> \o <<"shi">> \o <<>>, ones = 0 PROVE ParseWindow(numeral) = days
  <2>1. DOMAIN numeral = 1..1 /\ Len(numeral) = 1 /\ numeral[1] = "shi"
    BY <1>5
  <2>2. ParseWindow(numeral) = AroundTen(numeral, 1)
    <3>1. /\ 1 \in DOMAIN numeral /\ DOMAIN numeral \subseteq Nat
          /\ \A k \in DOMAIN numeral : \A j \in 1..k - 1 : j \in DOMAIN numeral
          /\ \A k \in DOMAIN numeral : k # 1 => numeral[k] \in DOMAIN ChineseDigits
      BY <2>1
    <3> QED BY <2>1, <3>1, TenNumerals
  <2> QED BY <1>1, <1>5, <2>1, <2>2 DEF AroundTen
<1>6. ASSUME tens = 1, NEW c \in Chinese(ones), numeral = <<>> \o <<"shi">> \o <<c>>
      PROVE  ParseWindow(numeral) = days
  <2>1. DOMAIN numeral = 1..2 /\ Len(numeral) = 2 /\ numeral[1] = "shi" /\ numeral[2] = c
    BY <1>6
  <2>2. ParseWindow(numeral) = AroundTen(numeral, 1)
    <3>1. /\ 1 \in DOMAIN numeral /\ DOMAIN numeral \subseteq Nat
          /\ \A k \in DOMAIN numeral : \A j \in 1..k - 1 : j \in DOMAIN numeral
          /\ \A k \in DOMAIN numeral : k # 1 => numeral[k] \in DOMAIN ChineseDigits
      BY <2>1
    <3> QED BY <2>1, <3>1, TenNumerals
  <2>3. Digit(c) = ones
    BY DigitsApart
  <2> QED BY <1>1, <1>6, <2>1, <2>2, <2>3 DEF AroundTen
<1>7. ASSUME NEW a \in Chinese(tens), numeral = <<a>> \o <<"shi">> \o <<>>, ones = 0
      PROVE  ParseWindow(numeral) = days
  <2>1. DOMAIN numeral = 1..2 /\ Len(numeral) = 2 /\ numeral[1] = a /\ numeral[2] = "shi"
    BY <1>7
  <2>2. ParseWindow(numeral) = AroundTen(numeral, 2)
    <3>1. /\ 2 \in DOMAIN numeral /\ DOMAIN numeral \subseteq Nat
          /\ \A k \in DOMAIN numeral : \A j \in 1..k - 1 : j \in DOMAIN numeral
          /\ \A k \in DOMAIN numeral : k # 2 => numeral[k] \in DOMAIN ChineseDigits
      BY <2>1
    <3> QED BY <2>1, <3>1, TenNumerals
  <2>3. Digit(a) = tens
    BY DigitsApart
  <2> QED BY <1>1, <1>7, <2>1, <2>2, <2>3 DEF AroundTen
<1>8. ASSUME NEW a \in Chinese(tens), NEW c \in Chinese(ones), numeral = <<a>> \o <<"shi">> \o <<c>>
      PROVE  ParseWindow(numeral) = days
  <2>1. DOMAIN numeral = 1..3 /\ Len(numeral) = 3 /\ numeral[1] = a /\ numeral[2] = "shi" /\ numeral[3] = c
    BY <1>8
  <2>2. ParseWindow(numeral) = AroundTen(numeral, 2)
    <3>1. /\ 2 \in DOMAIN numeral /\ DOMAIN numeral \subseteq Nat
          /\ \A k \in DOMAIN numeral : \A j \in 1..k - 1 : j \in DOMAIN numeral
          /\ \A k \in DOMAIN numeral : k # 2 => numeral[k] \in DOMAIN ChineseDigits
      BY <2>1
    <3> QED BY <2>1, <3>1, TenNumerals
  <2>3. Digit(a) = tens /\ Digit(c) = ones
    BY DigitsApart
  <2>4. AroundTen(numeral, 2) = 10 * Digit(numeral[1]) + Digit(numeral[3])
    BY <2>1 DEF AroundTen
  <2> QED BY <1>1, <2>1, <2>2, <2>3, <2>4
<1>9. CASE /\ tens > 0
           /\ \E a \in {<<c>> : c \in Chinese(tens)} \cup (IF tens = 1 THEN {<<>>} ELSE {}),
                 c \in {<<c>> : c \in Chinese(ones)} \cup (IF ones = 0 THEN {<<>>} ELSE {}) :
                   numeral = a \o <<"shi">> \o c
  <2>1. PICK a \in {<<x>> : x \in Chinese(tens)} \cup (IF tens = 1 THEN {<<>>} ELSE {}),
             c \in {<<x>> : x \in Chinese(ones)} \cup (IF ones = 0 THEN {<<>>} ELSE {}) :
               numeral = a \o <<"shi">> \o c
    BY <1>9
  <2>2. (\E x \in Chinese(tens) : a = <<x>>) \/ (tens = 1 /\ a = <<>>)
    BY <2>1
  <2>3. (\E x \in Chinese(ones) : c = <<x>>) \/ (ones = 0 /\ c = <<>>)
    BY <2>1
  <2> HIDE DEF Chinese
  <2> QED BY <1>5, <1>6, <1>7, <1>8, <2>1, <2>2, <2>3
<1> QED BY <1>1, <1>2, <1>3, <1>4, <1>9
-----------------------------------------------------------------------------
(* Conditions: what a text means.                                           *)

\* A row as the constants give it.
TextRow(r) == r \in Bar /\ r.volume \in Nat /\ \A u, v \in r.flow : u = v

\* A node of the condition that the text says.
SaysAs(n, t) == n.id = t.says
AverageIds == {"above ma", "below ma"}

\* What a text says when the limit itself is taken in.
Loosely(t, days, rows) ==
  IF t.says \in Comparisons THEN \E p \in Compared(t, days, rows) : p[1] >= p[2] ELSE Means(t, days, rows)

LEMMA LooselyOrOnLimit ==
  ASSUME NEW t, NEW days, NEW rows, ~OnLimit(t, days, rows)
  PROVE  Loosely(t, days, rows) <=> Means(t, days, rows)
<1>1. CASE t.says \in Comparisons
  <2>1. Means(t, days, rows)
          <=> \E p \in Compared(t, days, rows) : p[1] >= p[2] /\ (t.strict => p[1] # p[2])
    BY <1>1 DEF Means
  <2>2. t.strict => \A p \in Compared(t, days, rows) : p[1] # p[2]
    BY <1>1 DEF OnLimit
  <2> QED BY <1>1, <2>1, <2>2, Zenon DEF Loosely
<1>2. CASE t.says \notin Comparisons
  BY <1>2 DEF Loosely
<1> QED BY <1>1, <1>2

LEMMA AverageTexts ==
  ASSUME NEW t, NEW days \in Nat, days >= 1, NEW i \in Nat, i >= 1, NEW rows, Len(rows) = i,
         \A j \in 1..i : rows[j] \in Bar, NEW n, Numbered(n), n.window = days,
         SaysAs(n, t), t.says \in AverageIds
  PROVE  Evaluate(n, rows, 1, i) <=> Loosely(t, days, rows)
<1> DEFINE closes == SumFunction([j \in i - days + 1..i |-> rows[j].close])
<1>1. Evaluate(n, rows, 1, i) <=> EvaluateTrend(n, rows, i)
  BY EvaluatorOf DEF SaysAs, AverageIds, TrendIds
<1>2. /\ t.says = "above ma" =>
           (Loosely(t, days, rows) <=> i >= days /\ days * rows[i].close > closes)
      /\ t.says = "below ma" =>
           (Loosely(t, days, rows) <=> i >= days /\ days * rows[i].close < closes)
  BY DEF Loosely, Comparisons, Means
<1>3. MovingAverage(rows, i, days) = IF i < days THEN {} ELSE {closes}
  BY DEF MovingAverage
<1>4. MovingAverage(rows, i, days) \in SUBSET Int /\ days * rows[i].close \in Int
  <2>1. rows[i].close \in Int
    BY DEF Bar
  <2> QED BY <2>1, ColumnsAreIntegers
<1> HIDE DEF closes
<1>6. /\ n.id = "above ma" =>
           (EvaluateTrend(n, rows, i) <=> \E m \in MovingAverage(rows, i, days) : days * rows[i].close - m > 0)
      /\ n.id = "below ma" =>
           (EvaluateTrend(n, rows, i) <=> \E m \in MovingAverage(rows, i, days) : days * rows[i].close - m < 0)
  BY TrendOf DEF AboveMean, BelowMean
<1>7. CASE i < days
  <2>1. ~EvaluateTrend(n, rows, i) /\ ~Loosely(t, days, rows)
    <3>1. MovingAverage(rows, i, days) = {} /\ ~(i >= days)
      BY <1>3, <1>7
    <3>2. ~EvaluateTrend(n, rows, i)
      BY <1>6, <3>1 DEF SaysAs, AverageIds
    <3> QED BY <1>2, <3>1, <3>2, Zenon DEF SaysAs, AverageIds
  <2> QED BY <1>1, <2>1
<1>8. CASE ~(i < days)
  <2>1. MovingAverage(rows, i, days) = {closes} /\ closes \in Int
    BY <1>3, <1>4, <1>8
  <2>2. EvaluateTrend(n, rows, i) <=> Loosely(t, days, rows)
    <3> DEFINE p == days * rows[i].close
    <3>0. p \in Int
      BY <1>4
    <3> HIDE DEF p
    <3>1. p \in Int /\ (p - closes > 0 <=> p > closes) /\ (p - closes < 0 <=> p < closes) /\ i >= days
      BY <3>0, <1>8, <2>1
    <3>2. /\ n.id = "above ma" => (EvaluateTrend(n, rows, i) <=> p - closes > 0)
          /\ n.id = "below ma" => (EvaluateTrend(n, rows, i) <=> p - closes < 0)
      BY <1>6, <2>1 DEF p
    <3>3. /\ t.says = "above ma" => (Loosely(t, days, rows) <=> p > closes)
          /\ t.says = "below ma" => (Loosely(t, days, rows) <=> p < closes)
      BY <1>2, <3>1 DEF p
    <3> QED BY <3>1, <3>2, <3>3, Zenon DEF SaysAs, AverageIds
  <2> QED BY <1>1, <2>2
<1> QED BY <1>7, <1>8

ReturnIds == {"return at most", "return between"}

\* Amounts in percents and in thousandths.
LEMMA Tenths ==
  ASSUME NEW change \in Int, NEW close \in Int, NEW x \in Int
  PROVE  /\ 1000 * change <= (10 * x) * close <=> 100 * change <= x * close
         /\ (10 * x) * close <= 1000 * change <=> x * close <= 100 * change
<1> DEFINE p == x * close
<1>1. (10 * x) * close = 10 * p /\ p \in Int
  OBVIOUS
<1> HIDE DEF p
<1>2. /\ 1000 * change <= 10 * p <=> 100 * change <= p
      /\ 10 * p <= 1000 * change <=> p <= 100 * change
  BY <1>1
<1> QED BY <1>1, <1>2 DEF p

\* The node of a text about returns, which says lo and hi.
ReturnNode(n, t, lo, hi) ==
  /\ n.id = t.says /\ t.says \in ReturnIds /\ t.lo = lo /\ t.hi = hi
  /\ n.hi = 10 * hi /\ (t.says = "return between" => n.lo = 10 * lo)

LEMMA ReturnTexts ==
  ASSUME NEW t, NEW days \in Nat, days >= 1, NEW i \in Nat, i >= 1, NEW rows, Len(rows) = i,
         \A j \in 1..i : rows[j] \in Bar, NEW n, Numbered(n), n.window = days,
         NEW lo \in Int, NEW hi \in Int, ReturnNode(n, t, lo, hi)
  PROVE  Evaluate(n, rows, 1, i) <=> Loosely(t, days, rows)
<1> DEFINE now == rows[i].close
           then == rows[i - days].close
<1>1. Evaluate(n, rows, 1, i) <=> EvaluateTrend(n, rows, i)
  BY EvaluatorOf DEF ReturnNode, ReturnIds, TrendIds
<1>2. CASE i <= days
  <2>1. Returns(rows, i, days) = {}
    BY <1>2 DEF Returns
  <2>2. ~EvaluateTrend(n, rows, i)
    <3>1. EvaluateTrend(n, rows, i) <=> ReturnIn(n, rows, i)
      BY TrendOf DEF ReturnNode, ReturnIds
    <3> DEFINE Holds(r) == /\ 1000 * (r[1] - r[2]) <= n.hi * r[2]
                           /\ n.id = "return between" => n.lo * r[2] <= 1000 * (r[1] - r[2])
    <3>2. ReturnIn(n, rows, i) <=> \E r \in Returns(rows, i, n.window) : Holds(r)
      BY Zenon DEF ReturnIn
    <3> HIDE DEF Holds
    <3> QED BY <2>1, <3>1, <3>2
  <2>3. ~(i > days)
    BY <1>2
  <2>4. ~Loosely(t, days, rows)
    <3>1. CASE t.says = "return at most"
      BY <1>2, <2>3, <3>1 DEF Loosely, Comparisons, Compared
    <3>2. CASE t.says = "return between"
      BY <2>3, <3>2, Zenon DEF Loosely, Comparisons, Means
    <3> QED BY <3>1, <3>2 DEF ReturnNode, ReturnIds
  <2> QED BY <1>1, <2>2, <2>4
<1>3. CASE ~(i <= days)
  <2>1. Returns(rows, i, days) = {<<now, then>>} /\ i > days
    BY <1>3 DEF Returns
  <2>2. now \in Int /\ then \in Int
    <3>1. i \in 1..i /\ i - days \in 1..i
      BY <1>3
    <3> QED BY <3>1 DEF Bar
  <2> DEFINE Upper(h) == 1000 * (now - then) <= h * then
             Lower(l) == l * then <= 1000 * (now - then)
  <2>3. EvaluateTrend(n, rows, i) <=> Upper(n.hi) /\ (n.id = "return between" => Lower(n.lo))
    <3> DEFINE Holds(r) == /\ 1000 * (r[1] - r[2]) <= n.hi * r[2]
                           /\ n.id = "return between" => n.lo * r[2] <= 1000 * (r[1] - r[2])
    <3>1. EvaluateTrend(n, rows, i) <=> ReturnIn(n, rows, i)
      BY TrendOf DEF ReturnNode, ReturnIds
    <3>2. ReturnIn(n, rows, i) <=> \E r \in Returns(rows, i, n.window) : Holds(r)
      BY Zenon DEF ReturnIn
    <3>3. Holds(<<now, then>>) <=> Upper(n.hi) /\ (n.id = "return between" => Lower(n.lo))
      <4> HIDE DEF now, then
      <4> QED OBVIOUS
    <3> HIDE DEF Holds, now, then, Upper, Lower
    <3> QED BY <2>1, <3>1, <3>2, <3>3, Zenon
  <2>4. /\ t.says = "return at most" =>
             (Loosely(t, days, rows) <=> i > days /\ 100 * (now - then) <= t.hi * then)
        /\ t.says = "return between" =>
             (Loosely(t, days, rows) <=> /\ i > days /\ t.lo * then <= 100 * (now - then)
                                       /\ 100 * (now - then) <= t.hi * then)
    <3>1. CASE t.says = "return at most"
      <4> DEFINE more == t.hi * then
                 less == 100 * (now - then)
      <4>1. Compared(t, days, rows) = {<<more, less>>}
        <5> DEFINE changes == IF i <= days THEN {} ELSE {now - then}
        <5>1. Compared(t, days, rows) = {<<more, 100 * change>> : change \in changes}
          BY <3>1 DEF Compared
        <5>2. changes = {now - then}
          BY <1>3
        <5> HIDE DEF more, changes, now, then
        <5> QED BY <5>1, <5>2 DEF less
      <4>2. Loosely(t, days, rows) <=> \E p \in Compared(t, days, rows) : p[1] >= p[2]
        BY <3>1 DEF Loosely, Comparisons
      <4>3. more \in Int /\ less \in Int
        <5>1. t.hi \in Int
          BY DEF ReturnNode
        <5> HIDE DEF now, then
        <5> QED BY <2>2, <5>1
      <4> HIDE DEF more, less
      <4>4. Loosely(t, days, rows) <=> less <= more
        BY <4>1, <4>2, <4>3
      <4>5. t.says # "return between"
        BY <3>1
      <4> QED BY <2>1, <4>4, <4>5, Zenon DEF more, less
    <3>2. CASE t.says = "return between"
      BY <3>2 DEF Loosely, Comparisons, Means
    <3> QED BY <3>1, <3>2 DEF ReturnNode, ReturnIds
  <2>5. now - then \in Int
    BY <2>2
  <2> HIDE DEF now, then
  <2>6. /\ Upper(10 * hi) <=> 100 * (now - then) <= hi * then
        /\ Lower(10 * lo) <=> lo * then <= 100 * (now - then)
    BY <2>2, <2>5, Tenths
  <2> HIDE DEF Upper, Lower
  <2>7. n.id = t.says /\ t.says \in ReturnIds /\ n.hi = 10 * hi /\ t.hi = hi /\ t.lo = lo
        /\ (t.says = "return between" => n.lo = 10 * lo)
    BY Zenon DEF ReturnNode
  <2>8. CASE t.says = "return at most"
    <3>1. n.id # "return between"
      BY <2>7, <2>8
    <3>2. EvaluateTrend(n, rows, i) <=> Upper(10 * hi)
      BY <2>3, <2>7, <3>1, Zenon
    <3>3. Loosely(t, days, rows) <=> 100 * (now - then) <= hi * then
      BY <2>1, <2>4, <2>7, <2>8, Zenon
    <3> QED BY <1>1, <2>6, <3>2, <3>3, Zenon
  <2>9. CASE t.says = "return between"
    <3>1. EvaluateTrend(n, rows, i) <=> Upper(10 * hi) /\ Lower(10 * lo)
      <4>1. n.id = "return between" /\ n.hi = 10 * hi /\ n.lo = 10 * lo
        BY <2>7, <2>9, Zenon
      <4> QED BY <2>3, <4>1, Zenon
    <3>2. Loosely(t, days, rows) <=> lo * then <= 100 * (now - then) /\ 100 * (now - then) <= hi * then
      BY <2>1, <2>4, <2>7, <2>9, Zenon
    <3> QED BY <1>1, <2>6, <3>1, <3>2, Zenon
  <2> QED BY <2>7, <2>8, <2>9, Zenon DEF ReturnIds
<1> QED BY <1>2, <1>3

\* A sum of natural numbers is one.
LEMMA SumIsNat ==
  ASSUME NEW f, NEW S, IsFiniteSet(S), \A x \in S : f[x] \in Nat
  PROVE  SumOn(f, S) \in Nat
<1> DEFINE P == {X \in SUBSET S : SumOn(f, X) \in Nat}
<1>0. AreSummed(f, S)
  BY DEF AreSummed
<1>1. {} \in P
  BY EmptySum
<1>2. ASSUME NEW X \in SUBSET S, X \in P, NEW x \in S \ X PROVE X \cup {x} \in P
  <2>1. SumOn(f, X \cup {x}) = f[x] + SumOn(f, X)
    BY <1>0, SumWith
  <2> QED BY <1>2, <2>1
<1> HIDE DEF P
<1>3. S \in P
  BY <1>1, <1>2, SubsetsOneByOne
<1> QED BY <1>3 DEF P

VolumeNode(n, t) == n.id = t.says /\ t.says = "volume ratio" /\ n.lo = t.lo /\ n.hi = t.hi

LEMMA VolumeTexts ==
  ASSUME NEW t, NEW days \in Nat, days >= 1, NEW i \in Nat, i >= 1, NEW rows, Len(rows) = i,
         \A j \in 1..i : rows[j] \in Bar /\ rows[j].volume \in Nat, NEW n, Numbered(n), n.window = days,
         VolumeNode(n, t)
  PROVE  Evaluate(n, rows, 1, i) <=> Loosely(t, days, rows)
<1> DEFINE f == [j \in i - days..i - 1 |-> rows[j].volume]
           p == SumFunction(f)
           v == days * rows[i].volume
<1>1. Evaluate(n, rows, 1, i) <=> EvaluateTrend(n, rows, i)
  BY EvaluatorOf DEF VolumeNode, TrendIds
<1>2. EvaluateTrend(n, rows, i)
        <=> \E q \in PriorVolume(rows, i, days) : n.lo * q <= v /\ v <= n.hi * q
  <2>1. EvaluateTrend(n, rows, i) <=> RatioIn(n, rows, i)
    BY TrendOf DEF VolumeNode
  <2> HIDE DEF v
  <2>2. PriorVolume(rows, i, n.window) = PriorVolume(rows, i, days) /\ n.window * rows[i].volume = v
    BY DEF v
  <2> QED BY <2>1, <2>2, Zenon DEF RatioIn
<1>3. Loosely(t, days, rows) <=> i > days /\ (p > 0 /\ t.lo * p <= v /\ v <= t.hi * p)
  BY DEF Loosely, Comparisons, Means, VolumeNode
<1>4. PriorVolume(rows, i, days) = IF i <= days THEN {} ELSE {p} \ {0}
  BY DEF PriorVolume
<1>5. CASE i <= days
  <2>1. PriorVolume(rows, i, days) = {} /\ ~(i > days)
    BY <1>4, <1>5
  <2> HIDE DEF p, v
  <2> QED BY <1>1, <1>2, <1>3, <2>1, Zenon DEF VolumeNode
<1>6. CASE ~(i <= days)
  <2>1. p \in Nat
    <3>1. IsFiniteSet(i - days..i - 1) /\ DOMAIN f = i - days..i - 1
      BY FS_Interval
    <3>2. \A j \in i - days..i - 1 : f[j] \in Nat
      BY <1>6
    <3> HIDE DEF f
    <3> QED BY <3>1, <3>2, SumIsNat DEF SumOn, SumFunction
  <2> HIDE DEF p, v
  <2>2. PriorVolume(rows, i, days) = {p} \ {0} /\ i > days /\ (p > 0 <=> p # 0)
    BY <1>4, <1>6, <2>1
  <2> QED BY <1>1, <1>2, <1>3, <2>2, Zenon DEF VolumeNode
<1> QED BY <1>5, <1>6

ExtremeIds == {"breakout", "breakdown"}

LEMMA ExtremeTexts ==
  ASSUME NEW t, NEW days \in Nat, days >= 1, NEW i \in Nat, i >= 1, NEW rows, Len(rows) = i,
         \A j \in 1..i : rows[j] \in Bar, NEW n, Numbered(n), n.window = days,
         SaysAs(n, t), t.says \in ExtremeIds
  PROVE  Evaluate(n, rows, 1, i) <=> Loosely(t, days, rows)
<1> DEFINE now == rows[i].close
           highs == Highs(rows, i - days, i - 1)
           lows == Lows(rows, i - days, i - 1)
<1>1. Evaluate(n, rows, 1, i) <=> EvaluatePattern(n, rows, 1, i)
  BY EvaluatorOf DEF SaysAs, ExtremeIds, PatternIds
<1>2. /\ n.id = "breakout" => (EvaluatePattern(n, rows, 1, i) <=> \E h \in PriorHigh(rows, i, days) : now - h > 0)
      /\ n.id = "breakdown" => (EvaluatePattern(n, rows, 1, i) <=> \E l \in PriorLow(rows, i, days) : now - l < 0)
  BY DEF EvaluatePattern
<1>3. /\ t.says = "breakout" =>
           (Loosely(t, days, rows) <=> i > days /\ \A j \in i - days..i - 1 : rows[j].high < now)
      /\ t.says = "breakdown" =>
           (Loosely(t, days, rows) <=> i > days /\ \A j \in i - days..i - 1 : rows[j].low > now)
  BY DEF Loosely, Comparisons, Means
<1>4. /\ PriorHigh(rows, i, days) = IF i <= days THEN {} ELSE {Max(highs)}
      /\ PriorLow(rows, i, days) = IF i <= days THEN {} ELSE {Min(lows)}
  <2>1. PriorHigh(rows, i, days) = IF i <= days \/ days = 0 THEN {} ELSE {Max(highs)}
    BY Zenon DEF PriorHigh, Highs
  <2>2. PriorLow(rows, i, days) = IF i <= days \/ days = 0 THEN {} ELSE {Min(lows)}
    BY Zenon DEF PriorLow, Lows
  <2> HIDE DEF highs, lows
  <2> QED BY <2>1, <2>2
<1>5. n.id = t.says /\ t.says \in ExtremeIds
  BY DEF SaysAs
<1>6. CASE i <= days
  <2>1. ~(i > days) /\ PriorHigh(rows, i, days) = {} /\ PriorLow(rows, i, days) = {}
    BY <1>4, <1>6
  <2> HIDE DEF now
  <2>2. CASE t.says = "breakout"
    BY <1>1, <1>2, <1>3, <1>5, <2>1, <2>2, Zenon
  <2>3. CASE t.says = "breakdown"
    BY <1>1, <1>2, <1>3, <1>5, <2>1, <2>3, Zenon
  <2> QED BY <1>5, <2>2, <2>3, Zenon DEF ExtremeIds
<1>7. CASE ~(i <= days)
  <2>1. i > days /\ PriorHigh(rows, i, days) = {Max(highs)} /\ PriorLow(rows, i, days) = {Min(lows)}
    BY <1>4, <1>7
  <2>2. i - days \in Int /\ i - 1 \in Int /\ i - days <= i - 1 /\ \A j \in i - days..i - 1 : rows[j] \in Bar
    BY <1>7
  <2>3. /\ Max(highs) \in highs /\ highs \in SUBSET Int /\ \A y \in highs : y <= Max(highs)
        /\ Min(lows) \in lows /\ lows \in SUBSET Int /\ \A y \in lows : Min(lows) <= y
    BY <2>2, ExtremesOfRows
  <2>4. now \in Int
    BY DEF Bar
  <2>5. /\ (\A j \in i - days..i - 1 : rows[j].high < now) <=> \A y \in highs : y < now
        /\ (\A j \in i - days..i - 1 : rows[j].low > now) <=> \A y \in lows : y > now
    BY DEF Highs, Lows
  <2> HIDE DEF highs, lows, now
  <2>6. /\ (\A y \in highs : y < now) <=> now - Max(highs) > 0
        /\ (\A y \in lows : y > now) <=> now - Min(lows) < 0
    <3>1. ASSUME NEW S \in SUBSET Int, NEW m \in S, \A y \in S : y <= m
          PROVE  (\A y \in S : y < now) <=> now - m > 0
      BY <2>4, <3>1
    <3>2. ASSUME NEW S \in SUBSET Int, NEW m \in S, \A y \in S : m <= y
          PROVE  (\A y \in S : y > now) <=> now - m < 0
      BY <2>4, <3>2
    <3> QED BY <2>3, <3>1, <3>2
  <2>7. CASE t.says = "breakout"
    BY <1>1, <1>2, <1>3, <1>5, <2>1, <2>5, <2>6, <2>7, Zenon
  <2>8. CASE t.says = "breakdown"
    BY <1>1, <1>2, <1>3, <1>5, <2>1, <2>5, <2>6, <2>8, Zenon
  <2> QED BY <1>5, <2>7, <2>8, Zenon DEF ExtremeIds
<1> QED BY <1>6, <1>7

LEMMA CrossTexts ==
  ASSUME NEW t, NEW days, NEW i \in Nat, i >= 1, NEW rows, Len(rows) = i,
         NEW n, n.id = "dead cross", t.says = "dead cross"
  PROVE  Evaluate(n, rows, 1, i) <=> Loosely(t, days, rows)
<1>1. Evaluate(n, rows, 1, i) <=> EvaluatePattern(n, rows, 1, i)
  BY EvaluatorOf DEF PatternIds
<1>2. EvaluatePattern(n, rows, 1, i)
        <=> (i > 1 /\ rows[i - 1].dif >= rows[i - 1].dea /\ rows[i].dif < rows[i].dea)
  BY DEF EvaluatePattern
<1>3. Loosely(t, days, rows)
        <=> (i > 1 /\ rows[i].dif < rows[i].dea /\ rows[i - 1].dif >= rows[i - 1].dea)
  BY DEF Loosely, Comparisons, Means
<1> QED BY <1>1, <1>2, <1>3, Zenon

\* The node of a text about the flow of several days.
FlowNode(n, t, days, amount) ==
  \/ n.id = "flow sum at least" /\ t.says = "inflow" /\ n.lo = amount /\ amount = Money(t.lo, t.units[1])
  \/ n.id = "flow sum at most" /\ t.says = "outflow" /\ n.hi = -amount /\ amount = Money(t.hi, t.units[1])

LEMMA FlowTexts ==
  ASSUME NEW t, NEW days \in Nat, days >= 1, NEW i \in Nat, i >= 1, NEW rows, Len(rows) = i,
         \A j \in 1..i : rows[j] \in Bar, NEW n, Numbered(n), n.window = days,
         NEW amount \in Int, FlowNode(n, t, days, amount)
  PROVE  Evaluate(n, rows, 1, i) <=> Loosely(t, days, rows)
<1> DEFINE net == SumFunction([j \in i - days + 1..i |-> CHOOSE v \in rows[j].flow : TRUE])
           known == \A j \in i - days + 1..i : rows[j].flow # {}
<1>1. Evaluate(n, rows, 1, i) <=> EvaluateFlow(n, rows, i)
  BY EvaluatorOf DEF FlowNode, FlowIds
<1>2. /\ n.id = "flow sum at least" =>
           (EvaluateFlow(n, rows, i) <=> \E v \in FlowSum(rows, i, days) : v >= n.lo)
      /\ n.id = "flow sum at most" =>
           (EvaluateFlow(n, rows, i) <=> \E v \in FlowSum(rows, i, days) : v <= n.hi)
  BY DEF EvaluateFlow
<1>3. /\ t.says = "inflow" =>
           (Loosely(t, days, rows) <=> i >= days /\ known /\ net >= Money(t.lo, t.units[1]))
      /\ t.says = "outflow" =>
           (Loosely(t, days, rows) <=> i >= days /\ known /\ -net >= Money(t.hi, t.units[1]))
  <2> DEFINE nets == IF i < days \/ ~known THEN {} ELSE {net}
  <2>1. /\ t.says = "inflow" => Compared(t, days, rows) = {<<v, Money(t.lo, t.units[1])>> : v \in nets}
        /\ t.says = "outflow" => Compared(t, days, rows) = {<<-v, Money(t.hi, t.units[1])>> : v \in nets}
    BY DEF Compared
  <2>2. t.says \in {"inflow", "outflow"} =>
          (Loosely(t, days, rows) <=> \E p \in Compared(t, days, rows) : p[1] >= p[2])
    BY DEF Loosely, Comparisons
  <2>3. nets = {} <=> ~(i >= days /\ known)
    <3> HIDE DEF known, net
    <3> QED OBVIOUS
  <2>4. nets # {} => nets = {net}
    OBVIOUS
  <2> HIDE DEF nets, net, known
  <2>6. ASSUME t.says = "inflow"
        PROVE  Loosely(t, days, rows) <=> (i >= days /\ known) /\ net >= Money(t.lo, t.units[1])
    <3> DEFINE bound == Money(t.lo, t.units[1])
    <3>1. Compared(t, days, rows) = {<<v, bound>> : v \in nets}
      BY <2>1, <2>6
    <3>2. Loosely(t, days, rows) <=> \E p \in Compared(t, days, rows) : p[1] >= p[2]
      BY <2>2, <2>6
    <3> HIDE DEF bound
    <3>3. CASE nets = {}
      BY <2>3, <3>1, <3>2, <3>3
    <3>4. CASE nets = {net}
      <4>1. Compared(t, days, rows) = {<<net, bound>>}
        BY <3>1, <3>4
      <4>2. i >= days /\ known
        BY <2>3, <3>4
      <4>3. Loosely(t, days, rows) <=> net >= bound
        BY <3>2, <4>1
      <4> QED BY <4>2, <4>3 DEF bound
    <3> QED BY <2>4, <3>3, <3>4 DEF bound
  <2>7. ASSUME t.says = "outflow"
        PROVE  Loosely(t, days, rows) <=> (i >= days /\ known) /\ -net >= Money(t.hi, t.units[1])
    <3> DEFINE bound == Money(t.hi, t.units[1])
    <3>1. Compared(t, days, rows) = {<<-v, bound>> : v \in nets}
      BY <2>1, <2>7
    <3>2. Loosely(t, days, rows) <=> \E p \in Compared(t, days, rows) : p[1] >= p[2]
      BY <2>2, <2>7
    <3> HIDE DEF bound
    <3>3. CASE nets = {}
      BY <2>3, <3>1, <3>2, <3>3
    <3>4. CASE nets = {net}
      <4>1. Compared(t, days, rows) = {<<-net, bound>>}
        BY <3>1, <3>4
      <4>2. i >= days /\ known
        BY <2>3, <3>4
      <4>3. Loosely(t, days, rows) <=> -net >= bound
        BY <3>2, <4>1
      <4> QED BY <4>2, <4>3 DEF bound
    <3> QED BY <2>4, <3>3, <3>4 DEF bound
  <2> QED BY <2>6, <2>7
<1>4. FlowSum(rows, i, days) = IF i < days \/ ~known THEN {} ELSE {net}
  BY DEF FlowSum
<1>5. FlowSum(rows, i, days) \in SUBSET Int
  BY ColumnsAreIntegers
<1> HIDE DEF net, known
<1>6. CASE i < days \/ ~known
  <2>1. FlowSum(rows, i, days) = {} /\ ~(i >= days /\ known)
    BY <1>4, <1>6
  <2> QED BY <1>1, <1>2, <1>3, <2>1, Zenon DEF FlowNode
<1>7. CASE ~(i < days \/ ~known)
  <2>1. FlowSum(rows, i, days) = {net} /\ i >= days /\ known /\ net \in Int
    BY <1>4, <1>5, <1>7
  <2>2. -net >= amount <=> net <= -amount
    BY <2>1
  <2>3. CASE n.id = "flow sum at least" /\ t.says = "inflow" /\ n.lo = amount /\ amount = Money(t.lo, t.units[1])
    BY <1>1, <1>2, <1>3, <2>1, <2>3, Zenon
  <2>4. CASE n.id = "flow sum at most" /\ t.says = "outflow" /\ n.hi = -amount /\ amount = Money(t.hi, t.units[1])
    BY <1>1, <1>2, <1>3, <2>1, <2>2, <2>4, Zenon
  <2> QED BY <2>3, <2>4 DEF FlowNode
<1> QED BY <1>6, <1>7

LEMMA TodayTexts ==
  ASSUME NEW t, NEW days, NEW i \in Nat, i >= 1, NEW rows, Len(rows) = i,
         rows[i].flow \in SUBSET Int, NEW n, n.id = "flow today at most", n.hi = 0, t.says = "outflow today"
  PROVE  Evaluate(n, rows, 1, i) <=> Loosely(t, days, rows)
<1>1. Evaluate(n, rows, 1, i) <=> EvaluateFlow(n, rows, i)
  BY EvaluatorOf DEF FlowIds
<1>2. EvaluateFlow(n, rows, i) <=> \E v \in rows[i].flow : v <= 0
  BY DEF EvaluateFlow
<1>3. Loosely(t, days, rows) <=> \E p \in {<<0, v>> : v \in rows[i].flow} : p[1] >= p[2]
  BY DEF Loosely, Comparisons, Compared
<1>4. (\E p \in {<<0, v>> : v \in rows[i].flow} : p[1] >= p[2]) <=> \E v \in rows[i].flow : 0 >= v
  <2> DEFINE flows == rows[i].flow
  <2> HIDE DEF flows
  <2>1. ASSUME NEW v \in flows, 0 >= v PROVE \E p \in {<<0, u>> : u \in flows} : p[1] >= p[2]
    <3>1. <<0, v>> \in {<<0, u>> : u \in flows} /\ <<0, v>>[1] = 0 /\ <<0, v>>[2] = v
      OBVIOUS
    <3> QED BY <2>1, <3>1, Zenon
  <2>2. ASSUME NEW p \in {<<0, u>> : u \in flows}, p[1] >= p[2] PROVE \E v \in flows : 0 >= v
    <3>1. PICK v \in flows : p = <<0, v>>
      OBVIOUS
    <3>2. p[1] = 0 /\ p[2] = v
      BY <3>1
    <3> QED BY <2>2, <3>2
  <2> QED BY <2>1, <2>2 DEF flows
<1>5. \A v \in rows[i].flow : 0 >= v <=> v <= 0
  OBVIOUS
<1> QED BY <1>1, <1>2, <1>3, <1>4, <1>5, Zenon

\* The node of a text about today's level of something.
LevelNode(n, t) ==
  /\ n.id = t.says
  /\ \/ /\ t.says = "market cap" /\ n.lo = Money(t.lo, t.units[1]) /\ n.hi = Money(t.hi, t.units[2])
     \/ /\ t.says = "turnover" /\ n.lo = Percent(t.lo) /\ n.hi = Percent(t.hi)
     \/ /\ t.says = "rising ratio" /\ n.lo = Percent(t.lo)
     \/ /\ t.says = "histogram" /\ n.lo = t.lo

LEMMA LevelTexts ==
  ASSUME NEW t, NEW days, NEW i \in Nat, i >= 1, NEW rows, Len(rows) = i, rows[i] \in Bar,
         NEW n, LevelNode(n, t), NEW lo \in Int, NEW hi \in Int, lo = t.lo, hi = t.hi
  PROVE  Evaluate(n, rows, 1, i) <=> Loosely(t, days, rows)
<1>1. Evaluate(n, rows, 1, i) <=> EvaluateLevel(n, rows, i)
  BY EvaluatorOf DEF LevelNode, LevelIds
<1>2. CASE t.says = "market cap"
  <2>1. EvaluateLevel(n, rows, i) <=> \E v \in rows[i].cap : n.lo <= v /\ v <= n.hi
    BY <1>2 DEF EvaluateLevel, LevelNode, Within
  <2>2. Loosely(t, days, rows)
          <=> \E v \in rows[i].cap : Money(t.lo, t.units[1]) <= v /\ v <= Money(t.hi, t.units[2])
    BY <1>2 DEF Loosely, Comparisons, Means
  <2>3. n.lo = Money(t.lo, t.units[1]) /\ n.hi = Money(t.hi, t.units[2])
    BY <1>2 DEF LevelNode
  <2> QED BY <1>1, <2>1, <2>2, <2>3, Zenon
<1>3. CASE t.says = "turnover"
  <2>1. EvaluateLevel(n, rows, i) <=> \E v \in rows[i].turnover : n.lo <= v * 10 /\ v * 10 <= n.hi
    BY <1>3 DEF EvaluateLevel, LevelNode, TurnoverRatio
  <2>2. Loosely(t, days, rows) <=> \E v \in rows[i].turnover : t.lo <= v /\ v <= t.hi
    BY <1>3 DEF Loosely, Comparisons, Means
  <2>3. n.lo = lo * 10 /\ n.hi = hi * 10
    BY <1>3 DEF LevelNode, Percent
  <2>4. \A v \in rows[i].turnover : v \in Int
    BY DEF Bar
  <2>5. \A v \in rows[i].turnover : lo * 10 <= v * 10 /\ v * 10 <= hi * 10 <=> lo <= v /\ v <= hi
    BY <2>4
  <2> QED BY <1>1, <2>1, <2>2, <2>3, <2>5, Zenon
<1>4. CASE t.says = "rising ratio"
  <2>1. EvaluateLevel(n, rows, i) <=> rows[i].heat >= n.lo
    BY <1>4 DEF EvaluateLevel, LevelNode
  <2>2. Loosely(t, days, rows) <=> rows[i].heat >= 10 * t.lo
    <3> DEFINE more == rows[i].heat
               less == 10 * t.lo
    <3>1. Compared(t, days, rows) = {<<more, less>>}
      BY <1>4 DEF Compared
    <3>2. Loosely(t, days, rows) <=> \E p \in Compared(t, days, rows) : p[1] >= p[2]
      BY <1>4 DEF Loosely, Comparisons
    <3> HIDE DEF more, less
    <3>3. Loosely(t, days, rows) <=> more >= less
      BY <3>1, <3>2
    <3> QED BY <3>3 DEF more, less
  <2>3. n.lo = lo * 10
    BY <1>4 DEF LevelNode, Percent
  <2>4. lo * 10 = 10 * lo
    OBVIOUS
  <2> QED BY <1>1, <2>1, <2>2, <2>3, <2>4, Zenon
<1>5. CASE t.says = "histogram"
  <2>1. EvaluateLevel(n, rows, i) <=> 2 * (rows[i].dif - rows[i].dea) >= n.lo
    BY <1>5 DEF EvaluateLevel, LevelNode, Histogram
  <2>2. Loosely(t, days, rows) <=> 2 * (rows[i].dif - rows[i].dea) >= t.lo
    <3> DEFINE more == 2 * (rows[i].dif - rows[i].dea)
               less == t.lo
    <3>1. Compared(t, days, rows) = {<<more, less>>}
      BY <1>5 DEF Compared
    <3>2. Loosely(t, days, rows) <=> \E p \in Compared(t, days, rows) : p[1] >= p[2]
      BY <1>5 DEF Loosely, Comparisons
    <3> HIDE DEF more, less
    <3>3. Loosely(t, days, rows) <=> more >= less
      BY <3>1, <3>2
    <3> QED BY <3>3 DEF more, less
  <2>3. n.lo = t.lo
    BY <1>5 DEF LevelNode
  <2> QED BY <1>1, <2>1, <2>2, <2>3, Zenon
<1> QED BY <1>2, <1>3, <1>4, <1>5 DEF LevelNode

\* A node, by the text it is made of.
TextNode(n, t, days) ==
  /\ Numbered(n) /\ n.enabled = TRUE /\ n.lag = 0
  /\ \/ /\ n.window = days
        /\ \/ SaysAs(n, t) /\ t.says \in AverageIds
           \/ SaysAs(n, t) /\ t.says \in ExtremeIds
           \/ ReturnNode(n, t, t.lo, t.hi)
           \/ VolumeNode(n, t)
           \/ \E amount \in Int : FlowNode(n, t, days, amount)
     \/ n.id = "dead cross" /\ t.says = "dead cross"
     \/ n.id = "flow today at most" /\ n.hi = 0 /\ t.says = "outflow today"
     \/ LevelNode(n, t)

LEMMA AmountsAreIntegers ==
  ASSUME NEW amount \in Int
  PROVE  /\ \A unit : Money(amount, unit) \in Int /\ -Money(amount, unit) \in Int
         /\ Percent(amount) \in Int /\ Percent(amount) = 10 * amount
<1>1. ASSUME NEW unit PROVE Money(amount, unit) \in Int /\ -Money(amount, unit) \in Int
  <2>1. (CASE unit = "wan" -> 10000 [] unit = "yi" -> 100000000 [] OTHER -> 1) \in Int
    OBVIOUS
  <2>2. Money(amount, unit) \in Int
    BY <2>1 DEF Money
  <2> QED BY <2>2
<1>2. Percent(amount) \in Int /\ Percent(amount) = 10 * amount
  BY DEF Percent
<1> QED BY <1>1, <1>2

LEMMA AmountOrNone ==
  ASSUME NEW amount \in Int
  PROVE  {amount, 0} \subseteq Int
OBVIOUS

\* Both sides of a text, and what their nodes are.
Sided(t, days) ==
  /\ EntryNode(t) \cup ExitNode(t) # {}
  /\ \A n \in EntryNode(t) \cup ExitNode(t) : TextNode(n, t, days)

LEMMA PlainTexts ==
  ASSUME NEW t, NEW days \in Nat, ParseWindow(t.window) = days, t.says \in AverageIds \cup ExtremeIds
  PROVE  Sided(t, days)
<1> DEFINE n == NodeOf(t.says, days, 0, 0)
<1>1. EntryNode(t) \cup ExitNode(t) = {n}
  BY DEF EntryNode, ExitNode, AverageIds, ExtremeIds
<1>3. Numbered(n) /\ n.id = t.says /\ n.window = days /\ n.enabled = TRUE /\ n.lag = 0
  BY DEF NodeOf, Numbered
<1> HIDE DEF n
<1>4. SaysAs(n, t)
  BY <1>3 DEF SaysAs
<1>5. TextNode(n, t, days)
  BY <1>3, <1>4, Zenon DEF TextNode
<1> QED BY <1>1, <1>5 DEF Sided

LEMMA ParameterTexts ==
  ASSUME NEW t, NEW days \in Nat, ParseWindow(t.window) = days, t.lo \in Int, t.hi \in Int,
         t.says \in ReturnIds \cup {"volume ratio"}
  PROVE  Sided(t, days)
<1>1. /\ Percent(t.lo) \in Int /\ Percent(t.hi) \in Int
      /\ Percent(t.lo) = 10 * t.lo /\ Percent(t.hi) = 10 * t.hi
  BY AmountsAreIntegers, Zenon
<1>0. {Percent(t.lo), 0} \subseteq Int
  BY <1>1, AmountOrNone, Zenon
<1>2. CASE t.says = "volume ratio"
  <2> DEFINE n == NodeOf("volume ratio", days, t.lo, t.hi)
  <2>1. EntryNode(t) \cup ExitNode(t) = {n}
    BY <1>2 DEF EntryNode, ExitNode
  <2>2. /\ Numbered(n) /\ n.id = "volume ratio" /\ n.window = days /\ n.lo = t.lo /\ n.hi = t.hi
        /\ n.enabled = TRUE /\ n.lag = 0
    BY DEF NodeOf, Numbered
  <2> HIDE DEF n
  <2>3. VolumeNode(n, t)
    BY <1>2, <2>2, Zenon DEF VolumeNode
  <2>4. TextNode(n, t, days)
    BY <2>2, <2>3, Zenon DEF TextNode
  <2> QED BY <2>1, <2>4 DEF Sided
<1>3. CASE t.says = "return between"
  <2> DEFINE n == NodeOf("return between", days, Percent(t.lo), Percent(t.hi))
  <2>1. EntryNode(t) \cup ExitNode(t) = {n}
    BY <1>3 DEF EntryNode, ExitNode
  <2>2. /\ Numbered(n) /\ n.id = "return between" /\ n.window = days
        /\ n.lo = Percent(t.lo) /\ n.hi = Percent(t.hi) /\ n.enabled = TRUE /\ n.lag = 0
    BY <1>1 DEF NodeOf, Numbered
  <2> HIDE DEF n
  <2>3. ReturnNode(n, t, t.lo, t.hi)
    BY <1>1, <1>3, <2>2, Zenon DEF ReturnNode, ReturnIds
  <2>4. TextNode(n, t, days)
    BY <2>2, <2>3, Zenon DEF TextNode
  <2> QED BY <2>1, <2>4 DEF Sided
<1>4. CASE t.says = "return at most"
  <2>1. ASSUME NEW lo \in {Percent(t.lo), 0}
        PROVE  TextNode(NodeOf("return at most", days, lo, Percent(t.hi)), t, days)
    <3> DEFINE n == NodeOf("return at most", days, lo, Percent(t.hi))
    <3>1. /\ Numbered(n) /\ n.id = "return at most" /\ n.window = days
          /\ n.hi = Percent(t.hi) /\ n.enabled = TRUE /\ n.lag = 0
      BY <1>0, <1>1 DEF NodeOf, Numbered
    <3>2. t.says # "return between"
      BY <1>4
    <3> HIDE DEF n
    <3>3. ReturnNode(n, t, t.lo, t.hi)
      BY <1>1, <1>4, <3>1, <3>2, Zenon DEF ReturnNode, ReturnIds
    <3>4. TextNode(n, t, days)
      BY <3>1, <3>3, Zenon DEF TextNode
    <3> QED BY <3>4 DEF n
  <2>2. EntryNode(t) \cup ExitNode(t) = {NodeOf("return at most", days, Percent(t.lo), Percent(t.hi)),
                                         NodeOf("return at most", days, 0, Percent(t.hi))}
    BY <1>4 DEF EntryNode, ExitNode
  <2>3. /\ TextNode(NodeOf("return at most", days, Percent(t.lo), Percent(t.hi)), t, days)
        /\ TextNode(NodeOf("return at most", days, 0, Percent(t.hi)), t, days)
    BY <2>1, Zenon
  <2> QED BY <2>2, <2>3, Zenon DEF Sided
<1> QED BY <1>2, <1>3, <1>4 DEF ReturnIds

LEMMA AmountTexts ==
  ASSUME NEW t, NEW days \in Nat, ParseWindow(t.window) = days, t.lo \in Int, t.hi \in Int,
         t.says \in {"inflow", "outflow"}
  PROVE  Sided(t, days)
<1>1. /\ Money(t.lo, t.units[1]) \in Int /\ Money(t.hi, t.units[1]) \in Int
      /\ -Money(t.hi, t.units[1]) \in Int
  BY AmountsAreIntegers
<1>2. CASE t.says = "inflow"
  <2> DEFINE n == NodeOf("flow sum at least", days, Money(t.lo, t.units[1]), 0)
  <2>1. EntryNode(t) \cup ExitNode(t) = {n}
    BY <1>2 DEF EntryNode, ExitNode
  <2>2. /\ Numbered(n) /\ n.id = "flow sum at least" /\ n.window = days
        /\ n.lo = Money(t.lo, t.units[1]) /\ n.enabled = TRUE /\ n.lag = 0
    BY <1>1 DEF NodeOf, Numbered
  <2> HIDE DEF n
  <2>3. FlowNode(n, t, days, Money(t.lo, t.units[1]))
    BY <1>2, <2>2, Zenon DEF FlowNode
  <2>4. TextNode(n, t, days)
    BY <1>1, <2>2, <2>3, Zenon DEF TextNode
  <2> QED BY <2>1, <2>4 DEF Sided
<1>3. CASE t.says = "outflow"
  <2> DEFINE n == NodeOf("flow sum at most", days, 0, -Money(t.hi, t.units[1]))
  <2>1. ExitNode(t) = {Outflow(t)} /\ EntryNode(t) \subseteq {Outflow(t)}
    BY <1>3 DEF EntryNode, ExitNode
  <2>2. EntryNode(t) \cup ExitNode(t) = {n}
    BY <2>1 DEF Outflow
  <2>3. /\ Numbered(n) /\ n.id = "flow sum at most" /\ n.window = days
        /\ n.hi = -Money(t.hi, t.units[1]) /\ n.enabled = TRUE /\ n.lag = 0
    BY <1>1 DEF NodeOf, Numbered
  <2> HIDE DEF n
  <2>4. FlowNode(n, t, days, Money(t.hi, t.units[1]))
    BY <1>3, <2>3, Zenon DEF FlowNode
  <2>5. TextNode(n, t, days)
    BY <1>1, <2>3, <2>4, Zenon DEF TextNode
  <2> QED BY <2>2, <2>5 DEF Sided
<1> QED BY <1>2, <1>3

LEMMA TodaysTexts ==
  ASSUME NEW t, NEW days, t.lo \in Int, t.hi \in Int, t.says \in OfToday
  PROVE  Sided(t, days)
<1>1. /\ Money(t.lo, t.units[1]) \in Int /\ Money(t.hi, t.units[2]) \in Int
      /\ Percent(t.lo) \in Int /\ Percent(t.hi) \in Int
  BY AmountsAreIntegers
<1>2. CASE t.says = "dead cross"
  <2> DEFINE n == NodeOf("dead cross", 0, 0, 0)
  <2>1. EntryNode(t) \cup ExitNode(t) = {n}
    BY <1>2 DEF EntryNode, ExitNode
  <2>2. Numbered(n) /\ n.id = "dead cross" /\ n.enabled = TRUE /\ n.lag = 0
    BY DEF NodeOf, Numbered
  <2> HIDE DEF n
  <2>3. TextNode(n, t, days)
    BY <1>2, <2>2, Zenon DEF TextNode
  <2> QED BY <2>1, <2>3 DEF Sided
<1>3. CASE t.says = "outflow today"
  <2> DEFINE n == NodeOf("flow today at most", 0, 0, 0)
  <2>1. EntryNode(t) \cup ExitNode(t) = {n}
    BY <1>3 DEF EntryNode, ExitNode
  <2>2. Numbered(n) /\ n.id = "flow today at most" /\ n.hi = 0 /\ n.enabled = TRUE /\ n.lag = 0
    BY DEF NodeOf, Numbered
  <2> HIDE DEF n
  <2>3. TextNode(n, t, days)
    BY <1>3, <2>2, Zenon DEF TextNode
  <2> QED BY <2>1, <2>3 DEF Sided
<1>4. CASE t.says \in {"market cap", "turnover", "rising ratio", "histogram"}
  <2>1. ASSUME NEW lo \in Int, NEW hi \in Int, EntryNode(t) \cup ExitNode(t) = {NodeOf(t.says, 0, lo, hi)},
               \A m : m.id = t.says /\ m.lo = lo /\ m.hi = hi => LevelNode(m, t)
        PROVE  Sided(t, days)
    <3> DEFINE n == NodeOf(t.says, 0, lo, hi)
    <3>2. Numbered(n) /\ n.id = t.says /\ n.lo = lo /\ n.hi = hi /\ n.enabled = TRUE /\ n.lag = 0
      BY DEF NodeOf, Numbered
    <3>3. EntryNode(t) \cup ExitNode(t) = {n}
      BY <2>1
    <3> HIDE DEF n
    <3>4. TextNode(n, t, days)
      <4>1. LevelNode(n, t)
        BY <2>1, <3>2, Zenon
      <4> QED BY <3>2, <4>1, Zenon DEF TextNode
    <3> QED BY <3>3, <3>4 DEF Sided
  <2>2. CASE t.says = "market cap"
    <3>1. EntryNode(t) \cup ExitNode(t)
            = {NodeOf(t.says, 0, Money(t.lo, t.units[1]), Money(t.hi, t.units[2]))}
      BY <2>2 DEF EntryNode, ExitNode
    <3>2. \A m : m.id = t.says /\ m.lo = Money(t.lo, t.units[1]) /\ m.hi = Money(t.hi, t.units[2])
                   => LevelNode(m, t)
      BY <2>2, Zenon DEF LevelNode
    <3> QED BY <1>1, <2>1, <3>1, <3>2
  <2>3. CASE t.says = "turnover"
    <3>1. EntryNode(t) \cup ExitNode(t) = {NodeOf(t.says, 0, Percent(t.lo), Percent(t.hi))}
      BY <2>3 DEF EntryNode, ExitNode
    <3>2. \A m : m.id = t.says /\ m.lo = Percent(t.lo) /\ m.hi = Percent(t.hi) => LevelNode(m, t)
      BY <2>3, Zenon DEF LevelNode
    <3> QED BY <1>1, <2>1, <3>1, <3>2
  <2>4. CASE t.says = "rising ratio"
    <3>1. EntryNode(t) \cup ExitNode(t) = {NodeOf(t.says, 0, Percent(t.lo), 0)}
      BY <2>4 DEF EntryNode, ExitNode
    <3>2. \A m : m.id = t.says /\ m.lo = Percent(t.lo) /\ m.hi = 0 => LevelNode(m, t)
      BY <2>4, Zenon DEF LevelNode
    <3> QED BY <1>1, <2>1, <3>1, <3>2
  <2>5. CASE t.says = "histogram"
    <3>1. EntryNode(t) \cup ExitNode(t) = {NodeOf(t.says, 0, t.lo, 0)}
      BY <2>5 DEF EntryNode, ExitNode
    <3>2. \A m : m.id = t.says /\ m.lo = t.lo /\ m.hi = 0 => LevelNode(m, t)
      BY <2>5, Zenon DEF LevelNode
    <3> QED BY <2>1, <3>1, <3>2
  <2> QED BY <1>4, <2>2, <2>3, <2>4, <2>5
<1> QED BY <1>2, <1>3, <1>4 DEF OfToday

LEMMA OfferedTexts ==
  ASSUME NEW t, NEW days, OfferedText(t, days)
  PROVE  /\ Sided(t, days)
         /\ t.window # <<>> => ParseWindow(t.window) = days
         /\ t.says \in OfDays => days \in Nat /\ days >= 1
<1>1. t.lo \in Int /\ t.hi \in Int
  BY DEF OfferedText
<1>2. CASE t.says \in OfDays /\ days \in Nat \ {0} /\ Reads(t.window, days)
  <2>1. ParseWindow(t.window) = days
    BY <1>2, NumeralsAreRead
  <2>2. days \in Nat /\ days >= 1
    BY <1>2
  <2>3. t.says \in AverageIds \cup ExtremeIds \cup ReturnIds \cup {"volume ratio"} \cup {"inflow", "outflow"}
    BY <1>2 DEF OfDays, AverageIds, ExtremeIds, ReturnIds
  <2>4. Sided(t, days)
    BY <1>1, <2>1, <2>2, <2>3, PlainTexts, ParameterTexts, AmountTexts
  <2> QED BY <2>1, <2>2, <2>4
<1>3. CASE t.says \in OfToday /\ t.window = <<>>
  <2>1. t.says \notin OfDays
    BY <1>3 DEF OfDays, OfToday
  <2> QED BY <1>1, <1>3, <2>1, TodaysTexts
<1> QED BY <1>2, <1>3 DEF OfferedText

\* The evaluator and the screen decide the nodes of a text as the text reads when the
\* limit is taken in.
LEMMA NodesMeanTheirTexts ==
  ASSUME NEW t, NEW days, t.lo \in Int, t.hi \in Int, t.says \in OfDays => days \in Nat /\ days >= 1,
         NEW rows, NEW i \in Nat, i >= 1, Len(rows) = i, \A j \in 1..i : TextRow(rows[j]),
         NEW n, TextNode(n, t, days)
  PROVE  /\ EvaluateCondition(n, rows, 1, i) <=> Loosely(t, days, rows)
         /\ Mask(n, rows, 1, i) <=> Loosely(t, days, rows)
<1>1. Numbered(n) /\ n.enabled = TRUE /\ n.lag = 0
  BY DEF TextNode
<1>2. \A j \in 1..i : rows[j] \in Bar /\ rows[j].volume \in Nat
  BY DEF TextRow
<1>3. i \in 1..i /\ rows[i] \in Bar /\ \A u, v \in rows[i].flow : u = v
  BY DEF TextRow
<1>4. Evaluate(n, rows, 1, i) <=> Mask(n, rows, 1, i)
  <2>1. 1 \in Nat /\ 1 >= 1 /\ i >= 1 /\ i \in Nat
    OBVIOUS
  <2>2. \A j \in 1..i : rows[j] \in Bar
    BY <1>2
  <2> QED BY <1>1, <2>1, <2>2, EvaluatorsAndMasksAgree, Zenon
<1>5. EvaluateCondition(n, rows, 1, i) <=> Evaluate(n, rows, 1, i)
  <2>1. i - n.lag = i
    BY <1>1
  <2> QED BY <1>1, <2>1 DEF EvaluateCondition
<1>6. Evaluate(n, rows, 1, i) <=> Loosely(t, days, rows)
  <2>1. CASE n.window = days /\ SaysAs(n, t) /\ t.says \in AverageIds
    <3>1. days \in Nat /\ days >= 1
      BY <2>1 DEF OfDays, AverageIds
    <3> QED BY <1>1, <1>2, <2>1, <3>1, AverageTexts
  <2>2. CASE n.window = days /\ SaysAs(n, t) /\ t.says \in ExtremeIds
    <3>1. days \in Nat /\ days >= 1
      BY <2>2 DEF OfDays, ExtremeIds
    <3> QED BY <1>1, <1>2, <2>2, <3>1, ExtremeTexts
  <2>3. CASE n.window = days /\ ReturnNode(n, t, t.lo, t.hi)
    <3>1. days \in Nat /\ days >= 1
      BY <2>3 DEF OfDays, ReturnIds, ReturnNode
    <3> QED BY <1>1, <1>2, <2>3, <3>1, ReturnTexts
  <2>4. CASE n.window = days /\ VolumeNode(n, t)
    <3>1. days \in Nat /\ days >= 1
      BY <2>4 DEF OfDays, VolumeNode
    <3> QED BY <1>1, <1>2, <2>4, <3>1, VolumeTexts
  <2>5. CASE n.window = days /\ \E amount \in Int : FlowNode(n, t, days, amount)
    <3>1. days \in Nat /\ days >= 1
      BY <2>5 DEF OfDays, FlowNode
    <3>2. PICK amount \in Int : FlowNode(n, t, days, amount)
      BY <2>5
    <3> QED BY <1>1, <1>2, <2>5, <3>1, <3>2, FlowTexts
  <2>6. CASE n.id = "dead cross" /\ t.says = "dead cross"
    BY <2>6, CrossTexts
  <2>7. CASE n.id = "flow today at most" /\ n.hi = 0 /\ t.says = "outflow today"
    <3>1. rows[i].flow \in SUBSET Int
      BY <1>3 DEF Bar
    <3> QED BY <2>7, <3>1, TodayTexts
  <2>8. CASE LevelNode(n, t)
    BY <1>3, <2>8, LevelTexts
  <2> QED BY <2>1, <2>2, <2>3, <2>4, <2>5, <2>6, <2>7, <2>8, Zenon DEF TextNode
<1> QED BY <1>4, <1>5, <1>6, Zenon

LEMMA OfferedTextsMeanWhatTheySay ==
  ASSUME NEW t, NEW days, OfferedText(t, days), NEW rows, NEW i \in Nat, Len(rows) = i,
         \A j \in 1..i : TextRow(rows[j]), rows # <<>> => i >= 1
  PROVE  TextsMeanWhatTheySay(t, days, rows)
<1>1. t.lo \in Int /\ t.hi \in Int
  BY DEF OfferedText
<1>2. Sided(t, days) /\ (t.window # <<>> => ParseWindow(t.window) = days)
      /\ (t.says \in OfDays => days \in Nat /\ days >= 1)
  BY OfferedTexts
<1>3. ASSUME NEW n \in EntryNode(t) \cup ExitNode(t), rows # <<>>, ~OnLimit(t, days, rows)
      PROVE  /\ EvaluateCondition(n, rows, 1, i) <=> Means(t, days, rows)
             /\ Mask(n, rows, 1, i) <=> Means(t, days, rows)
  <2>1. TextNode(n, t, days)
    BY <1>2 DEF Sided
  <2>2. /\ EvaluateCondition(n, rows, 1, i) <=> Loosely(t, days, rows)
        /\ Mask(n, rows, 1, i) <=> Loosely(t, days, rows)
    BY <1>1, <1>2, <1>3, <2>1, NodesMeanTheirTexts
  <2> QED BY <1>3, <2>2, LooselyOrOnLimit, Zenon
<1>4. ASSUME NEW n PROVE Screened(<<n>>, rows) <=> Mask(n, rows, 1, i)
  <2>1. DOMAIN <<n>> = {1} /\ <<n>>[1] = n
    OBVIOUS
  <2> QED BY <2>1, Zenon DEF Screened
<1>5. EntryNode(t) \cup ExitNode(t) # {}
  BY <1>2 DEF Sided
<1>6. ASSUME rows # <<>>, ~OnLimit(t, days, rows) PROVE DecidedAsItReads(t, days, rows)
  <2>1. \A n \in EntryNode(t) \cup ExitNode(t) :
          EvaluateCondition(n, rows, 1, Len(rows)) <=> Means(t, days, rows)
    BY <1>3, <1>6, Zenon
  <2>2. \A n \in EntryNode(t) : Screened(<<n>>, rows) <=> Means(t, days, rows)
    BY <1>3, <1>4, <1>6, Zenon
  <2> QED BY <2>1, <2>2, Zenon DEF DecidedAsItReads
<1> QED BY <1>2, <1>5, <1>6, Zenon DEF TextsMeanWhatTheySay

TextsState ==
  /\ "of" \in DOMAIN work
  /\ work.of = "text" =>
       /\ {"text", "days", "rows"} \subseteq DOMAIN work
       /\ OfferedText(work.text, work.days) /\ work.rows \in Seq(Bars)

LEMMA TextsStateBegins ==
  ASSUME Init
  PROVE  TextsState
<1> SUFFICES ASSUME work.of = "text" PROVE TextsState
  BY InitIsNamed DEF TextsState
<1>1. \E t \in Texts : work = [of |-> "text", text |-> t[1], days |-> t[2], rows |-> <<>>]
  <2>1. ASSUME SyncBegins PROVE work.of = "sync"
    BY <2>1 DEF SyncBegins
  <2>2. ASSUME DailyBegins PROVE work.of = "daily"
    BY <2>2 DEF DailyBegins
  <2>3. ~FetchBegins
    BY DEF FetchBegins
  <2>4. ~DataBegins
    BY <2>1, <2>2 DEF DataBegins
  <2>5. ~MarketBegins
    BY DEF MarketBegins
  <2>6. TextBegins
    BY <2>3, <2>4, <2>5 DEF Init
  <2> QED BY <2>6 DEF TextBegins
<1>2. PICK t \in Texts : work = [of |-> "text", text |-> t[1], days |-> t[2], rows |-> <<>>]
  BY <1>1
<1>3. /\ DOMAIN work = {"of", "text", "days", "rows"}
      /\ work.text = t[1] /\ work.days = t[2] /\ work.rows = <<>>
  BY <1>2
<1>4. <<>> \in Seq(Bars)
  OBVIOUS
<1>5. OfferedText(t[1], t[2])
  BY ProcedureAssumption
<1> QED BY <1>3, <1>4, <1>5 DEF TextsState

LEMMA TextsStateGoesOn ==
  ASSUME TextsState, [Next]_work
  PROVE  TextsState'
<1>1. "of" \in DOMAIN work /\ "of" \in DOMAIN work' /\ work'.of = work.of
  BY NextIsNamed DEF TextsState
<1>2. CASE work' = work
  BY <1>2 DEF TextsState
<1>3. CASE work' # work /\ work.of = "text"
  <2>1. \E bar \in Bars : work' = [work EXCEPT !.rows = Append(@, bar)]
    BY <1>1, <1>3
    DEF Next, SendRequest, AskForSlot, FetchBars, TryCombination, ReadPage, FetchFlow, FetchBatch,
        KeepRows, WriteRow, AppendRow, AskForBreadth, AskForSectors, RefreshPool, ReadLocal,
        WriteMemory, TakeTurn, SyncMarket, FetchDaily, LiveOn, FillFlow, Launch
  <2>2. PICK bar \in Bars : work' = [work EXCEPT !.rows = Append(@, bar)]
    BY <2>1
  <2>3. /\ {"text", "days", "rows"} \subseteq DOMAIN work
        /\ OfferedText(work.text, work.days) /\ work.rows \in Seq(Bars)
    BY <1>3 DEF TextsState
  <2>4. /\ DOMAIN work' = DOMAIN work /\ work'.text = work.text /\ work'.days = work.days
        /\ work'.rows = Append(work.rows, bar)
    BY <2>2, <2>3
  <2>5. work'.rows \in Seq(Bars)
    BY <2>3, <2>4
  <2>6. OfferedText(work'.text, work'.days)
    BY <2>3, <2>4
  <2> QED BY <1>1, <2>3, <2>4, <2>5, <2>6, Zenon DEF TextsState
<1>4. CASE work.of # "text"
  BY <1>1, <1>4 DEF TextsState
<1> QED BY <1>2, <1>3, <1>4

\* condition_parser.py and conditions.py: a text that one of the two sides offers as an
\* example is not refused by both; its numeral is read as the number it stands for; and the
\* evaluator and the screening tool decide it of a row as it reads, unless the row is on a
\* limit that the words leave out.
THEOREM TextsCorrect == Spec => []TextsAreDecided
<1>1. TextsState => TextsAreDecided
  <2> SUFFICES ASSUME TextsState, work.of = "text"
               PROVE  TextsMeanWhatTheySay(work.text, work.days, work.rows)
    BY DEF TextsAreDecided
  <2>1. OfferedText(work.text, work.days) /\ work.rows \in Seq(Bars)
    BY DEF TextsState
  <2>2. \A bar \in Bars : TextRow(bar)
    BY ProcedureAssumption DEF TextRow, Bar
  <2>3. Len(work.rows) \in Nat /\ \A j \in 1..Len(work.rows) : work.rows[j] \in Bars
    BY <2>1
  <2>4. work.rows # <<>> => Len(work.rows) >= 1
    BY <2>1
  <2> QED BY <2>1, <2>2, <2>3, <2>4, OfferedTextsMeanWhatTheySay
<1> QED BY <1>1, TextsStateBegins, TextsStateGoesOn, PTL DEF Spec

-----------------------------------------------------------------------------
(* RealtimeSources: yesterday's pool.                                       *)

Walks == [at : {"queued", "walking"}, day : 0..2, page : Nat, rows : Nat]
Pools == [pool : Nat, per : 1..PoolPage, declares : {"total", "pages", "nothing"}, day : 1..2,
          cache : [day : 0..2, of : 0..2, rows : Nat], aged : BOOLEAN, flight : BOOLEAN,
          walk : SUBSET Walks, asked : 0..2, shown : 0..2]

\* The rows of the pages read so far.
RowsOfPages(y, page) == IF page * y.per < y.pool THEN page * y.per ELSE y.pool

\* The walk under way has read its pages, and its day was a day of the service.
WalkIsTrue(y, w) ==
  /\ w \in Walks /\ y.walk = {w}
  /\ w.rows = RowsOfPages(y, w.page) /\ (w.at = "walking" => w.day # 0)
WalksAreTrue(y) == \A w \in y.walk : WalkIsTrue(y, w)

\* The pool is declared, or a page may hold as much as is asked.
Knowable(y) == y.declares # "nothing" \/ y.per >= PoolPage
PoolInv(y) == y \in Pools /\ PoolIsWhole(y) /\ WalksAreTrue(y)

LEMMA PoolBegins ==
  ASSUME NEW pool \in Nat, NEW per \in 1..PoolPage, NEW declares \in {"total", "pages", "nothing"}
  PROVE  PoolInv(NewPool(pool, per, declares))
<1> DEFINE y == NewPool(pool, per, declares)
<1>1. y \in Pools
  BY DEF NewPool, Pools
<1>2. PoolIsWhole(y) /\ WalksAreTrue(y)
  BY DEF NewPool, PoolIsWhole, WalksAreTrue
<1> QED BY <1>1, <1>2 DEF PoolInv

\* A page more.
LEMMA OnePageMore ==
  ASSUME NEW pool \in Nat, NEW per \in Nat, per >= 1, NEW page \in Nat,
         NEW rows, rows = IF page * per < pool THEN page * per ELSE pool,
         NEW left, left = pool - page * per,
         NEW served, served = IF left < 0 THEN 0 ELSE IF left > per THEN per ELSE left
  PROVE  /\ rows + served = IF (page + 1) * per < pool THEN (page + 1) * per ELSE pool
         /\ rows + served \in Nat /\ served \in Nat
         /\ rows + served >= pool => rows + served = pool
         /\ served < per => rows + served = pool
         /\ (page + 1) * per >= pool => rows + served = pool
<1> DEFINE q == page * per
<1>1. q \in Nat /\ (page + 1) * per = q + per
  OBVIOUS
<1> HIDE DEF q
<1>2. rows = (IF q < pool THEN q ELSE pool) /\ left = pool - q
  BY DEF q
<1>3. /\ rows + served = IF q + per < pool THEN q + per ELSE pool
      /\ rows + served \in Nat /\ served \in Nat
      /\ rows + served >= pool => rows + served = pool
      /\ served < per => rows + served = pool
      /\ q + per >= pool => rows + served = pool
  BY <1>1, <1>2
<1> QED BY <1>1, <1>3

\* Counting the pages of a pool.
LEMMA PagesHoldThePool ==
  ASSUME NEW pool \in Nat, NEW per \in Nat, per >= 1, NEW page \in Nat, page >= (pool + per - 1) \div per
  PROVE  page * per >= pool
<1> DEFINE d == (pool + per - 1) \div per
<1>1. pool + per - 1 \in Nat
  OBVIOUS
<1>2. d \in Int /\ d * per <= pool + per - 1 /\ pool + per - 1 < (d + 1) * per
  BY <1>1
<1>3. (d + 1) * per = d * per + per /\ d * per \in Int
  BY <1>2
<1>4. d * per >= pool
  BY <1>2, <1>3
<1>5. page * per >= d * per
  <2>1. page - d \in Nat
    BY <1>2
  <2>2. (page - d) * per \in Nat
    BY <2>1
  <2>3. page * per = (page - d) * per + d * per
    BY <1>2
  <2> HIDE DEF d
  <2> QED BY <1>3, <2>2, <2>3
<1> HIDE DEF d
<1> QED BY <1>3, <1>4, <1>5

LEMMA PollKeepsPool ==
  ASSUME NEW y, PoolInv(y), NEW z \in PollPool(y)
  PROVE  PoolInv(z)
<1> DEFINE has == y.cache.day = y.day
           seen == [y EXCEPT !.asked = y.day, !.shown = IF has THEN y.cache.of ELSE 0]
           w == [at |-> "queued", day |-> 0, page |-> 0, rows |-> 0]
           started == [seen EXCEPT !.flight = TRUE, !.walk = {w}]
<1>1. y \in Pools /\ PoolIsWhole(y) /\ WalksAreTrue(y)
  BY DEF PoolInv
<1>2. seen \in Pools /\ PoolIsWhole(seen)
  <2>1. seen \in Pools
    <3>1. y.cache.of \in 0..2 /\ y.day \in 0..2
      BY <1>1 DEF Pools
    <3>2. (IF has THEN y.cache.of ELSE 0) \in 0..2
      BY <3>1
    <3> HIDE DEF has
    <3> QED BY <1>1, <3>1, <3>2 DEF Pools
  <2>2. /\ seen.cache = y.cache /\ seen.declares = y.declares /\ seen.per = y.per /\ seen.pool = y.pool
        /\ seen.flight = y.flight /\ seen.walk = y.walk
        /\ seen.asked = y.day /\ seen.shown = IF has THEN y.cache.of ELSE 0
    BY <1>1 DEF Pools
  <2> HIDE DEF seen
  <2> QED BY <1>1, <2>1, <2>2 DEF PoolIsWhole
<1>3. WalksAreTrue(seen)
  <2>1. seen.walk = y.walk /\ seen.per = y.per /\ seen.pool = y.pool
    BY <1>1 DEF Pools
  <2> HIDE DEF seen
  <2> QED BY <1>1, <2>1 DEF WalksAreTrue, WalkIsTrue, RowsOfPages
<1>4. PoolInv(started)
  <2>1. w \in Walks
    BY DEF Walks
  <2>2. started \in Pools
    BY <1>2, <2>1 DEF Pools
  <2>3. /\ started.cache = seen.cache /\ started.declares = seen.declares /\ started.per = seen.per
        /\ started.pool = seen.pool /\ started.flight = TRUE /\ started.walk = {w}
        /\ started.asked = seen.asked /\ started.shown = seen.shown
    BY <1>2 DEF Pools
  <2>4. started.per \in Nat /\ started.pool \in Nat
    <3>1. \A p \in 1..PoolPage : p \in Nat
      BY SourceAssumption
    <3>2. started.per \in 1..PoolPage /\ started.pool \in Nat
      BY <2>2 DEF Pools
    <3> QED BY <3>1, <3>2
  <2>5. w.at = "queued" /\ w.page = 0 /\ w.rows = 0
    OBVIOUS
  <2> HIDE DEF seen, w, started
  <2>6. PoolIsWhole(started)
    BY <1>2, <2>3 DEF PoolIsWhole
  <2>7. WalkIsTrue(started, w)
    <3>1. 0 * started.per = 0
      BY <2>4
    <3>2. RowsOfPages(started, 0) = 0
      BY <2>4, <3>1 DEF RowsOfPages
    <3> QED BY <2>1, <2>3, <2>5, <3>2 DEF WalkIsTrue
  <2> QED BY <2>2, <2>3, <2>6, <2>7 DEF PoolInv, WalksAreTrue
<1>5. z \in {seen, started}
  BY DEF PollPool
<1>6. PoolInv(seen)
  BY <1>2, <1>3 DEF PoolInv
<1> HIDE DEF seen, started
<1> QED BY <1>4, <1>5, <1>6

LEMMA WalkKeepsPool ==
  ASSUME NEW y, PoolInv(y), NEW w \in y.walk,
         NEW z, z \in IF w.at = "queued" THEN {StartWalk(y, w)} ELSE ReadPoolPage(y, w)
  PROVE  PoolInv(z)
<1>1. y \in Pools /\ PoolIsWhole(y) /\ WalkIsTrue(y, w)
  BY DEF PoolInv, WalksAreTrue
<1>2. PoolInv(Released(y))
  <2> DEFINE r == Released(y)
  <2>1. r \in Pools
    BY <1>1 DEF Pools, Released
  <2>2. /\ r.cache = y.cache /\ r.declares = y.declares /\ r.per = y.per /\ r.pool = y.pool
        /\ r.flight = FALSE /\ r.walk = {} /\ r.asked = y.asked /\ r.shown = y.shown
    BY <1>1 DEF Pools, Released
  <2> HIDE DEF r
  <2>3. PoolIsWhole(r)
    BY <1>1, <2>2 DEF PoolIsWhole
  <2>4. WalksAreTrue(r)
    BY <2>2 DEF WalksAreTrue
  <2> QED BY <2>1, <2>3, <2>4 DEF PoolInv, r
<1>3. CASE w.at = "queued"
  <2> DEFINE v == [w EXCEPT !.at = "walking", !.day = y.day]
             s == [y EXCEPT !.walk = {v}]
  <2>1. v \in Walks /\ v.at = "walking" /\ v.day = y.day /\ v.page = w.page /\ v.rows = w.rows /\ v.day # 0
    <3>1. w \in Walks
      BY <1>1 DEF WalkIsTrue
    <3>2. y.day \in 0..2 /\ y.day # 0
      BY <1>1 DEF Pools
    <3> QED BY <3>1, <3>2 DEF Walks
  <2>2. s \in Pools
    BY <1>1, <2>1 DEF Pools
  <2>3. /\ s.cache = y.cache /\ s.declares = y.declares /\ s.per = y.per /\ s.pool = y.pool
        /\ s.flight = y.flight /\ s.walk = {v} /\ s.asked = y.asked /\ s.shown = y.shown
    BY <1>1 DEF Pools
  <2>4. z \in {Released(y), s}
    BY <1>3 DEF StartWalk, Released
  <2> HIDE DEF v, s
  <2>5. PoolIsWhole(s)
    BY <1>1, <2>3 DEF PoolIsWhole
  <2>6. WalkIsTrue(s, v)
    BY <1>1, <2>1, <2>3 DEF WalkIsTrue, RowsOfPages
  <2>7. PoolInv(s)
    BY <2>2, <2>3, <2>5, <2>6 DEF PoolInv, WalksAreTrue
  <2> QED BY <1>2, <2>4, <2>7
<1>4. CASE w.at # "queued"
  <2> DEFINE left == y.pool - w.page * y.per
             served == IF left < 0 THEN 0 ELSE IF left > y.per THEN y.per ELSE left
             read == [w EXCEPT !.page = @ + 1, !.rows = @ + served]
             more == CASE y.declares = "total" -> read.rows < y.pool
                       [] y.declares = "pages" -> read.page < PageCounts(y)
                       [] OTHER -> served >= PoolPage
             on == [y EXCEPT !.walk = {read}]
             kept == Cached(y, read)
  <2>1. z = Released(y) \/ (more /\ z = on) \/ (~more /\ z = kept)
    BY <1>4 DEF ReadPoolPage
  <2>2. /\ y.pool \in Nat /\ y.per \in Nat /\ y.per >= 1 /\ y.per <= PoolPage
        /\ y.declares \in {"total", "pages", "nothing"}
    BY <1>1 DEF Pools
  <2>3. w.page \in Nat /\ w.rows \in Nat /\ w.day \in 0..2 /\ w.at = "walking" /\ w.day # 0
    BY <1>1, <1>4 DEF Walks, WalkIsTrue
  <2>4. w.rows = IF w.page * y.per < y.pool THEN w.page * y.per ELSE y.pool
    BY <1>1 DEF WalkIsTrue, RowsOfPages
  <2> HIDE DEF left
  <2>5. left = y.pool - w.page * y.per
    BY DEF left
  <2> HIDE DEF served
  <2>6. served = IF left < 0 THEN 0 ELSE IF left > y.per THEN y.per ELSE left
    BY DEF served
  <2>7. /\ w.rows + served = IF (w.page + 1) * y.per < y.pool THEN (w.page + 1) * y.per ELSE y.pool
        /\ w.rows + served \in Nat /\ served \in Nat
        /\ w.rows + served >= y.pool => w.rows + served = y.pool
        /\ served < y.per => w.rows + served = y.pool
        /\ (w.page + 1) * y.per >= y.pool => w.rows + served = y.pool
    BY <2>2, <2>3, <2>4, <2>5, <2>6, OnePageMore
  <2>8. /\ read.at = w.at /\ read.day = w.day /\ read.page = w.page + 1 /\ read.rows = w.rows + served
        /\ read \in Walks
    <3>1. w \in Walks
      BY <1>1 DEF WalkIsTrue
    <3>2. w.page + 1 \in Nat
      BY <2>3
    <3> QED BY <2>7, <3>1, <3>2 DEF Walks
  <2> HIDE DEF read
  <2>9. PoolInv(on)
    <3>1. on \in Pools
      BY <1>1, <2>8 DEF Pools
    <3>2. /\ on.cache = y.cache /\ on.declares = y.declares /\ on.per = y.per /\ on.pool = y.pool
          /\ on.flight = y.flight /\ on.walk = {read} /\ on.asked = y.asked /\ on.shown = y.shown
      BY <1>1 DEF Pools
    <3> HIDE DEF on
    <3>3. PoolIsWhole(on)
      BY <1>1, <3>2 DEF PoolIsWhole
    <3>4. WalkIsTrue(on, read)
      <4>1. read.rows = RowsOfPages(on, read.page)
        BY <2>7, <2>8, <3>2, Zenon DEF RowsOfPages
      <4> QED BY <2>3, <2>8, <3>2, <4>1 DEF WalkIsTrue
    <3> QED BY <3>1, <3>2, <3>3, <3>4 DEF PoolInv, WalksAreTrue
  <2>10. ASSUME ~more PROVE PoolInv(kept)
    <3>1. Knowable(y) => read.rows = y.pool
      <4>1. CASE y.declares = "total"
        <5>1. ~(read.rows < y.pool)
          BY <2>10, <4>1
        <5>2. read.rows \in Nat
          BY <2>7, <2>8
        <5> QED BY <2>2, <2>7, <2>8, <5>1, <5>2
      <4>2. CASE y.declares = "pages"
        <5>1. ~(w.page + 1 < (y.pool + y.per - 1) \div y.per)
          BY <2>8, <2>10, <4>2 DEF PageCounts
        <5>2. (y.pool + y.per - 1) \div y.per \in Int /\ w.page + 1 \in Nat
          BY <2>2, <2>3
        <5>3. w.page + 1 >= (y.pool + y.per - 1) \div y.per
          BY <5>1, <5>2
        <5>4. (w.page + 1) * y.per >= y.pool
          BY <2>2, <5>2, <5>3, PagesHoldThePool
        <5> QED BY <2>7, <2>8, <5>4
      <4>3. CASE y.declares = "nothing"
        <5>1. ~(served >= PoolPage)
          BY <2>10, <4>3
        <5>2. PoolPage \in Nat
          BY SourceAssumption
        <5>3. Knowable(y) => served < y.per
          BY <2>2, <2>7, <4>3, <5>1, <5>2 DEF Knowable
        <5> QED BY <2>7, <2>8, <5>3
      <4> QED BY <2>2, <4>1, <4>2, <4>3
    <3>2. kept \in Pools
      BY <1>1, <2>3, <2>7, <2>8 DEF Pools, Cached, Released
    <3>3. /\ kept.declares = y.declares /\ kept.per = y.per /\ kept.pool = y.pool
          /\ kept.cache = [day |-> read.day, of |-> read.day, rows |-> read.rows]
          /\ kept.flight = FALSE /\ kept.walk = {} /\ kept.asked = y.asked /\ kept.shown = y.shown
      BY <1>1 DEF Pools, Cached, Released
    <3> HIDE DEF kept
    <3>4. kept.cache.day = read.day /\ kept.cache.of = read.day /\ kept.cache.rows = read.rows
      BY <3>3
    <3>5. PoolIsWhole(kept)
      BY <1>1, <3>1, <3>3, <3>4 DEF PoolIsWhole, Knowable
    <3> QED BY <3>2, <3>3, <3>5 DEF PoolInv, WalksAreTrue
  <2> HIDE DEF more, on, kept
  <2> QED BY <1>2, <2>1, <2>9, <2>10
<1> QED BY <1>3, <1>4

LEMMA PoolGoesOn ==
  ASSUME NEW y, PoolInv(y), NEW z \in PoolSteps(y)
  PROVE  PoolInv(z)
<1>1. y \in Pools /\ PoolIsWhole(y) /\ WalksAreTrue(y)
  BY DEF PoolInv
<1>2. CASE z \in PollPool(y)
  BY <1>2, PollKeepsPool
<1>3. ASSUME z.pool = y.pool, z.per = y.per, z.declares = y.declares, z.cache = y.cache, z.flight = y.flight,
             z.walk = y.walk, z.asked = y.asked, z.shown = y.shown, z \in Pools
      PROVE  PoolInv(z)
  BY <1>1, <1>3 DEF PoolInv, PoolIsWhole, WalksAreTrue, WalkIsTrue, RowsOfPages
<1>4. CASE z = [y EXCEPT !.aged = TRUE]
  BY <1>1, <1>3, <1>4 DEF Pools
<1>5. CASE z = [y EXCEPT !.day = 2]
  BY <1>1, <1>3, <1>5 DEF Pools
<1>6. CASE \E w \in y.walk : z \in IF w.at = "queued" THEN {StartWalk(y, w)} ELSE ReadPoolPage(y, w)
  BY <1>6, WalkKeepsPool
<1>7. z \in PollPool(y) \/ z = [y EXCEPT !.aged = TRUE] \/ z = [y EXCEPT !.day = 2]
      \/ \E w \in y.walk : z \in IF w.at = "queued" THEN {StartWalk(y, w)} ELSE ReadPoolPage(y, w)
  BY DEF PoolSteps
<1> QED BY <1>2, <1>4, <1>5, <1>6, <1>7

-----------------------------------------------------------------------------
(* RealtimeSources: sequences in an order.                                  *)

StrictOrder(S, R) ==
  /\ \A i \in S : <<i, i>> \notin R
  /\ \A i, j \in S : i # j => <<i, j>> \in R \/ <<j, i>> \in R
  /\ \A i, j, k \in S : <<i, j>> \in R /\ <<j, k>> \in R => <<i, k>> \in R
Below(S, R, i) == {j \in S : <<j, i>> \in R}

\* The ranks of a finite set are the numbers below its size.
LEMMA RanksInOrder ==
  ASSUME NEW S, IsFiniteSet(S), NEW R, StrictOrder(S, R)
  PROVE  /\ Cardinality(S) \in Nat
         /\ \A i, j \in S : <<i, j>> \in R => Cardinality(Below(S, R, i)) < Cardinality(Below(S, R, j))
         /\ \A i \in S : Cardinality(Below(S, R, i)) \in 0..(Cardinality(S) - 1)
         /\ \A k \in 1..Cardinality(S) : \E i \in S : Cardinality(Below(S, R, i)) = k - 1
<1> DEFINE n == Cardinality(S)
           rank == [i \in S |-> Cardinality(Below(S, R, i))]
<1>1. n \in Nat
  BY FS_CardinalityType
<1>2. ASSUME NEW i \in S
      PROVE  /\ IsFiniteSet(Below(S, R, i)) /\ i \notin Below(S, R, i) /\ Below(S, R, i) \subseteq S
             /\ Cardinality(Below(S, R, i)) \in 0..(n - 1)
  <2>1. i \notin Below(S, R, i) /\ Below(S, R, i) \subseteq S \ {i}
    BY DEF Below, StrictOrder
  <2>2. IsFiniteSet(S \ {i}) /\ Cardinality(S \ {i}) = n - 1
    BY FS_RemoveElement
  <2>3. IsFiniteSet(Below(S, R, i)) /\ Cardinality(Below(S, R, i)) <= n - 1
    BY <2>1, <2>2, FS_Subset
  <2>4. Cardinality(Below(S, R, i)) \in Nat
    BY <2>3, FS_CardinalityType
  <2> HIDE DEF n
  <2> QED BY <1>1, <2>1, <2>3, <2>4
<1>3. ASSUME NEW i \in S, NEW j \in S, <<i, j>> \in R
      PROVE  Cardinality(Below(S, R, i)) < Cardinality(Below(S, R, j))
  <2>1. Below(S, R, i) \cup {i} \subseteq Below(S, R, j)
    BY <1>3 DEF Below, StrictOrder
  <2>2. /\ IsFiniteSet(Below(S, R, i) \cup {i})
        /\ Cardinality(Below(S, R, i) \cup {i}) = Cardinality(Below(S, R, i)) + 1
    BY <1>2, FS_AddElement
  <2>3. Cardinality(Below(S, R, i) \cup {i}) <= Cardinality(Below(S, R, j))
    BY <1>2, <2>1, FS_Subset
  <2>4. Cardinality(Below(S, R, i)) \in Int /\ Cardinality(Below(S, R, j)) \in Int
    BY <1>2
  <2> QED BY <2>2, <2>3, <2>4
<1>4. rank \in Injection(S, 0..(n - 1))
  <2>1. rank \in [S -> 0..(n - 1)]
    BY <1>2
  <2>2. ASSUME NEW i \in S, NEW j \in S, rank[i] = rank[j] PROVE i = j
    <3>1. Cardinality(Below(S, R, i)) = Cardinality(Below(S, R, j)) /\ Cardinality(Below(S, R, i)) \in Int
      BY <1>2, <2>2
    <3>2. <<i, j>> \notin R /\ <<j, i>> \notin R
      BY <1>3, <3>1
    <3> QED BY <3>2 DEF StrictOrder
  <2> HIDE DEF rank
  <2>3. IsInjective(rank)
    BY <2>1, <2>2 DEF IsInjective
  <2> QED BY <2>1, <2>3 DEF Injection
<1>5. rank \in Surjection(S, 0..(n - 1))
  <2>1. IsFiniteSet(0..(n - 1)) /\ Cardinality(0..(n - 1)) = n
    <3> HIDE DEF n
    <3>1. 0 \in Int /\ n - 1 \in Int
      BY <1>1
    <3>2. /\ IsFiniteSet(0..(n - 1))
          /\ Cardinality(0..(n - 1)) = IF 0 > n - 1 THEN 0 ELSE (n - 1) - 0 + 1
      BY <3>1, FS_Interval
    <3> QED BY <1>1, <3>2
  <2> HIDE DEF rank
  <2> QED BY <1>4, <2>1, FS_Injection
<1>6. ASSUME NEW k \in 1..n PROVE \E i \in S : Cardinality(Below(S, R, i)) = k - 1
  <2>1. k - 1 \in 0..(n - 1)
    BY <1>1
  <2>2. \E i \in S : rank[i] = k - 1
    <3> HIDE DEF rank
    <3> QED BY <1>5, <2>1 DEF Surjection
  <2> QED BY <2>2
<1> QED BY <1>1, <1>2, <1>3, <1>6

\* What stands at each place of a set in order.
OrderOf(S, R) == [k \in 1..Cardinality(S) |-> CHOOSE i \in S : Cardinality(Below(S, R, i)) = k - 1]

LEMMA SetInOrder ==
  ASSUME NEW S, IsFiniteSet(S), NEW R, StrictOrder(S, R)
  PROVE  /\ Cardinality(S) \in Nat /\ OrderOf(S, R) \in [1..Cardinality(S) -> S]
         /\ \A i \in S : \E k \in 1..Cardinality(S) : OrderOf(S, R)[k] = i
         /\ \A k, l \in 1..Cardinality(S) : k < l => <<OrderOf(S, R)[k], OrderOf(S, R)[l]>> \in R
<1> DEFINE n == Cardinality(S)
           o == OrderOf(S, R)
           rank(i) == Cardinality(Below(S, R, i))
<1>1. /\ n \in Nat
      /\ \A i, j \in S : <<i, j>> \in R => rank(i) < rank(j)
      /\ \A i \in S : rank(i) \in 0..(n - 1)
      /\ \A k \in 1..n : \E i \in S : rank(i) = k - 1
  BY RanksInOrder
<1>2. ASSUME NEW k \in 1..n PROVE o[k] \in S /\ rank(o[k]) = k - 1
  <2>1. o[k] = CHOOSE i \in S : rank(i) = k - 1
    BY DEF OrderOf
  <2> HIDE DEF o, rank
  <2> QED BY <1>1, <2>1
<1>3. o \in [1..n -> S]
  <2>1. o = [k \in 1..n |-> o[k]]
    BY DEF OrderOf
  <2> HIDE DEF o
  <2> QED BY <1>2, <2>1
<1> HIDE DEF o, n, rank
<1>4. ASSUME NEW i \in S PROVE \E k \in 1..n : o[k] = i
  <2> DEFINE k == rank(i) + 1
  <2>1. k \in 1..n /\ k - 1 = rank(i)
    BY <1>1
  <2> HIDE DEF k
  <2>2. o[k] \in S /\ rank(o[k]) = rank(i)
    BY <1>2, <2>1
  <2>3. o[k] = i
    <3>1. rank(i) \in Int /\ ~(rank(i) < rank(o[k])) /\ ~(rank(o[k]) < rank(i))
      BY <1>1, <2>2
    <3>2. <<i, o[k]>> \notin R /\ <<o[k], i>> \notin R
      BY <1>1, <2>2, <3>1
    <3> QED BY <2>2, <3>2 DEF StrictOrder
  <2> QED BY <2>1, <2>3
<1>5. ASSUME NEW k \in 1..n, NEW l \in 1..n, k < l PROVE <<o[k], o[l]>> \in R
  <2>1. o[k] \in S /\ o[l] \in S /\ rank(o[k]) = k - 1 /\ rank(o[l]) = l - 1
    BY <1>2
  <2>2. ~(rank(o[l]) < rank(o[k])) /\ rank(o[k]) # rank(o[l])
    BY <1>5, <2>1
  <2>3. <<o[l], o[k]>> \notin R /\ o[k] # o[l]
    BY <1>1, <2>1, <2>2
  <2> QED BY <2>1, <2>3 DEF StrictOrder
<1> QED BY <1>1, <1>3, <1>4, <1>5 DEF o, n

\* Positions in their order.
LEMMA PositionsInOrder ==
  ASSUME NEW P, IsFiniteSet(P), P \subseteq Int
  PROVE  LET o == Ordered(P, LAMBDA i, j : i < j)
         IN  /\ Cardinality(P) \in Nat /\ o \in [1..Cardinality(P) -> P]
             /\ \A i \in P : \E k \in 1..Cardinality(P) : o[k] = i
             /\ \A k, l \in 1..Cardinality(P) : k < l => o[k] < o[l]
<1> DEFINE R == {p \in P \X P : p[1] < p[2]}
           o == Ordered(P, LAMBDA i, j : i < j)
<1>1. \A i, j \in P : <<i, j>> \in R <=> i < j
  OBVIOUS
<1>2. \A i \in P : {j \in P : j < i} = Below(P, R, i)
  BY DEF Below
<1> HIDE DEF R
<1>3. StrictOrder(P, R)
  BY <1>1 DEF StrictOrder
<1>4. o = OrderOf(P, R)
  <2> DEFINE A(k) == CHOOSE i \in P : Cardinality({j \in P : j < i}) = k - 1
             B(k) == CHOOSE i \in P : Cardinality(Below(P, R, i)) = k - 1
  <2>1. \A k : A(k) = B(k)
    BY <1>2
  <2>2. o = [k \in 1..Cardinality(P) |-> A(k)]
    BY DEF Ordered
  <2>3. OrderOf(P, R) = [k \in 1..Cardinality(P) |-> B(k)]
    BY DEF OrderOf
  <2> HIDE DEF A, B, o
  <2> QED BY <2>1, <2>2, <2>3
<1> HIDE DEF o
<1>5. /\ Cardinality(P) \in Nat /\ o \in [1..Cardinality(P) -> P]
      /\ \A i \in P : \E k \in 1..Cardinality(P) : o[k] = i
      /\ \A k, l \in 1..Cardinality(P) : k < l => <<o[k], o[l]>> \in R
  BY <1>3, <1>4, SetInOrder
<1>6. \A k, l \in 1..Cardinality(P) : k < l => o[k] < o[l]
  BY <1>1, <1>5
<1> QED BY <1>5, <1>6 DEF o

\* The elements of a sequence at some positions: each of them once, and in order.
AreAt(s, seq, P, n, o) ==
  /\ n \in Nat /\ o \in [1..n -> P] /\ s = [k \in 1..n |-> seq[o[k]]] /\ Len(s) = n
  /\ \A i \in P : \E k \in 1..n : o[k] = i
  /\ \A k, l \in 1..n : k < l => o[k] < o[l]

LEMMA AtPositions ==
  ASSUME NEW seq, NEW P, IsFiniteSet(P), P \subseteq Int
  PROVE  \E n, o : AreAt(At(seq, P), seq, P, n, o)
<1> DEFINE n == Cardinality(P)
           o == Ordered(P, LAMBDA i, j : i < j)
<1>1. /\ n \in Nat /\ o \in [1..n -> P]
      /\ \A i \in P : \E k \in 1..n : o[k] = i
      /\ \A k, l \in 1..n : k < l => o[k] < o[l]
  BY PositionsInOrder
<1>2. At(seq, P) = [k \in DOMAIN o |-> seq[o[k]]]
  BY DEF At
<1> HIDE DEF o, n
<1>3. At(seq, P) = [k \in 1..n |-> seq[o[k]]]
  BY <1>1, <1>2
<1>4. Len(At(seq, P)) = n
  <2>1. [k \in 1..n |-> seq[o[k]]] \in Seq({seq[o[k]] : k \in 1..n})
    BY <1>1
  <2> QED BY <1>1, <1>3, <2>1
<1>5. AreAt(At(seq, P), seq, P, n, o)
  BY <1>1, <1>3, <1>4 DEF AreAt
<1> QED BY <1>5

-----------------------------------------------------------------------------
(* RealtimeSources: the pages of the industry table.                        *)

\* A finite set put in an order is what its relation puts in order.
CellBefore(c, d) == c[1] < d[1] \/ (c[1] = d[1] /\ c[2] < d[2])

LEMMA CellsInOrder ==
  ASSUME NEW S, IsFiniteSet(S), S \subseteq Int \X Int
  PROVE  LET o == Ordered(S, LAMBDA c, d : CellBefore(c, d))
         IN  Cardinality(S) \in Nat /\ o \in [1..Cardinality(S) -> S]
<1> DEFINE R == {p \in S \X S : CellBefore(p[1], p[2])}
           o == Ordered(S, LAMBDA c, d : CellBefore(c, d))
<1>1. \A c, d \in S : <<c, d>> \in R <=> CellBefore(c, d)
  OBVIOUS
<1>2. \A c \in S : {d \in S : CellBefore(d, c)} = Below(S, R, c)
  BY DEF Below
<1> HIDE DEF R
<1>3. \A c \in S : c[1] \in Int /\ c[2] \in Int /\ c = <<c[1], c[2]>>
  OBVIOUS
<1>4. StrictOrder(S, R)
  <2>1. \A c \in S : ~CellBefore(c, c)
    BY <1>3 DEF CellBefore
  <2>2. \A c, d \in S : c # d => CellBefore(c, d) \/ CellBefore(d, c)
    <3> SUFFICES ASSUME NEW c \in S, NEW d \in S, c # d PROVE CellBefore(c, d) \/ CellBefore(d, c)
      OBVIOUS
    <3>1. c[1] # d[1] \/ c[2] # d[2]
      BY <1>3, Zenon
    <3> QED BY <1>3, <3>1 DEF CellBefore
  <2>3. \A c, d, e \in S : CellBefore(c, d) /\ CellBefore(d, e) => CellBefore(c, e)
    BY <1>3 DEF CellBefore
  <2> QED BY <1>1, <2>1, <2>2, <2>3 DEF StrictOrder
<1>5. o = OrderOf(S, R)
  <2> DEFINE A(k) == CHOOSE c \in S : Cardinality({d \in S : CellBefore(d, c)}) = k - 1
             B(k) == CHOOSE c \in S : Cardinality(Below(S, R, c)) = k - 1
  <2>1. \A k : A(k) = B(k)
    BY <1>2
  <2>2. o = [k \in 1..Cardinality(S) |-> A(k)]
    BY DEF Ordered
  <2>3. OrderOf(S, R) = [k \in 1..Cardinality(S) |-> B(k)]
    BY DEF OrderOf
  <2> HIDE DEF A, B, o
  <2> QED BY <2>1, <2>2, <2>3
<1> HIDE DEF o
<1>6. Cardinality(S) \in Nat /\ o \in [1..Cardinality(S) -> S]
  BY <1>4, <1>5, SetInOrder
<1> QED BY <1>6 DEF o

\* What is read of the table is rows of its pages.
LEMMA IndustryRowsAreBoards ==
  ASSUME NEW pages \in SeqOf(Pages, 2)
  PROVE  \E n \in Nat : IndustryRows(pages) \in [1..n -> Boards]
<1> DEFINE cells == UNION {{p} \X DOMAIN pages[p] : p \in DOMAIN pages}
           Row(c) == pages[c[1]][c[2]]
           new == {c \in cells : Row(c).name # "" /\ \A d \in cells : CellBefore(d, c) => Row(d).name # Row(c).name}
           over == {p \in DOMAIN pages : \A c \in new : c[1] # p}
           taken == {c \in new : \A p \in over : c[1] < p}
           o == Ordered(taken, LAMBDA c, d : CellBefore(c, d))
<1>1. PICK m \in 0..2 : pages \in [1..m -> Pages]
  BY DEF SeqOf
<1>2. ASSUME NEW p \in 1..m PROVE \E q \in 0..2 : pages[p] \in [1..q -> Boards]
  <2>1. pages[p] \in Pages
    BY <1>1
  <2> QED BY <2>1 DEF Pages, SeqOf
<1>3. \A c \in cells : /\ c \in (1..2) \X (1..2) /\ Row(c) \in Boards
  <2> SUFFICES ASSUME NEW c \in cells PROVE c \in (1..2) \X (1..2) /\ Row(c) \in Boards
    OBVIOUS
  <2>1. PICK p \in 1..m : c \in {p} \X DOMAIN pages[p]
    BY <1>1
  <2>2. PICK q \in 0..2 : pages[p] \in [1..q -> Boards]
    BY <1>2
  <2>3. c[1] = p /\ c[2] \in 1..q /\ c = <<c[1], c[2]>>
    BY <2>1, <2>2
  <2>4. p \in 1..2 /\ c[2] \in 1..2
    BY <2>3
  <2>5. pages[p][c[2]] \in Boards
    BY <2>2, <2>3
  <2> QED BY <2>3, <2>4, <2>5
<1> HIDE DEF cells, Row
<1>4. IsFiniteSet(taken) /\ taken \subseteq cells /\ taken \subseteq Int \X Int
  <2>1. taken \subseteq cells
    OBVIOUS
  <2>2. IsFiniteSet((1..2) \X (1..2))
    <3>1. 1 \in Int /\ 2 \in Int
      OBVIOUS
    <3>2. IsFiniteSet(1..2)
      BY <3>1, FS_Interval
    <3> QED BY <3>2, FS_Product
  <2> HIDE DEF taken
  <2>3. taken \subseteq (1..2) \X (1..2)
    BY <1>3, <2>1
  <2>4. IsFiniteSet(taken)
    BY <2>2, <2>3, FS_Subset
  <2> QED BY <2>1, <2>3, <2>4
<1>5. IndustryRows(pages) = [k \in DOMAIN o |-> Row(o[k])]
  BY DEF IndustryRows, cells, Row, CellBefore
<1> HIDE DEF taken
<1>6. Cardinality(taken) \in Nat /\ o \in [1..Cardinality(taken) -> taken]
  BY <1>4, CellsInOrder
<1> HIDE DEF o
<1>7. \A k \in 1..Cardinality(taken) : Row(o[k]) \in Boards
  BY <1>3, <1>4, <1>6
<1>8. IndustryRows(pages) \in [1..Cardinality(taken) -> Boards]
  BY <1>5, <1>6, <1>7
<1> QED BY <1>6, <1>8

-----------------------------------------------------------------------------
(* RealtimeSources: the chain of the breadth.                               *)

\* What a source may make of its answer: nothing, or three numbers of its own.
IsAnswer(a, source) ==
  a = NoBreadth \/ \E up, down, flat \in Nat : a = Breadth(source, up, down, flat)

LEMMA NumbersAreOptional ==
  ASSUME NEW set \in Optional(Small)
  PROVE  OrZero(set) \in Nat
<1>1. set = {} \/ \E x \in Small : set = {x}
  BY DEF Optional
<1>2. CASE set = {}
  BY <1>2 DEF OrZero
<1>3. CASE \E x \in Small : set = {x}
  <2>1. PICK x \in Small : set = {x}
    BY <1>3
  <2>2. (CHOOSE y \in {x} : TRUE) = x
    OBVIOUS
  <2>3. x \in Nat
    BY DEF Small
  <2> QED BY <2>1, <2>2, <2>3 DEF OrZero
<1> QED BY <1>1, <1>2, <1>3

\* The rows of the industry table count stocks.
LEMMA RowsAreCounted ==
  ASSUME NEW n \in Nat, NEW rows \in [1..n -> Boards]
  PROVE  /\ RowSum(rows, LAMBDA row : row.up) \in Nat
         /\ RowSum(rows, LAMBDA row : row.down) \in Nat
<1> DEFINE ups == [i \in DOMAIN rows |-> rows[i].up]
           downs == [i \in DOMAIN rows |-> rows[i].down]
<1>1. DOMAIN rows = 1..n /\ \A i \in 1..n : rows[i] \in Boards
  OBVIOUS
<1>2. IsFiniteSet(1..n)
  BY FS_Interval
<1>3. \A i \in 1..n : ups[i] \in Nat /\ downs[i] \in Nat
  BY <1>1, SourceAssumption
<1>4. SumFunctionOnSet(ups, DOMAIN ups) \in Nat /\ SumFunctionOnSet(downs, DOMAIN downs) \in Nat
  <2>1. DOMAIN ups = 1..n /\ DOMAIN downs = 1..n
    BY <1>1
  <2> HIDE DEF ups, downs
  <2>2. SumOn(ups, 1..n) \in Nat /\ SumOn(downs, 1..n) \in Nat
    BY <1>2, <1>3, SumIsNat
  <2> QED BY <2>1, <2>2 DEF SumOn
<1> QED BY <1>4 DEF RowSum, SumFunction

LEMMA SummaryIsAnswer ==
  ASSUME NEW page, page = {} \/ \E p \in Small \X Small \X Small : page = {p}, NEW known \in Nat,
         NEW n \in Nat, NEW rows \in [1..n -> Boards]
  PROVE  IsAnswer(SummaryBreadth(page, rows, known), "summary")
<1>1. CASE page # {}
  <2>1. PICK p \in Small \X Small \X Small : page = {p}
    BY <1>1
  <2>2. (CHOOSE q \in page : TRUE) = p
    BY <2>1
  <2>3. p[1] \in Nat /\ p[2] \in Nat /\ p[3] \in Nat
    BY DEF Small
  <2>4. SummaryBreadth(page, rows, known) = Breadth("summary", p[1], p[2], p[3])
    BY <1>1, <2>2 DEF SummaryBreadth
  <2> QED BY <2>3, <2>4 DEF IsAnswer
<1>2. CASE page = {}
  <2> DEFINE up == RowSum(rows, LAMBDA row : row.up)
             down == RowSum(rows, LAMBDA row : row.down)
             flat == IF known >= up + down THEN known - up - down ELSE 0
  <2>1. up \in Nat /\ down \in Nat
    BY RowsAreCounted
  <2>2. SummaryBreadth(page, rows, known) \in {NoBreadth, Breadth("summary", up, down, flat)}
    BY <1>2 DEF SummaryBreadth
  <2> HIDE DEF up, down
  <2>3. flat \in Nat
    BY <2>1
  <2> HIDE DEF flat
  <2> QED BY <2>1, <2>2, <2>3 DEF IsAnswer
<1> QED BY <1>1, <1>2

LEMMA FlashIsAnswer ==
  ASSUME NEW cookie \in BOOLEAN, NEW answers \in SeqOf(FlashReplies, 2)
  PROVE  IsAnswer(FlashBreadth(cookie, answers), "flash")
<1> DEFINE usable == {i \in DOMAIN answers : answers[i] # <<>>}
           taken == {i \in usable : \A j \in usable : i <= j}
           c == CHOOSE i \in taken : TRUE
           a == answers[c]
<1>1. PICK m \in 0..2 : answers \in [1..m -> FlashReplies]
  BY DEF SeqOf
<1>2. ASSUME taken # {} PROVE a[1] \in Nat /\ a[2] \in Nat
  <2>1. c \in taken
    BY <1>2
  <2>2. c \in 1..m /\ a # <<>>
    BY <1>1, <2>1
  <2>3. a \in Small \X Small
    BY <1>1, <2>2 DEF FlashReplies
  <2> HIDE DEF a
  <2> QED BY <2>3 DEF Small
<1>3. \/ FlashBreadth(cookie, answers) = NoBreadth
      \/ taken # {} /\ FlashBreadth(cookie, answers) = Breadth("flash", a[1], a[2], 0)
  BY DEF FlashBreadth
<1> HIDE DEF taken, a
<1> QED BY <1>2, <1>3 DEF IsAnswer

LEMMA FrameIsAnswer ==
  ASSUME NEW source, NEW rows \in SeqOf(Directions, MaxCount)
  PROVE  IsAnswer(FrameBreadth(source, rows), source)
<1> DEFINE Those(d) == Cardinality({i \in DOMAIN rows : rows[i] = d})
<1>1. PICK m \in Nat : rows \in [1..m -> Directions]
  <2>1. PICK m \in 0..MaxCount : rows \in [1..m -> Directions]
    BY DEF SeqOf
  <2> QED BY <2>1
<1>2. \A d : Those(d) \in Nat
  <2> SUFFICES ASSUME NEW d PROVE Those(d) \in Nat
    OBVIOUS
  <2>1. IsFiniteSet(1..m)
    BY FS_Interval
  <2>2. {i \in DOMAIN rows : rows[i] = d} \subseteq 1..m
    BY <1>1
  <2> QED BY <2>1, <2>2, FS_Subset, FS_CardinalityType
<1>3. \/ FrameBreadth(source, rows) = NoBreadth
      \/ FrameBreadth(source, rows) = Breadth(source, Those("up"), Those("down"), Those("flat"))
  BY DEF FrameBreadth
<1> HIDE DEF Those
<1> QED BY <1>2, <1>3 DEF IsAnswer

LEMMA AnswersAreOfTheSource ==
  ASSUME NEW b, b.stocks \in Nat, NEW source, NEW a \in Answers(b, source)
  PROVE  IsAnswer(a, source)
<1>1. CASE a = NoBreadth
  BY <1>1 DEF IsAnswer
<1>2. CASE a # NoBreadth /\ source = "cls"
  <2>1. PICK u \in Optional(Small), d \in Optional(Small), f \in Optional(Small) : a = FromDistribution(u, d, f)
    BY <1>2 DEF Answers
  <2>2. a = Breadth("cls", OrZero(u), OrZero(d), OrZero(f))
    BY <1>2, <2>1 DEF FromDistribution
  <2> QED BY <1>2, <2>2, NumbersAreOptional DEF IsAnswer
<1>3. CASE a # NoBreadth /\ source = "summary"
  <2>1. \/ \E p \in Small \X Small \X Small : a = SummaryBreadth({p}, <<>>, b.stocks)
        \/ \E pages \in SeqOf(Pages, 2) : a = SummaryBreadth({}, IndustryRows(pages), b.stocks)
    <3> DEFINE Those == {SummaryBreadth({p}, <<>>, b.stocks) : p \in Small \X Small \X Small}
               Sums == {SummaryBreadth({}, IndustryRows(pages), b.stocks) : pages \in SeqOf(Pages, 2)}
    <3>1. Answers(b, "summary") = {NoBreadth} \cup (Those \cup Sums)
      BY DEF Answers
    <3>2. a \in Those \/ a \in Sums
      BY <1>3, <3>1
    <3> QED BY <3>2
  <2>2. ASSUME NEW p \in Small \X Small \X Small, a = SummaryBreadth({p}, <<>>, b.stocks)
        PROVE  IsAnswer(a, source)
    <3>1. <<>> \in [1..0 -> Boards] /\ 0 \in Nat
      OBVIOUS
    <3> QED BY <1>3, <2>2, <3>1, SummaryIsAnswer
  <2>3. ASSUME NEW pages \in SeqOf(Pages, 2), a = SummaryBreadth({}, IndustryRows(pages), b.stocks)
        PROVE  IsAnswer(a, source)
    <3>1. PICK n \in Nat : IndustryRows(pages) \in [1..n -> Boards]
      BY IndustryRowsAreBoards
    <3> QED BY <1>3, <2>3, <3>1, SummaryIsAnswer
  <2> QED BY <2>1, <2>2, <2>3
<1>4. CASE a # NoBreadth /\ source = "flash"
  <2>1. \E cookie \in BOOLEAN, answers \in SeqOf(FlashReplies, 2) : a = FlashBreadth(cookie, answers)
    BY <1>4 DEF Answers
  <2> QED BY <1>4, <2>1, FlashIsAnswer
<1>5. CASE a # NoBreadth /\ source \in {"akshare", "eastmoney"}
  <2>1. \E rows \in SeqOf(Directions, MaxCount) : a = FrameBreadth(source, rows)
    BY <1>5 DEF Answers
  <2> QED BY <2>1, FrameIsAnswer
<1>6. CASE a # NoBreadth /\ source \notin {"cls", "summary", "flash", "akshare", "eastmoney"}
  <2>1. \E u \in Small, d \in Small : a = Breadth(source, u, d, 0)
    BY <1>6 DEF Answers
  <2>2. Small \subseteq Nat /\ 0 \in Nat
    BY DEF Small
  <2> QED BY <2>1, <2>2 DEF IsAnswer
<1> QED BY <1>1, <1>2, <1>3, <1>4, <1>5, <1>6

\* What a batch of quotes says of a stock.
Directed == {"none", "up", "down", "flat"}
AreQuotes(q, source) ==
  /\ DOMAIN q = {"source", "batch", "of"} /\ q.source = source /\ q.of \in [Listed -> Directed]

LEMMA NewQuotesAreQuotes ==
  ASSUME NEW source
  PROVE  AreQuotes(NewQuotes(source), source)
BY DEF AreQuotes, NewQuotes, Directed

LEMMA ReadQuotesAreQuotes ==
  ASSUME NEW q, NEW source, AreQuotes(q, source),
         NEW quotes \in Quotes(q)
  PROVE  AreQuotes(ReadBatch(q, quotes), source)
<1> DEFINE of == [s \in Listed |-> IF s \in DOMAIN quotes THEN Direction(q.source, quotes[s]) ELSE q.of[s]]
<1>1. \A x \in {"up", "down", "flat", "zero", "bad"} : Direction(q.source, x) \in Directed
  BY DEF Direction, Directed
<1>2. of \in [Listed -> Directed]
  BY <1>1 DEF AreQuotes, Quotes
<1>3. ReadBatch(q, quotes) = [q EXCEPT !.batch = q.batch + 1, !.of = of]
  BY DEF ReadBatch
<1> HIDE DEF of
<1> QED BY <1>2, <1>3 DEF AreQuotes

\* A stock is counted once.
LEMMA QuotesAreCounted ==
  ASSUME NEW q, NEW source, AreQuotes(q, source)
  PROVE  /\ IsAnswer(QuotesBreadth(q), source)
         /\ QuotesBreadth(q) # NoBreadth =>
              QuotesBreadth(q).total = Cardinality({s \in Listed : q.of[s] # "none"})
<1> DEFINE Those(d) == {s \in Listed : q.of[s] = d}
           counted == {s \in Listed : q.of[s] # "none"}
<1>1. IsFiniteSet(Listed) /\ q.source = source
  BY SourceAssumption DEF AreQuotes
<1>2. ASSUME NEW d PROVE IsFiniteSet(Those(d)) /\ Cardinality(Those(d)) \in Nat
  BY <1>1, FS_Subset, FS_CardinalityType
<1>3. /\ counted = (Those("up") \cup Those("down")) \cup Those("flat")
      /\ (Those("up") \cup Those("down")) \cap Those("flat") = {} /\ Those("up") \cap Those("down") = {}
  BY DEF AreQuotes, Directed
<1> DEFINE up == Those("up")
           down == Those("down")
           flat == Those("flat")
<1>4. /\ IsFiniteSet(up) /\ IsFiniteSet(down) /\ IsFiniteSet(flat)
      /\ Cardinality(up) \in Nat /\ Cardinality(down) \in Nat /\ Cardinality(flat) \in Nat
  BY <1>2
<1>5. /\ QuotesBreadth(q) = NoBreadth
      \/ QuotesBreadth(q) = Breadth(source, Cardinality(up), Cardinality(down), Cardinality(flat))
  BY <1>1 DEF QuotesBreadth, Quoted
<1> HIDE DEF counted, Those, up, down, flat
<1>6. Cardinality(counted) = Cardinality(up) + Cardinality(down) + Cardinality(flat)
  <2>1. /\ IsFiniteSet(up \cup down) /\ Cardinality(up \cup down) = Cardinality(up) + Cardinality(down)
    <3>1. Cardinality(up \cap down) = 0
      BY <1>3, FS_EmptySet DEF up, down
    <3>2. /\ IsFiniteSet(up \cup down)
          /\ Cardinality(up \cup down) = Cardinality(up) + Cardinality(down) - Cardinality(up \cap down)
      BY <1>4, FS_Union
    <3> QED BY <1>4, <3>1, <3>2
  <2>2. Cardinality((up \cup down) \cup flat) = Cardinality(up \cup down) + Cardinality(flat)
    <3>1. Cardinality((up \cup down) \cap flat) = 0
      BY <1>3, FS_EmptySet DEF up, down, flat
    <3>2. Cardinality(up \cup down) \in Nat
      BY <1>4, <2>1
    <3>3. Cardinality((up \cup down) \cup flat)
            = Cardinality(up \cup down) + Cardinality(flat) - Cardinality((up \cup down) \cap flat)
      BY <1>4, <2>1, FS_Union
    <3> QED BY <1>4, <3>1, <3>2, <3>3
  <2>3. counted = (up \cup down) \cup flat
    BY <1>3 DEF up, down, flat
  <2> QED BY <2>1, <2>2, <2>3
<1>7. Breadth(source, Cardinality(up), Cardinality(down), Cardinality(flat)).total
        = Cardinality(up) + Cardinality(down) + Cardinality(flat)
  BY DEF Breadth
<1> QED BY <1>4, <1>5, <1>6, <1>7 DEF IsAnswer, counted

-----------------------------------------------------------------------------
BreadthFields == {"at", "order", "next", "late", "stocks", "cached", "known", "quotes", "got"}

\* The source asked last, within the budget, is the one the chain is at.
BreadthInv(b) ==
  /\ DOMAIN b = BreadthFields /\ b.at \in {"asking", "quoting", "done"} /\ b.next \in Nat /\ b.stocks \in Nat
  /\ \A i \in b.late : i \in Nat /\ (b.at = "quoting" => b.next <= i)
  /\ b.at # "done" => b.got = NoBreadth
  /\ b.at = "quoting" => AreQuotes(b.quotes, BreadthSource(b)) /\ BreadthSource(b) \in {"sina", "tencent"}
  /\ BreadthIsWhole(b)

LEMMA BreadthBegins ==
  ASSUME NEW backup \in BOOLEAN, NEW stocks \in Nat, NEW cached
  PROVE  BreadthInv(NewBreadth(backup, stocks, cached))
BY DEF NewBreadth, BreadthInv, BreadthFields, BreadthIsWhole

\* An answer that is taken ends the chain at its source; any other is passed over.
LEMMA WeighedAnswers ==
  ASSUME NEW b, DOMAIN b = BreadthFields, b.next \in Nat, NEW a, NEW source, IsAnswer(a, source)
  PROVE  LET z == Weigh(b, a) IN
         /\ DOMAIN z = BreadthFields /\ z.order = b.order /\ z.late = b.late /\ z.stocks = b.stocks
         /\ z.quotes = b.quotes
         /\ \/ z.at = b.at /\ z.next = b.next + 1 /\ z.got = b.got
            \/ /\ z.at = "done" /\ z.next = b.next /\ z.got = a /\ a # NoBreadth
               /\ a.total > 0 /\ (source # "cls" => a.total >= MinTotal)
               /\ a.source = source /\ a.total = a.up + a.down + a.flat /\ a.flat >= 0
<1> DEFINE z == Weigh(b, a)
           taken == [b EXCEPT !.at = "done", !.got = a]
           over == [b EXCEPT !.next = @ + 1]
           known == IF b.known # {} THEN b.known ELSE {IF b.cached > b.stocks THEN b.cached ELSE b.stocks}
           overWith == [b EXCEPT !.next = @ + 1, !.known = known]
           takenWith == [taken EXCEPT !.known = known]
<1>1. a # NoBreadth => /\ a.source = source /\ a.total = a.up + a.down + a.flat
                       /\ a.flat >= 0 /\ a.total \in Nat
  BY DEF IsAnswer, Breadth
<1>3. MinTotal \in Nat /\ MinTotal > 0
  BY SourceAssumption
<1>4. /\ a = NoBreadth => z = over
      /\ a # NoBreadth /\ ~(a.source = "cls" /\ a.total > 0) /\ ~(a.total >= MinTotal) => z = overWith
      /\ a # NoBreadth /\ ((a.source = "cls" /\ a.total > 0) \/ a.total >= MinTotal) => z = taken \/ z = takenWith
  <2> DEFINE full == FullMarket(a, CHOOSE n \in known : TRUE)
  <2>1. z = IF a = NoBreadth THEN over
            ELSE IF (a.source = "cls" /\ a.total > 0) \/ a.total >= MinTotal THEN taken
            ELSE IF full THEN takenWith ELSE overWith
    BY DEF Weigh
  <2>2. full => a.total >= MinTotal
    BY DEF FullMarket
  <2> HIDE DEF z, taken, over, overWith, takenWith, known, full
  <2> QED BY <2>1, <2>2
<1>5. ASSUME z = over \/ z = overWith
      PROVE  /\ DOMAIN z = BreadthFields /\ z.order = b.order /\ z.late = b.late /\ z.stocks = b.stocks
             /\ z.quotes = b.quotes /\ z.at = b.at /\ z.next = b.next + 1 /\ z.got = b.got
  <2> HIDE DEF z, known
  <2> QED BY <1>5 DEF BreadthFields
<1>6. ASSUME z = taken \/ z = takenWith
      PROVE  /\ DOMAIN z = BreadthFields /\ z.order = b.order /\ z.late = b.late /\ z.stocks = b.stocks
             /\ z.quotes = b.quotes /\ z.at = "done" /\ z.next = b.next /\ z.got = a
  <2> HIDE DEF z, known
  <2> QED BY <1>6 DEF BreadthFields
<1> HIDE DEF z, taken, over, overWith, takenWith
<1>7. CASE a # NoBreadth /\ ((a.source = "cls" /\ a.total > 0) \/ a.total >= MinTotal)
  <2>1. z = taken \/ z = takenWith
    BY <1>4, <1>7
  <2>2. a.total > 0 /\ (source # "cls" => a.total >= MinTotal)
    BY <1>1, <1>3, <1>7
  <2> QED BY <1>1, <1>6, <1>7, <2>1, <2>2 DEF z
<1>8. CASE ~(a # NoBreadth /\ ((a.source = "cls" /\ a.total > 0) \/ a.total >= MinTotal))
  <2>1. z = over \/ z = overWith
    BY <1>4, <1>8
  <2> QED BY <1>5, <2>1 DEF z
<1> QED BY <1>7, <1>8

\* The step of a chain at each of its places.
IsBreadthStep(b, z) ==
  LET source == BreadthSource(b)
      over == [b EXCEPT !.at = "asking", !.quotes = NewQuotes("none")]
      late == IF b.late = {} THEN {{}, {b.next}} ELSE {b.late}
      weighed == Weigh(over, QuotesBreadth(b.quotes)) IN
  \/ b.at = "asking" /\ z = [b EXCEPT !.at = "done"]
  \/ /\ b.at = "asking" /\ b.late = {} /\ source \notin {"sina", "tencent"}
     /\ \E a \in Answers(b, source), l \in late : z = [Weigh(b, a) EXCEPT !.late = l]
  \/ b.at = "asking" /\ b.late = {} /\ z = [b EXCEPT !.next = @ + 1]
  \/ /\ b.at = "asking" /\ b.late = {} /\ source \in {"sina", "tencent"}
     /\ z = [b EXCEPT !.at = "quoting", !.quotes = NewQuotes(source)]
  \/ /\ b.at = "quoting" /\ b.quotes.batch = Batches
     /\ z = IF weighed.at = "done" THEN [weighed EXCEPT !.quotes = b.quotes] ELSE weighed
  \/ b.at = "quoting" /\ \E l \in late : z = Dropped(b, l)
  \/ /\ b.at = "quoting"
     /\ \E quotes \in Quotes(b.quotes), l \in late :
          z = Quoting(b, quotes, l)

LEMMA StepsOfTheBreadth ==
  ASSUME NEW b, b.at \in {"asking", "quoting", "done"}, NEW z \in BreadthSteps(b)
  PROVE  IsBreadthStep(b, z)
<1> DEFINE source == BreadthSource(b)
           over == [b EXCEPT !.at = "asking", !.quotes = NewQuotes("none")]
           late == IF b.late = {} THEN {{}, {b.next}} ELSE {b.late}
           weighed == Weigh(over, QuotesBreadth(b.quotes))
           S1 == {[b EXCEPT !.at = "done"]}
           S2 == {[Weigh(b, a) EXCEPT !.late = l] : a \in Answers(b, source), l \in late}
           S3 == IF b.stocks = 0 THEN {[b EXCEPT !.next = @ + 1]}
                 ELSE {[b EXCEPT !.at = "quoting", !.quotes = NewQuotes(source)]}
           S4 == {IF weighed.at = "done" THEN [weighed EXCEPT !.quotes = b.quotes] ELSE weighed}
           S5 == {Dropped(b, l) : l \in late}
           S6 == {Quoting(b, quotes, l) :
                    quotes \in Quotes(b.quotes), l \in late}
           ended == b.next > Len(b.order) \/ b.late # {}
           quoting == source \in {"sina", "tencent"}
<1>1. CASE b.at = "done"
  <2>1. BreadthSteps(b) = {}
    BY <1>1 DEF BreadthSteps
  <2> QED BY <2>1
<1>2. CASE b.at = "asking" /\ ended
  <2>1. BreadthSteps(b) = S1
    BY <1>2 DEF BreadthSteps
  <2> QED BY <1>2, <2>1 DEF IsBreadthStep
<1>3. CASE b.at = "asking" /\ ~ended /\ ~quoting
  <2>1. \E a \in Answers(b, source), l \in late : z = [Weigh(b, a) EXCEPT !.late = l]
    BY <1>3 DEF BreadthSteps
  <2> QED BY <1>3, <2>1 DEF IsBreadthStep
<1>4. CASE b.at = "asking" /\ ~ended /\ quoting
  <2>1. BreadthSteps(b) = S3
    BY <1>4 DEF BreadthSteps
  <2> QED BY <1>4, <2>1 DEF IsBreadthStep
<1>5. CASE b.at = "quoting" /\ b.quotes.batch = Batches
  <2>1. BreadthSteps(b) = S4
    BY <1>5 DEF BreadthSteps
  <2> QED BY <1>5, <2>1 DEF IsBreadthStep
<1>6. CASE b.at = "quoting" /\ b.quotes.batch # Batches
  <2>1. z \in S5 \/ z \in S6
    BY <1>6 DEF BreadthSteps
  <2>2. z \in S5 => \E l \in late : z = Dropped(b, l)
    OBVIOUS
  <2>3. z \in S6 => \E quotes \in Quotes(b.quotes), l \in late :
                     z = Quoting(b, quotes, l)
    OBVIOUS
  <2> HIDE DEF S5, S6
  <2> QED BY <1>6, <2>1, <2>2, <2>3 DEF IsBreadthStep
<1> QED BY <1>1, <1>2, <1>3, <1>4, <1>5, <1>6

LEMMA BreadthGoesOn ==
  ASSUME NEW b, BreadthInv(b), NEW z \in BreadthSteps(b)
  PROVE  BreadthInv(z)
<1> DEFINE source == BreadthSource(b)
           over == [b EXCEPT !.at = "asking", !.quotes = NewQuotes("none")]
           late == IF b.late = {} THEN {{}, {b.next}} ELSE {b.late}
           weighed == Weigh(over, QuotesBreadth(b.quotes))
<1>1. /\ DOMAIN b = BreadthFields /\ b.at \in {"asking", "quoting", "done"} /\ b.next \in Nat /\ b.stocks \in Nat
      /\ \A i \in b.late : i \in Nat /\ b.next <= i + 1 /\ (b.at = "quoting" => b.next <= i)
      /\ b.at # "done" => b.got = NoBreadth
      /\ b.at = "quoting" => AreQuotes(b.quotes, source) /\ source \in {"sina", "tencent"}
      /\ BreadthIsWhole(b)
  BY DEF BreadthInv, BreadthIsWhole
<1>2. \A l \in late : \A i \in l : i \in Nat /\ b.next <= i + 1 /\ (b.late = {} \/ b.at = "quoting" => b.next <= i)
  BY <1>1
\* A chain that goes on has nothing to show.
<1>3. ASSUME DOMAIN z = BreadthFields, z.at \in {"asking", "quoting", "done"}, z.next \in Nat, z.stocks = b.stocks,
             \A i \in z.late : i \in Nat /\ z.next <= i + 1 /\ (z.at = "quoting" => z.next <= i),
             z.at = "quoting" => AreQuotes(z.quotes, BreadthSource(z)) /\ BreadthSource(z) \in {"sina", "tencent"},
             z.got = NoBreadth
      PROVE  BreadthInv(z)
  BY <1>1, <1>3 DEF BreadthInv, BreadthIsWhole
<1>4. CASE b.at = "asking" /\ z = [b EXCEPT !.at = "done"]
  <2>1. /\ DOMAIN z = BreadthFields /\ z.at = "done" /\ z.next = b.next /\ z.stocks = b.stocks /\ z.late = b.late
        /\ z.got = NoBreadth
    BY <1>1, <1>4 DEF BreadthFields
  <2> QED BY <1>1, <1>3, <2>1
<1>5. CASE /\ b.at = "asking" /\ b.late = {} /\ source \notin {"sina", "tencent"}
           /\ \E a \in Answers(b, source), l \in late : z = [Weigh(b, a) EXCEPT !.late = l]
  <2>1. PICK a \in Answers(b, source), l \in late : z = [Weigh(b, a) EXCEPT !.late = l]
    BY <1>5
  <2>2. IsAnswer(a, source)
    BY <1>1, AnswersAreOfTheSource
  <2> DEFINE w == Weigh(b, a)
  <2> HIDE DEF source, w
  <2>3. /\ DOMAIN w = BreadthFields /\ w.order = b.order /\ w.late = b.late /\ w.stocks = b.stocks
        /\ \/ w.at = b.at /\ w.next = b.next + 1 /\ w.got = b.got
           \/ /\ w.at = "done" /\ w.next = b.next /\ w.got = a /\ a # NoBreadth
              /\ a.total > 0 /\ (source # "cls" => a.total >= MinTotal)
              /\ a.source = source /\ a.total = a.up + a.down + a.flat /\ a.flat >= 0
    BY <1>1, <2>2, WeighedAnswers DEF w
  <2>4. /\ DOMAIN z = BreadthFields /\ z.order = w.order /\ z.late = l /\ z.stocks = w.stocks
        /\ z.at = w.at /\ z.next = w.next /\ z.got = w.got
    BY <2>1, <2>3 DEF BreadthFields, w
  <2>5. \A i \in l : i \in Nat /\ b.next <= i
    BY <1>2, <1>5
  <2>6. CASE w.at = b.at /\ w.next = b.next + 1 /\ w.got = b.got
    <3>1. z.at = "asking" /\ z.next = b.next + 1 /\ z.got = NoBreadth /\ z.stocks = b.stocks
      BY <1>1, <1>5, <2>3, <2>4, <2>6
    <3>2. z.next \in Nat /\ \A i \in z.late : i \in Nat /\ z.next <= i + 1
      BY <1>1, <2>4, <2>5, <3>1
    <3> QED BY <1>3, <2>4, <3>1, <3>2
  <2>7. CASE ~(w.at = b.at /\ w.next = b.next + 1 /\ w.got = b.got)
    <3>1. /\ z.at = "done" /\ z.next = b.next /\ z.stocks = b.stocks /\ z.got = a /\ z.order = b.order /\ z.late = l
          /\ DOMAIN z = BreadthFields /\ a.total > 0 /\ (source # "cls" => a.total >= MinTotal)
          /\ a.source = source /\ a.total = a.up + a.down + a.flat /\ a.flat >= 0
      BY <2>3, <2>4, <2>7
    <3>2. z.order[z.next] = source
      BY <3>1 DEF source, BreadthSource
    <3>3. \A i \in z.late : i \in Nat /\ z.next <= i + 1
      BY <1>1, <2>5, <3>1
    <3>4. BreadthIsWhole(z)
      BY <1>5, <3>1, <3>2, <3>3 DEF BreadthIsWhole
    <3> QED BY <1>1, <3>1, <3>3, <3>4 DEF BreadthInv
  <2> QED BY <2>6, <2>7
<1>6. CASE b.at = "asking" /\ b.late = {} /\ z = [b EXCEPT !.next = @ + 1]
  <2>1. /\ DOMAIN z = BreadthFields /\ z.at = "asking" /\ z.next = b.next + 1 /\ z.stocks = b.stocks /\ z.late = {}
        /\ z.got = NoBreadth
    BY <1>1, <1>6 DEF BreadthFields
  <2> QED BY <1>1, <1>3, <2>1
<1>7. CASE /\ b.at = "asking" /\ b.late = {} /\ source \in {"sina", "tencent"}
           /\ z = [b EXCEPT !.at = "quoting", !.quotes = NewQuotes(source)]
  <2>1. /\ DOMAIN z = BreadthFields /\ z.at = "quoting" /\ z.next = b.next /\ z.stocks = b.stocks /\ z.late = {}
        /\ z.got = NoBreadth /\ z.quotes = NewQuotes(source) /\ z.order = b.order
    BY <1>1, <1>7 DEF BreadthFields
  <2>2. BreadthSource(z) = source /\ AreQuotes(z.quotes, source)
    BY <2>1, NewQuotesAreQuotes DEF BreadthSource
  <2> QED BY <1>1, <1>3, <1>7, <2>1, <2>2
<1>8. CASE /\ b.at = "quoting" /\ b.quotes.batch = Batches
           /\ z = IF weighed.at = "done" THEN [weighed EXCEPT !.quotes = b.quotes] ELSE weighed
  <2> DEFINE a == QuotesBreadth(b.quotes)
  <2>1. IsAnswer(a, source) /\ (a # NoBreadth => a.total = Cardinality({s \in Listed : b.quotes.of[s] # "none"}))
    BY <1>1, <1>8, QuotesAreCounted
  <2>2. /\ DOMAIN over = BreadthFields /\ over.order = b.order /\ over.late = b.late /\ over.stocks = b.stocks
        /\ over.at = "asking" /\ over.next = b.next /\ over.got = NoBreadth
    BY <1>1, <1>8 DEF BreadthFields
  <2> HIDE DEF source, weighed, over, a
  <2>3. /\ DOMAIN weighed = BreadthFields /\ weighed.order = b.order /\ weighed.late = b.late
        /\ weighed.stocks = b.stocks
        /\ \/ weighed.at = "asking" /\ weighed.next = b.next + 1 /\ weighed.got = NoBreadth
           \/ /\ weighed.at = "done" /\ weighed.next = b.next /\ weighed.got = a /\ a # NoBreadth
              /\ a.total > 0 /\ (source # "cls" => a.total >= MinTotal)
              /\ a.source = source /\ a.total = a.up + a.down + a.flat /\ a.flat >= 0
    BY <1>1, <2>1, <2>2, WeighedAnswers DEF weighed, a
  <2>4. CASE weighed.at = "asking"
    <3>1. z = weighed /\ weighed.next = b.next + 1 /\ weighed.got = NoBreadth
      BY <1>8, <2>3, <2>4
    <3>2. z.next \in Nat /\ \A i \in z.late : i \in Nat /\ z.next <= i + 1
      BY <1>1, <1>8, <2>3, <3>1
    <3> QED BY <1>3, <2>3, <2>4, <3>1, <3>2
  <2>5. CASE weighed.at = "done"
    <3>1. z = [weighed EXCEPT !.quotes = b.quotes]
      BY <1>8, <2>5
    <3>2. /\ DOMAIN z = BreadthFields /\ z.order = b.order /\ z.late = b.late /\ z.stocks = b.stocks
          /\ z.at = "done" /\ z.next = b.next /\ z.got = a /\ z.quotes = b.quotes
      BY <2>3, <2>5, <3>1 DEF BreadthFields
    <3>3. /\ a # NoBreadth /\ a.total > 0 /\ (source # "cls" => a.total >= MinTotal)
          /\ a.source = source /\ a.total = a.up + a.down + a.flat /\ a.flat >= 0
      BY <2>3, <2>5
    <3>4. z.order[z.next] = source
      BY <3>2 DEF source, BreadthSource
    <3>5. z.quotes.source = source /\ z.quotes.batch = Batches
      BY <1>1, <1>8, <3>2 DEF AreQuotes
    <3>6. \A i \in z.late : i \in Nat /\ z.next <= i + 1
      BY <1>1, <3>2
    <3>7. a.total = Cardinality({s \in Listed : z.quotes.of[s] # "none"})
      BY <2>1, <3>2, <3>3
    <3>8. BreadthIsWhole(z)
      BY <3>2, <3>3, <3>4, <3>5, <3>6, <3>7 DEF BreadthIsWhole
    <3> QED BY <1>1, <3>2, <3>6, <3>8 DEF BreadthInv
  <2> QED BY <2>3, <2>4, <2>5
<1>9. CASE b.at = "quoting" /\ \E l \in late : z = Dropped(b, l)
  <2>1. PICK l \in late : z = Dropped(b, l)
    BY <1>9
  <2>2. /\ DOMAIN z = BreadthFields /\ z.at = "asking" /\ z.next = b.next + 1 /\ z.stocks = b.stocks /\ z.late = l
        /\ z.got = NoBreadth
    BY <1>1, <1>9, <2>1 DEF BreadthFields, Dropped
  <2>3. z.next \in Nat /\ \A i \in z.late : i \in Nat /\ z.next <= i + 1
    BY <1>1, <1>2, <1>9, <2>2
  <2> QED BY <1>3, <2>2, <2>3
<1>10. CASE /\ b.at = "quoting"
            /\ \E quotes \in Quotes(b.quotes), l \in late : z = Quoting(b, quotes, l)
  <2>1. PICK quotes \in Quotes(b.quotes), l \in late : z = Quoting(b, quotes, l)
    BY <1>10
  <2>2. /\ DOMAIN z = BreadthFields /\ z.at = "quoting" /\ z.next = b.next /\ z.stocks = b.stocks /\ z.late = l
        /\ z.got = NoBreadth /\ z.quotes = ReadBatch(b.quotes, quotes) /\ z.order = b.order
    BY <1>1, <1>10, <2>1 DEF BreadthFields, Quoting
  <2>3. AreQuotes(z.quotes, source)
    BY <1>1, <1>10, <2>2, ReadQuotesAreQuotes
  <2>4. BreadthSource(z) = source
    BY <2>2 DEF BreadthSource
  <2>5. \A i \in z.late : i \in Nat /\ z.next <= i + 1 /\ z.next <= i
    BY <1>1, <1>2, <1>10, <2>2
  <2> HIDE DEF source
  <2> QED BY <1>1, <1>3, <1>10, <2>2, <2>3, <2>4, <2>5
<1>11. \/ b.at = "asking" /\ z = [b EXCEPT !.at = "done"]
       \/ /\ b.at = "asking" /\ b.late = {} /\ source \notin {"sina", "tencent"}
          /\ \E a \in Answers(b, source), l \in late : z = [Weigh(b, a) EXCEPT !.late = l]
       \/ b.at = "asking" /\ b.late = {} /\ z = [b EXCEPT !.next = @ + 1]
       \/ /\ b.at = "asking" /\ b.late = {} /\ source \in {"sina", "tencent"}
          /\ z = [b EXCEPT !.at = "quoting", !.quotes = NewQuotes(source)]
       \/ /\ b.at = "quoting" /\ b.quotes.batch = Batches
          /\ z = IF weighed.at = "done" THEN [weighed EXCEPT !.quotes = b.quotes] ELSE weighed
       \/ b.at = "quoting" /\ \E l \in late : z = Dropped(b, l)
       \/ b.at = "quoting" /\ \E quotes \in Quotes(b.quotes), l \in late : z = Quoting(b, quotes, l)
  <2>1. IsBreadthStep(b, z)
    BY <1>1, StepsOfTheBreadth
  <2> QED BY <2>1 DEF IsBreadthStep
<1> HIDE DEF over, weighed, late, source
<1> QED BY <1>4, <1>5, <1>6, <1>7, <1>8, <1>9, <1>10, <1>11

-----------------------------------------------------------------------------
(* RealtimeSources: the chain of the sectors.                               *)

\* The numbers of a sequence, in an order.
LEMMA PlacesInOrder ==
  ASSUME NEW n \in Nat, NEW R, StrictOrder(1..n, R)
  PROVE  /\ OrderOf(1..n, R) \in [1..n -> 1..n]
         /\ \A i \in 1..n : \E k \in 1..n : OrderOf(1..n, R)[k] = i
         /\ \A k, l \in 1..n : k < l => <<OrderOf(1..n, R)[k], OrderOf(1..n, R)[l]>> \in R
<1>1. IsFiniteSet(1..n) /\ Cardinality(1..n) = n
  <2>1. 1 \in Int /\ n \in Int
    OBVIOUS
  <2>2. Cardinality(1..n) = IF 1 > n THEN 0 ELSE n - 1 + 1
    BY <2>1, FS_Interval
  <2> QED BY <2>1, <2>2, FS_Interval
<1> DEFINE S == 1..n
<1> HIDE DEF S
<1>2. Cardinality(S) = n /\ IsFiniteSet(S) /\ StrictOrder(S, R)
  BY <1>1 DEF S
<1>3. /\ OrderOf(S, R) \in [1..n -> S]
      /\ \A i \in S : \E k \in 1..n : OrderOf(S, R)[k] = i
      /\ \A k, l \in 1..n : k < l => <<OrderOf(S, R)[k], OrderOf(S, R)[l]>> \in R
  BY <1>2, SetInOrder
<1> QED BY <1>3 DEF S

\* Rows that are boards, and of which of them some more are made.
AreBoards(rows) == \E n \in Nat : rows \in [1..n -> Boards]

LEMMA UsableAreOfTheRows ==
  ASSUME NEW rows, AreBoards(rows)
  PROVE  /\ AreBoards(UsableRows(rows)) /\ Len(UsableRows(rows)) \in Nat
         /\ DOMAIN UsableRows(rows) = 1..Len(UsableRows(rows))
         /\ \A k \in DOMAIN UsableRows(rows) : \E j \in DOMAIN rows :
              UsableRows(rows)[k] = rows[j] /\ Usable(rows[j])
<1>1. PICK n \in Nat : rows \in [1..n -> Boards]
  BY DEF AreBoards
<1> DEFINE P == {i \in DOMAIN rows : Usable(rows[i])}
<1>2. P \subseteq 1..n /\ IsFiniteSet(P) /\ P \subseteq Int
  <2>1. P \subseteq 1..n
    BY <1>1
  <2>2. IsFiniteSet(1..n)
    BY FS_Interval
  <2> QED BY <2>1, <2>2, FS_Subset
<1>3. UsableRows(rows) = At(rows, P)
  BY DEF UsableRows
<1>4. \A i \in P : i \in DOMAIN rows /\ Usable(rows[i])
  OBVIOUS
<1> HIDE DEF P
<1>5. PICK m, o : AreAt(At(rows, P), rows, P, m, o)
  BY <1>2, AtPositions
<1>6. m \in Nat /\ o \in [1..m -> P] /\ At(rows, P) = [k \in 1..m |-> rows[o[k]]] /\ Len(At(rows, P)) = m
  BY <1>5 DEF AreAt
<1>7. \A k \in 1..m : o[k] \in 1..n /\ o[k] \in DOMAIN rows /\ Usable(rows[o[k]]) /\ rows[o[k]] \in Boards
  BY <1>1, <1>2, <1>4, <1>6
<1>8. At(rows, P) \in [1..m -> Boards]
  BY <1>6, <1>7
<1>9. DOMAIN At(rows, P) = 1..m /\ \A k \in 1..m : At(rows, P)[k] = rows[o[k]]
  BY <1>6
<1>10. AreBoards(At(rows, P))
  BY <1>6, <1>8 DEF AreBoards
<1> QED BY <1>3, <1>6, <1>7, <1>9, <1>10

\* A sequence of named things without those whose name came before.
AreDistinct(s, rows, n, m, o) ==
  /\ m \in Nat /\ o \in [1..m -> 1..n] /\ s = [k \in 1..m |-> rows[o[k]]] /\ Len(s) = m
  /\ \A k, l \in 1..m : k # l => rows[o[k]].name # rows[o[l]].name
  /\ n >= 1 /\ rows[1].name # "" => m >= 1

LEMMA DistinctAreNamed ==
  ASSUME NEW n \in Nat, NEW T, NEW rows \in [1..n -> T]
  PROVE  \E m, o : AreDistinct(Distinct(rows), rows, n, m, o)
<1> DEFINE P == {i \in DOMAIN rows : rows[i].name # "" /\ FirstOfName(rows, i)}
<1>1. Distinct(rows) = At(rows, P)
  BY DEF Distinct
<1>2. P \subseteq 1..n /\ IsFiniteSet(P) /\ P \subseteq Int
  <2>1. P \subseteq 1..n
    OBVIOUS
  <2>2. IsFiniteSet(1..n)
    BY FS_Interval
  <2> HIDE DEF P
  <2>3. IsFiniteSet(P)
    BY <2>1, <2>2, FS_Subset
  <2>4. \A i \in 1..n : i \in Int
    OBVIOUS
  <2> QED BY <2>1, <2>3, <2>4
<1>3. \A i \in P : rows[i].name # "" /\ FirstOfName(rows, i)
  OBVIOUS
<1>4. n >= 1 /\ rows[1].name # "" => 1 \in P
  <2>1. FirstOfName(rows, 1)
    BY DEF FirstOfName
  <2>2. n >= 1 => 1 \in DOMAIN rows
    OBVIOUS
  <2> QED BY <2>1, <2>2
<1> HIDE DEF P
<1>5. PICK m, o : AreAt(At(rows, P), rows, P, m, o)
  BY <1>2, AtPositions
<1>6. /\ m \in Nat /\ o \in [1..m -> P] /\ At(rows, P) = [k \in 1..m |-> rows[o[k]]] /\ Len(At(rows, P)) = m
      /\ \A i \in P : \E k \in 1..m : o[k] = i
      /\ \A k, l \in 1..m : k < l => o[k] < o[l]
  BY <1>5 DEF AreAt
<1>7. o \in [1..m -> 1..n]
  BY <1>2, <1>6
<1>8. \A k, l \in 1..m : k # l => rows[o[k]].name # rows[o[l]].name
  <2> SUFFICES ASSUME NEW k \in 1..m, NEW l \in 1..m, k # l PROVE rows[o[k]].name # rows[o[l]].name
    OBVIOUS
  <2>1. o[k] < o[l] \/ o[l] < o[k]
    BY <1>6
  <2>2. o[k] \in P /\ o[l] \in P
    BY <1>6
  <2>3. FirstOfName(rows, o[k]) /\ FirstOfName(rows, o[l])
    BY <1>3, <2>2, Zenon
  <2>5. o[k] \in 1..n /\ o[l] \in 1..n
    BY <1>2, <2>2
  <2>4. o[k] \in 1..(o[l] - 1) \/ o[l] \in 1..(o[k] - 1)
    BY <2>1, <2>5
  <2> QED BY <2>3, <2>4 DEF FirstOfName
<1>9. 1 \in P => m >= 1
  BY <1>6
<1>10. AreDistinct(Distinct(rows), rows, n, m, o)
  BY <1>1, <1>4, <1>6, <1>7, <1>8, <1>9, Zenon DEF AreDistinct
<1> QED BY <1>10

\* Boards in the order of their changes are the same boards.
LEMMA RankedAreBoards ==
  ASSUME NEW rows, AreBoards(rows)
  PROVE  AreBoards(Ranked(rows))
<1>1. PICK n \in Nat : rows \in [1..n -> Boards]
  BY DEF AreBoards
<1> DEFINE Key(row) == IF OrZero(row.change) = 0 THEN -1000 ELSE OrZero(row.change)
           Precedes(i, j) == Key(rows[i]) > Key(rows[j]) \/ (~(Key(rows[j]) > Key(rows[i])) /\ i < j)
           R == {p \in (1..n) \X (1..n) : Precedes(p[1], p[2])}
           o == Ordered(DOMAIN rows, LAMBDA i, j : Precedes(i, j))
<1>2. \A i \in 1..n : Key(rows[i]) \in Int
  <2> SUFFICES ASSUME NEW i \in 1..n PROVE OrZero(rows[i].change) \in Int
    OBVIOUS
  <2>1. rows[i].change \subseteq Int
    BY <1>1, SourceAssumption
  <2> QED BY <2>1 DEF OrZero
<1>3. Ranked(rows) = [k \in DOMAIN o |-> rows[o[k]]]
  BY DEF Ranked, Sorted
<1>4. DOMAIN rows = 1..n
  BY <1>1
<1> HIDE DEF Key
<1>5. StrictOrder(1..n, R)
  <2>1. \A i, j \in 1..n : <<i, j>> \in R <=> Precedes(i, j)
    OBVIOUS
  <2> HIDE DEF R
  <2> QED BY <1>2, <2>1 DEF StrictOrder
<1>6. o = OrderOf(1..n, R)
  <2> DEFINE A(k) == CHOOSE i \in 1..n : Cardinality({j \in 1..n : Precedes(j, i)}) = k - 1
             B(k) == CHOOSE i \in 1..n : Cardinality(Below(1..n, R, i)) = k - 1
  <2>1. \A i \in 1..n : {j \in 1..n : Precedes(j, i)} = Below(1..n, R, i)
    BY DEF Below
  <2> HIDE DEF R, Precedes
  <2>2. \A k : A(k) = B(k)
    BY <2>1
  <2>3. o = [k \in 1..Cardinality(1..n) |-> A(k)]
    BY <1>4 DEF Ordered
  <2>4. OrderOf(1..n, R) = [k \in 1..Cardinality(1..n) |-> B(k)]
    BY DEF OrderOf
  <2> HIDE DEF A, B, o
  <2> QED BY <2>2, <2>3, <2>4
<1> HIDE DEF o, R, Precedes
<1>7. o \in [1..n -> 1..n]
  BY <1>5, <1>6, PlacesInOrder
<1>8. Ranked(rows) \in [1..n -> Boards]
  BY <1>1, <1>3, <1>7
<1> QED BY <1>8 DEF AreBoards

LEMMA NoRowsAreBoards == AreBoards(<<>>)
<1>1. <<>> \in [1..0 -> Boards]
  OBVIOUS
<1> QED BY <1>1 DEF AreBoards

\* What a source makes of its answer are boards, and enough of them from a backup.
LEMMA SourceRowsAreBoards ==
  ASSUME NEW source, source # "hot", NEW a \in SourceAnswers(source)
  PROVE  /\ AreBoards(SourceRows(source, a))
         /\ source \in {"eastmoney", "eastmoney-industry"} =>
              SourceRows(source, a) = <<>> \/ Len(SourceRows(source, a)) >= MinBackupRows
<1>1. AreBoards(a)
  <2>1. CASE source = "industry"
    <3>1. PICK pages \in SeqOf(Pages, 2) : a = IndustryRows(pages)
      BY <2>1 DEF SourceAnswers
    <3> QED BY <3>1, IndustryRowsAreBoards DEF AreBoards
  <2>2. CASE source # "industry"
    <3>1. a \in SeqOf(Boards, 3)
      BY <2>2 DEF SourceAnswers
    <3>2. PICK n \in 0..3 : a \in [1..n -> Boards]
      BY <3>1 DEF SeqOf
    <3>3. n \in Nat
      OBVIOUS
    <3> QED BY <3>2, <3>3 DEF AreBoards
  <2> QED BY <2>1, <2>2
<1>2. CASE source = "concept"
  <2>1. SourceRows(source, a) = Ranked(Distinct(a))
    BY <1>2 DEF SourceRows
  <2>2. PICK n \in Nat : a \in [1..n -> Boards]
    BY <1>1 DEF AreBoards
  <2>3. PICK m, o : AreDistinct(Distinct(a), a, n, m, o)
    BY <2>2, DistinctAreNamed
  <2>4. m \in Nat /\ o \in [1..m -> 1..n] /\ Distinct(a) = [k \in 1..m |-> a[o[k]]]
    BY <2>3 DEF AreDistinct
  <2>5. Distinct(a) \in [1..m -> Boards]
    BY <2>2, <2>4
  <2>6. AreBoards(Distinct(a))
    BY <2>4, <2>5 DEF AreBoards
  <2> QED BY <1>2, <2>1, <2>6, RankedAreBoards
<1>3. CASE source \in {"sina", "akshare", "akshare-industry"}
  <2>1. SourceRows(source, a) = UsableRows(a)
    BY <1>3 DEF SourceRows
  <2> QED BY <1>1, <1>3, <2>1, UsableAreOfTheRows
<1>4. CASE source \in {"eastmoney", "eastmoney-industry"}
  <2>1. SourceRows(source, a) = IF Len(UsableRows(a)) < MinBackupRows THEN <<>> ELSE UsableRows(a)
    BY <1>4 DEF SourceRows
  <2>2. AreBoards(UsableRows(a)) /\ Len(UsableRows(a)) \in Nat /\ MinBackupRows \in Nat
    BY <1>1, UsableAreOfTheRows, SourceAssumption
  <2>3. CASE Len(UsableRows(a)) < MinBackupRows
    BY <2>1, <2>3, NoRowsAreBoards
  <2>4. CASE ~(Len(UsableRows(a)) < MinBackupRows)
    <3>1. SourceRows(source, a) = UsableRows(a)
      BY <2>1, <2>4
    <3> QED BY <2>2, <2>4, <3>1
  <2> QED BY <2>3, <2>4
<1>5. CASE source \notin {"concept", "sina", "akshare", "akshare-industry", "eastmoney", "eastmoney-industry"}
  <2>1. SourceRows(source, a) = a
    BY <1>5 DEF SourceRows
  <2> QED BY <1>1, <1>5, <2>1
<1> QED BY <1>2, <1>3, <1>4, <1>5

\* A sector is read from a row that has its name and its change.
LEMMA ParsedAreOfTheRows ==
  ASSUME NEW rows, AreBoards(rows)
  PROVE  \E n \in Nat : /\ ParseSectors(rows) \in [1..n -> Range(ParseSectors(rows))]
                        /\ \A i \in 1..n : /\ ParseSectors(rows)[i].name # ""
                                           /\ \E j \in DOMAIN rows :
                                                /\ rows[j].name = ParseSectors(rows)[i].name
                                                /\ rows[j].change = {ParseSectors(rows)[i].change}
<1> DEFINE usable == UsableRows(rows)
           n == Len(usable)
           p == ParseSectors(rows)
<1>1. /\ AreBoards(usable) /\ n \in Nat /\ DOMAIN usable = 1..n
      /\ \A k \in DOMAIN usable : \E j \in DOMAIN rows : usable[k] = rows[j] /\ Usable(rows[j])
  BY UsableAreOfTheRows
<1>2. p = [i \in DOMAIN usable |-> [name |-> usable[i].name, change |-> OrZero(usable[i].change)]]
  BY DEF ParseSectors
<1>3. PICK m \in Nat : usable \in [1..m -> Boards]
  BY <1>1 DEF AreBoards
<1> HIDE DEF usable, n, p
<1>4. DOMAIN p = 1..n /\ p \in [1..n -> Range(p)]
  BY <1>1, <1>2 DEF Range
<1>5. ASSUME NEW i \in 1..n
      PROVE  /\ p[i].name # ""
             /\ \E j \in DOMAIN rows : rows[j].name = p[i].name /\ rows[j].change = {p[i].change}
  <2>1. PICK j \in DOMAIN rows : usable[i] = rows[j] /\ Usable(rows[j])
    BY <1>1
  <2>2. usable[i] \in Boards
    BY <1>1, <1>3
  <2>3. \A u, v \in rows[j].change : u = v
    BY <2>1, <2>2, SourceAssumption
  <2>4. rows[j].name # "" /\ rows[j].change # {}
    BY <2>1 DEF Usable
  <2>5. p[i].name = rows[j].name /\ p[i].change = OrZero(rows[j].change)
    BY <1>1, <1>2, <2>1
  <2>6. OrZero(rows[j].change) \in rows[j].change
    BY <2>4 DEF OrZero
  <2>7. rows[j].change = {OrZero(rows[j].change)}
    BY <2>3, <2>6
  <2> QED BY <2>4, <2>5, <2>7
<1> QED BY <1>1, <1>4, <1>5 DEF p

AreNamed(sectors, n) == \A i \in 1..n : sectors[i].name # ""

AreKept(got, sectors, n) ==
  /\ got # <<>> /\ Len(got) <= SectorLimit
  /\ Cardinality({got[i].name : i \in DOMAIN got}) = Len(got)
  /\ \A i \in DOMAIN got : \E j \in 1..n : got[i] = sectors[j]

\* Of the sectors read, what is kept: at least one, at most SectorLimit, each once.
LEMMA KeptAreNamed ==
  ASSUME NEW n \in Nat, NEW T, NEW sectors \in [1..n -> T], n >= 1, AreNamed(sectors, n)
  PROVE  AreKept(DedupeSectors(sectors, SectorLimit), sectors, n)
<1> DEFINE distinct == Distinct(sectors)
           got == DedupeSectors(sectors, SectorLimit)
<1>1. PICK m, o : AreDistinct(distinct, sectors, n, m, o)
  BY DistinctAreNamed
<1>2. /\ m \in Nat /\ o \in [1..m -> 1..n] /\ distinct = [k \in 1..m |-> sectors[o[k]]] /\ Len(distinct) = m
      /\ \A k, l \in 1..m : k # l => sectors[o[k]].name # sectors[o[l]].name
      /\ m >= 1
  <2>1. 1 \in 1..n
    OBVIOUS
  <2>2. sectors[1].name # ""
    BY <2>1 DEF AreNamed
  <2> QED BY <1>1, <2>2 DEF AreDistinct
<1>3. SectorLimit \in Nat /\ SectorLimit >= 1
  BY SourceAssumption
<1> DEFINE w == IF m < SectorLimit THEN m ELSE SectorLimit
<1>4. got = SubSeq(distinct, 1, w)
  BY <1>2 DEF DedupeSectors
<1>5. w \in 1..m /\ w <= SectorLimit /\ w \in Nat
  BY <1>2, <1>3
<1>6. distinct \in Seq(T) /\ \A k \in 1..m : distinct[k] = sectors[o[k]]
  <2>1. \A k \in 1..m : o[k] \in 1..n
    BY <1>2
  <2>2. \A k \in 1..m : sectors[o[k]] \in T
    BY <2>1
  <2>3. distinct \in [1..m -> T]
    BY <1>2, <2>2
  <2>4. distinct \in Seq(T)
    BY <1>2, <2>3
  <2> QED BY <1>2, <2>4
<1> HIDE DEF distinct, w, got
<1>7. Len(got) = w /\ got \in Seq(T) /\ \A i \in 1..w : got[i] = distinct[i]
  BY <1>2, <1>4, <1>5, <1>6, SubSeqProperties
<1>8. DOMAIN got = 1..w
  BY <1>7
<1>9. \A i \in 1..w : i \in 1..m /\ got[i] = sectors[o[i]] /\ o[i] \in 1..n
  <2> SUFFICES ASSUME NEW i \in 1..w PROVE i \in 1..m /\ got[i] = sectors[o[i]] /\ o[i] \in 1..n
    OBVIOUS
  <2>1. i \in 1..m
    BY <1>2, <1>5
  <2>2. got[i] = distinct[i] /\ distinct[i] = sectors[o[i]]
    BY <1>6, <1>7, <2>1
  <2> QED BY <1>2, <2>1, <2>2
<1>10. Cardinality({got[i].name : i \in DOMAIN got}) = w
  <2> DEFINE f == [i \in 1..w |-> got[i].name]
             N == {got[i].name : i \in DOMAIN got}
  <2>1. \A i, j \in 1..w : f[i] = f[j] => i = j
    BY <1>2, <1>9
  <2>2. f \in [1..w -> N] /\ \A x \in N : \E i \in 1..w : f[i] = x
    BY <1>8
  <2> HIDE DEF f, N
  <2>3. f \in Bijection(1..w, N)
    BY <2>1, <2>2 DEF Bijection, Injection, Surjection, IsInjective
  <2>4. IsFiniteSet(1..w) /\ Cardinality(1..w) = w
    <3>1. 1 \in Int /\ w \in Int
      BY <1>5
    <3>2. IsFiniteSet(1..w) /\ Cardinality(1..w) = IF 1 > w THEN 0 ELSE w - 1 + 1
      BY <3>1, FS_Interval
    <3> QED BY <1>5, <3>2
  <2>5. Cardinality(N) = Cardinality(1..w)
    BY <2>3, <2>4, FS_Bijection DEF ExistsBijection
  <2> QED BY <2>4, <2>5 DEF N
<1>11. got # <<>>
  BY <1>5, <1>7
<1>12. \A i \in DOMAIN got : \E j \in 1..n : got[i] = sectors[j]
  BY <1>8, <1>9
<1>13. AreKept(got, sectors, n)
  BY <1>5, <1>7, <1>10, <1>11, <1>12 DEF AreKept
<1> QED BY <1>13 DEF got

SectorFields == {"at", "next", "tries", "late", "rows", "by", "got"}
SectorsInv(s) ==
  /\ DOMAIN s = SectorFields /\ s.late \in BOOLEAN
  /\ s.at # "done" => s.by = "none" /\ s.got = <<>> /\ s.rows = <<>>
  /\ SectorsAreOfTheirRows(s)

LEMMA SectorsBegin == SectorsInv(NewSectors)
<1>1. /\ NewSectors.late = FALSE /\ NewSectors.by = "none" /\ NewSectors.got = <<>> /\ NewSectors.rows = <<>>
      /\ DOMAIN NewSectors = SectorFields
  BY DEF NewSectors, SectorFields
<1> QED BY <1>1 DEF SectorsInv, SectorsAreOfTheirRows

LEMMA SectorsSettle ==
  ASSUME NEW s, SectorsInv(s), s.at # "done", NEW source, NEW a \in SourceAnswers(source), NEW late \in BOOLEAN,
         NEW z, z = Settled(s, source, SourceRows(source, a), late)
  PROVE  SectorsInv(z)
<1> DEFINE rows == SourceRows(source, a)
           sectors == IF source = "hot" THEN <<>> ELSE ParseSectors(rows)
           stopped == [s EXCEPT !.at = "done", !.late = late]
           published == [stopped EXCEPT !.rows = IF source = "sina" THEN <<>> ELSE rows, !.by = source]
           kept == DedupeSectors(sectors, SectorLimit)
<1>1. DOMAIN s = SectorFields /\ s.by = "none" /\ s.got = <<>> /\ s.rows = <<>>
  BY DEF SectorsInv
<1>2. ASSUME DOMAIN z = SectorFields, z.late = late, z.by = "none", z.got = <<>>, z.rows = <<>>
      PROVE  SectorsInv(z)
  BY <1>2 DEF SectorsInv, SectorsAreOfTheirRows
<1>3. CASE \/ z = stopped
           \/ z = [s EXCEPT !.tries = @ + 1, !.late = late]
           \/ z = [s EXCEPT !.next = @ + 1, !.tries = 0, !.late = late]
  <2>1. DOMAIN z = SectorFields /\ z.late = late /\ z.by = "none" /\ z.got = <<>> /\ z.rows = <<>>
    BY <1>1, <1>3 DEF SectorFields
  <2> QED BY <1>2, <2>1
<1>4. CASE source = "hot" /\ ~late /\ z = published
  <2>1. /\ DOMAIN z = SectorFields /\ z.late = FALSE /\ z.by = "hot" /\ z.got = <<>> /\ z.at = "done"
    BY <1>1, <1>4 DEF SectorFields
  <2> QED BY <2>1 DEF SectorsInv, SectorsAreOfTheirRows
<1>5. CASE source # "hot" /\ ~late /\ sectors # <<>> /\ z = [published EXCEPT !.got = kept]
  <2>1. /\ AreBoards(rows)
        /\ source \in {"eastmoney", "eastmoney-industry"} => rows = <<>> \/ Len(rows) >= MinBackupRows
    BY <1>5, SourceRowsAreBoards
  <2> DEFINE p == ParseSectors(rows)
  <2>2. PICK n \in Nat : /\ p \in [1..n -> Range(p)]
                         /\ \A i \in 1..n : /\ p[i].name # ""
                                            /\ \E j \in DOMAIN rows : rows[j].name = p[i].name /\ rows[j].change = {p[i].change}
    BY <2>1, ParsedAreOfTheRows
  <2>3. p # <<>> /\ z = [published EXCEPT !.got = DedupeSectors(p, SectorLimit)]
    BY <1>5
  <2>4. /\ DOMAIN z = SectorFields /\ z.late = FALSE /\ z.at = "done" /\ z.by = source
        /\ z.rows = (IF source = "sina" THEN <<>> ELSE rows) /\ z.got = DedupeSectors(p, SectorLimit)
    BY <1>1, <1>5, <2>3 DEF SectorFields
  <2> HIDE DEF p, rows, kept, published, sectors, stopped
  <2>5. n >= 1
    <3>1. ASSUME n = 0 PROVE FALSE
      <4>1. p \in [{} -> Range(p)]
        BY <2>2, <3>1
      <4>2. p = <<>>
        BY <4>1
      <4> QED BY <2>3, <4>2
    <3> QED BY <3>1
  <2>6. /\ z.got # <<>> /\ Len(z.got) <= SectorLimit
        /\ Cardinality({z.got[i].name : i \in DOMAIN z.got}) = Len(z.got)
        /\ \A i \in DOMAIN z.got : \E j \in 1..n : z.got[i] = p[j]
    <3>1. AreNamed(p, n)
      BY <2>2 DEF AreNamed
    <3>2. n >= 1 /\ n \in Nat /\ p \in [1..n -> Range(p)] /\ z.got = DedupeSectors(p, SectorLimit)
      BY <2>2, <2>4, <2>5
    <3> DEFINE T == Range(p)
    <3> HIDE DEF T
    <3>3. p \in [1..n -> T]
      BY <3>2 DEF T
    <3>4. AreKept(z.got, p, n)
      BY <3>1, <3>2, <3>3, KeptAreNamed
    <3> QED BY <3>4, Zenon DEF AreKept
  <2>7. ASSUME source # "sina", NEW i \in DOMAIN z.got
        PROVE  \E j \in DOMAIN z.rows : z.rows[j].name = z.got[i].name /\ z.rows[j].change = {z.got[i].change}
    <3>1. PICK k \in 1..n : z.got[i] = p[k]
      BY <2>6, <2>7
    <3>2. \E j \in DOMAIN rows : rows[j].name = p[k].name /\ rows[j].change = {p[k].change}
      BY <2>2
    <3>3. z.rows = rows
      BY <2>4, <2>7
    <3> QED BY <3>1, <3>2, <3>3
  <2>8. rows # <<>>
    <3>1. 1 \in 1..n
      BY <2>5
    <3>2. \E j \in DOMAIN rows : TRUE
      BY <2>2, <3>1
    <3>3. DOMAIN << >> = {}
      OBVIOUS
    <3> QED BY <3>2, <3>3
  <2>9. source \in {"eastmoney", "eastmoney-industry"} => Len(z.rows) >= MinBackupRows
    BY <2>1, <2>4, <2>8
  <2>10. SectorsAreOfTheirRows(z)
    <3>1. z.by # "none" => ~z.late
      BY <2>4
    <3> QED BY <2>4, <2>6, <2>7, <2>9, <3>1 DEF SectorsAreOfTheirRows
  <2> QED BY <2>4, <2>10 DEF SectorsInv
<1>6. \/ z = stopped
      \/ z = [s EXCEPT !.tries = @ + 1, !.late = late]
      \/ z = [s EXCEPT !.next = @ + 1, !.tries = 0, !.late = late]
      \/ source = "hot" /\ ~late /\ z = published
      \/ source # "hot" /\ ~late /\ sectors # <<>> /\ z = [published EXCEPT !.got = kept]
  <2> DEFINE A == [s EXCEPT !.tries = @ + 1, !.late = late]
             B == [s EXCEPT !.next = @ + 1, !.tries = 0, !.late = late]
             C == [published EXCEPT !.got = kept]
  <2>1. z = IF late /\ source \in {"concept", "industry", "hot"} THEN stopped
            ELSE IF source = "hot" THEN IF rows = <<>> THEN stopped ELSE published
            ELSE IF sectors = <<>>
            THEN IF source \in {"eastmoney", "eastmoney-industry"} /\ s.tries + 1 < BackupTries THEN A ELSE B
            ELSE IF late THEN stopped ELSE C
    BY DEF Settled
  <2> HIDE DEF A, B, C, sectors, rows, published, stopped
  <2>2. z = stopped \/ z = A \/ z = B \/ (source = "hot" /\ ~late /\ z = published)
          \/ (source # "hot" /\ ~late /\ sectors # <<>> /\ z = C)
    BY <2>1
  <2> QED BY <2>2 DEF A, B, C
<1> HIDE DEF rows, sectors, stopped, published, kept
<1> QED BY <1>3, <1>4, <1>5, <1>6

LEMMA SectorsGoOn ==
  ASSUME NEW s, SectorsInv(s), NEW z \in SectorSteps(s)
  PROVE  SectorsInv(z)
<1>1. s.late \in BOOLEAN
  BY DEF SectorsInv
<1>2. CASE s.at = "done"
  <2>1. SectorSteps(s) = {}
    BY <1>2 DEF SectorSteps
  <2> QED BY <2>1
<1>3. CASE s.at # "done" /\ s.late /\ s.tries = 0
  <2>1. z = [s EXCEPT !.at = "done"]
    BY <1>3 DEF SectorSteps
  <2>2. DOMAIN s = SectorFields /\ s.by = "none" /\ s.got = <<>> /\ s.rows = <<>>
    BY <1>3 DEF SectorsInv
  <2>3. DOMAIN z = SectorFields /\ z.late = s.late /\ z.by = "none" /\ z.got = <<>> /\ z.rows = <<>>
    BY <2>1, <2>2 DEF SectorFields
  <2> QED BY <1>1, <2>3 DEF SectorsInv, SectorsAreOfTheirRows
<1>4. CASE s.at # "done" /\ ~(s.late /\ s.tries = 0)
  <2> DEFINE source == SectorOrder[s.next]
  <2>1. PICK a \in SourceAnswers(source), late \in {s.late, TRUE} : z = Settled(s, source, SourceRows(source, a), late)
    <3> DEFINE A == SourceAnswers(SectorOrder[s.next])
               L == {s.late, TRUE}
               Of(a, late) == Settled(s, SectorOrder[s.next], SourceRows(SectorOrder[s.next], a), late)
               S == {Of(a, late) : a \in A, late \in L}
               Stop == {[s EXCEPT !.at = "done"]}
    <3>1. SectorSteps(s) = CASE s.at = "done" -> {}
                             [] s.at # "done" /\ s.late /\ s.tries = 0 -> Stop
                             [] OTHER -> S
      BY DEF SectorSteps
    <3> HIDE DEF S, Stop
    <3>2. SectorSteps(s) = S
      BY <1>1, <1>4, <3>1
    <3>3. z \in S
      BY <3>2
    <3> HIDE DEF Of, source, L, A
    <3>4. \E a \in A, late \in L : z = Of(a, late)
      BY <3>3 DEF S
    <3> QED BY <3>4 DEF Of, source, A, L
  <2> HIDE DEF source
  <2>2. late \in BOOLEAN
    BY <1>1
  <2> QED BY <1>4, <2>1, <2>2, SectorsSettle
<1> QED BY <1>2, <1>3, <1>4

-----------------------------------------------------------------------------
(* RealtimeSources: the local snapshot.                                     *)

LEMMA ChangesAreNumbers ==
  ASSUME NEW frame \in Seq(LocalDays), NEW day \in 1..Len(frame), NEW s \in DOMAIN frame[day]
  PROVE  LocalChange(frame, day, s) \in Int
<1>1. frame[day] \in LocalDays /\ day \in Nat /\ Len(frame) \in Nat
  OBVIOUS
<1>2. frame[day][s].close \in Nat /\ frame[day][s].open \in Nat /\ frame[day][s].open # 0
  BY <1>1, LocalAssumption
<1>3. PreviousClose(frame, day, s) \in Nat /\ PreviousClose(frame, day, s) # 0
  <2>1. CASE day > 1 /\ s \in DOMAIN frame[day - 1]
    <3>1. day - 1 \in 1..Len(frame)
      BY <1>1, <2>1
    <3>2. frame[day - 1] \in LocalDays
      BY <3>1
    <3>3. frame[day - 1][s].close \in Nat /\ frame[day - 1][s].close # 0
      BY <2>1, <3>2, LocalAssumption
    <3> QED BY <2>1, <3>3 DEF PreviousClose
  <2>2. CASE ~(day > 1 /\ s \in DOMAIN frame[day - 1])
    BY <1>2, <2>2 DEF PreviousClose
  <2> QED BY <2>1, <2>2
<1> DEFINE c == frame[day][s].close
           p == PreviousClose(frame, day, s)
<1>4. LocalChange(frame, day, s) = (c * 100) \div p - 100
  BY DEF LocalChange
<1>5. c \in Nat /\ p \in Nat /\ p # 0
  BY <1>2, <1>3
<1> HIDE DEF c, p
<1>6. (c * 100) \div p \in Int
  BY <1>5
<1> QED BY <1>4, <1>6

\* Three classes that are the whole of a finite set count it.
LEMMA ThreeClasses ==
  ASSUME NEW D, IsFiniteSet(D), NEW A, NEW B, NEW C, D = A \cup B \cup C,
         A \cap B = {}, A \cap C = {}, B \cap C = {}
  PROVE  Cardinality(A) + Cardinality(B) + Cardinality(C) = Cardinality(D)
<1>1. IsFiniteSet(A) /\ IsFiniteSet(B) /\ IsFiniteSet(C)
  BY FS_Subset
<1>2. Cardinality(A) \in Nat /\ Cardinality(B) \in Nat /\ Cardinality(C) \in Nat
  BY <1>1, FS_CardinalityType
<1>3. IsFiniteSet(A \cup B) /\ Cardinality(A \cup B) = Cardinality(A) + Cardinality(B) - Cardinality(A \cap B)
  BY <1>1, FS_Union
<1>4. Cardinality(D) = Cardinality(A \cup B) + Cardinality(C) - Cardinality((A \cup B) \cap C)
  BY <1>1, <1>3, FS_Union
<1>5. A \cap B = {} /\ (A \cup B) \cap C = {}
  OBVIOUS
<1>6. Cardinality(A \cap B) = 0 /\ Cardinality((A \cup B) \cap C) = 0
  BY <1>5, FS_EmptySet
<1> QED BY <1>2, <1>3, <1>4, <1>6

LEMMA DayIsCounted ==
  ASSUME NEW frame \in Seq(LocalDays), frame # <<>>
  PROVE  LocalBreadth(frame).total = Cardinality(DOMAIN frame[Len(frame)])
<1> DEFINE day == Len(frame)
           D == DOMAIN frame[day]
           c(s) == LocalChange(frame, day, s)
           A == {s \in D : c(s) > 0}
           B == {s \in D : c(s) < 0}
           C == {s \in D : c(s) = 0}
<1>1. day \in 1..Len(frame) /\ frame[day] \in LocalDays
  OBVIOUS
<1>2. \A s \in D : c(s) \in Int
  BY <1>1, ChangesAreNumbers
<1>3. IsFiniteSet(D)
  BY <1>1, LocalAssumption
<1>4. LocalBreadth(frame) = Breadth("local", Cardinality(A), Cardinality(B), Cardinality(C))
  BY DEF LocalBreadth
<1>5. LocalBreadth(frame).total = Cardinality(A) + Cardinality(B) + Cardinality(C)
  BY <1>4 DEF Breadth
<1> HIDE DEF c
<1>6. /\ D = A \cup B \cup C
      /\ A \cap B = {} /\ A \cap C = {} /\ B \cap C = {}
  BY <1>2
<1> HIDE DEF A, B, C, D
<1>7. Cardinality(A) + Cardinality(B) + Cardinality(C) = Cardinality(D)
  BY <1>3, <1>6, ThreeClasses
<1> QED BY <1>5, <1>7 DEF D

\* Of some numbers one is the largest.
LEMMA OneIsLargest ==
  ASSUME NEW S, IsFiniteSet(S), S # {}, NEW f, \A s \in S : f[s] \in Int
  PROVE  \E s \in S : \A t \in S : f[t] <= f[s]
<1> DEFINE P == {X \in SUBSET S : X = {} \/ \E s \in X : \A t \in X : f[t] <= f[s]}
<1>1. {} \in P
  OBVIOUS
<1>2. ASSUME NEW X \in SUBSET S, X \in P, NEW x \in S \ X PROVE X \cup {x} \in P
  <2>1. CASE X = {}
    <3>1. \A t \in X \cup {x} : f[t] <= f[x]
      BY <2>1
    <3> QED BY <3>1
  <2>2. CASE X # {}
    <3>1. PICK s \in X : \A t \in X : f[t] <= f[s]
      BY <1>2, <2>2
    <3>2. CASE f[x] <= f[s]
      <4>1. \A t \in X \cup {x} : f[t] <= f[s]
        BY <3>1, <3>2
      <4> QED BY <4>1
    <3>3. CASE ~(f[x] <= f[s])
      <4>1. \A t \in X \cup {x} : f[t] \in Int /\ f[s] \in Int /\ f[x] \in Int
        OBVIOUS
      <4>2. \A t \in X \cup {x} : f[t] <= f[x]
        BY <3>1, <3>3, <4>1
      <4> QED BY <4>2
    <3> QED BY <3>2, <3>3
  <2> QED BY <2>1, <2>2
<1> HIDE DEF P
<1>3. S \in P
  BY <1>1, <1>2, SubsetsOneByOne
<1> QED BY <1>3 DEF P

\* What a group is of its day, and a sequence of such groups.
GroupIs(g, frame, day) ==
  /\ g.stocks \subseteq DOMAIN frame[day] /\ g.leader \in g.stocks
  /\ \A s \in g.stocks : LocalChange(frame, day, s) <= LocalChange(frame, day, g.leader)
  /\ g.sum \in Int /\ IsFiniteSet(g.stocks)
AreGroups(groups, frame, day) ==
  \E T : groups \in Seq(T) /\ \A g \in T : GroupIs(g, frame, day)

LEMMA GroupsAreOfTheDay ==
  ASSUME NEW frame \in Seq(LocalDays), NEW day \in 1..Len(frame), NEW name, NEW members,
         members \cap DOMAIN frame[day] # {}
  PROVE  GroupIs(GroupOf(frame, day, name, members), frame, day)
<1> DEFINE stocks == members \cap DOMAIN frame[day]
           f == [s \in stocks |-> LocalChange(frame, day, s)]
           leader == CHOOSE s \in stocks : \A t \in stocks : LocalChange(frame, day, t) <= LocalChange(frame, day, s)
           g == GroupOf(frame, day, name, members)
<1>1. g = [name |-> name, stocks |-> stocks, sum |-> SumFunction(f), leader |-> leader]
  BY DEF GroupOf
<1>2. IsFiniteSet(stocks)
  <2>1. frame[day] \in LocalDays
    OBVIOUS
  <2>2. IsFiniteSet(DOMAIN frame[day])
    BY <2>1, LocalAssumption
  <2>3. stocks \subseteq DOMAIN frame[day]
    OBVIOUS
  <2> HIDE DEF stocks
  <2> QED BY <2>2, <2>3, FS_Subset
<1>3. \A s \in stocks : LocalChange(frame, day, s) \in Int
  BY ChangesAreNumbers
<1>4. stocks # {} /\ stocks \subseteq DOMAIN frame[day]
  OBVIOUS
<1> HIDE DEF stocks, g
<1>5. \A s \in stocks : f[s] = LocalChange(frame, day, s)
  OBVIOUS
<1>6. DOMAIN f = stocks
  OBVIOUS
<1> HIDE DEF f
<1>7. \A s \in stocks : f[s] \in Int
  BY <1>3, <1>5
<1>8. \E s \in stocks : \A t \in stocks : f[t] <= f[s]
  BY <1>2, <1>4, <1>7, OneIsLargest
<1>9. \E s \in stocks : \A t \in stocks : LocalChange(frame, day, t) <= LocalChange(frame, day, s)
  BY <1>5, <1>8
<1>10. leader \in stocks /\ \A t \in stocks : LocalChange(frame, day, t) <= LocalChange(frame, day, leader)
  BY <1>9, Zenon
<1>11. SumFunction(f) \in Int
  <2>1. SumFunctionOnSet(f, stocks) \in Int
    BY <1>2, <1>7, SumIsInt DEF AreSummed
  <2> QED BY <1>6, <2>1 DEF SumFunction
<1> HIDE DEF leader
<1>12. g.stocks = stocks /\ g.leader = leader /\ g.sum = SumFunction(f)
  BY <1>1
<1>13. GroupIs(g, frame, day)
  BY <1>2, <1>4, <1>10, <1>11, <1>12 DEF GroupIs
<1> QED BY <1>13 DEF g

\* What is at least as much by one weight is so by every weight.
LEMMA WeightsCancel ==
  ASSUME NEW x \in Int, NEW y \in Int, NEW q \in Nat, q # 0, q * x <= q * y
  PROVE  x <= y
<1>1. ASSUME y < x PROVE FALSE
  <2>1. x - y >= 1
    BY <1>1
  <2>2. q * (x - y) >= 1
    BY <2>1
  <2>3. q * (x - y) = q * x - q * y
    OBVIOUS
  <2>4. q * x \in Int /\ q * y \in Int
    OBVIOUS
  <2> QED BY <2>2, <2>3, <2>4
<1> QED BY <1>1

LEMMA MeansAreTransitive ==
  ASSUME NEW a \in Int, NEW b \in Int, NEW c \in Int, NEW p \in Nat, NEW q \in Nat, NEW r \in Nat,
         p # 0, q # 0, r # 0, a * q <= b * p, b * r <= c * q
  PROVE  a * r <= c * p
<1>1. (a * q) * r <= (b * p) * r
  <2> DEFINE u == a * q
             v == b * p
  <2>1. u \in Int /\ v \in Int /\ u <= v
    OBVIOUS
  <2> HIDE DEF u, v
  <2>2. u * r <= v * r
    BY <2>1
  <2> QED BY <2>2 DEF u, v
<1>2. (b * r) * p <= (c * q) * p
  <2> DEFINE u == b * r
             v == c * q
  <2>1. u \in Int /\ v \in Int /\ u <= v
    OBVIOUS
  <2> HIDE DEF u, v
  <2>2. u * p <= v * p
    BY <2>1
  <2> QED BY <2>2 DEF u, v
<1>3. (a * q) * r = q * (a * r) /\ (b * p) * r = (b * r) * p /\ (c * q) * p = q * (c * p)
  OBVIOUS
<1> DEFINE x == a * r
           y == c * p
           w == (b * p) * r
<1>4. x \in Int /\ y \in Int /\ w \in Int
  OBVIOUS
<1>5. q * x <= w /\ w <= q * y
  BY <1>1, <1>2, <1>3
<1> HIDE DEF x, y, w
<1>6. q * x \in Int /\ q * y \in Int
  BY <1>4
<1>7. q * x <= q * y
  BY <1>4, <1>5, <1>6
<1>8. x <= y
  BY <1>4, <1>7, WeightsCancel
<1> QED BY <1>8 DEF x, y

\* An order of places that breaks its ties by the places themselves.
Stable(n, A) == {p \in (1..n) \X (1..n) : p \in A \/ (<<p[2], p[1]>> \notin A /\ p[1] < p[2])}

LEMMA StableIsStrict ==
  ASSUME NEW n \in Nat, NEW A,
         \A i, j \in 1..n : <<i, j>> \in A => <<j, i>> \notin A,
         \A i, j, k \in 1..n : <<i, j>> \notin A /\ <<j, k>> \notin A => <<i, k>> \notin A
  PROVE  StrictOrder(1..n, Stable(n, A))
<1> DEFINE B == Stable(n, A)
<1>1. \A i, j \in 1..n : <<i, j>> \in B <=> (<<i, j>> \in A \/ (<<j, i>> \notin A /\ i < j))
  BY DEF Stable
<1> HIDE DEF B
<1>2. \A i \in 1..n : <<i, i>> \notin B
  BY <1>1
<1>3. ASSUME NEW i \in 1..n, NEW j \in 1..n, i # j PROVE <<i, j>> \in B \/ <<j, i>> \in B
  <2>1. i < j \/ j < i
    BY <1>3
  <2> QED BY <1>1, <2>1
<1>4. ASSUME NEW i \in 1..n, NEW j \in 1..n, NEW k \in 1..n, <<i, j>> \in B, <<j, k>> \in B
      PROVE  <<i, k>> \in B
  <2>1. <<j, i>> \notin A /\ <<k, j>> \notin A
    BY <1>1, <1>4
  <2>2. <<k, i>> \notin A
    BY <2>1
  <2>3. CASE <<i, k>> \in A
    BY <1>1, <2>3
  <2>4. CASE <<i, k>> \notin A
    <3>1. <<i, j>> \notin A
      BY <2>1, <2>4
    <3>2. <<j, k>> \notin A
      BY <2>1, <2>4
    <3>3. i < j /\ j < k
      BY <1>1, <1>4, <3>1, <3>2
    <3>4. i < k
      BY <3>3
    <3> QED BY <1>1, <2>2, <3>4
  <2> QED BY <2>3, <2>4
<1>5. StrictOrder(1..n, B)
  BY <1>2, <1>3, <1>4 DEF StrictOrder
<1> QED BY <1>5 DEF B

Weighed(g) == g.sum \in Int /\ Cardinality(g.stocks) \in Nat /\ Cardinality(g.stocks) # 0
InMeans(groups) ==
  \A i \in DOMAIN groups : i > 1 =>
     groups[i - 1].sum * Cardinality(groups[i].stocks) >= groups[i].sum * Cardinality(groups[i - 1].stocks)

\* Groups sorted are the same groups, each at least as high as the next.
LEMMA SortedAreInMeans ==
  ASSUME NEW T, NEW groups \in Seq(T), \A g \in T : Weighed(g)
  PROVE  Sorted(groups, Gained) \in Seq(T) /\ InMeans(Sorted(groups, Gained))
<1> DEFINE n == Len(groups)
           sum(i) == groups[i].sum
           size(i) == Cardinality(groups[i].stocks)
           A == {p \in (1..n) \X (1..n) : Gained(groups[p[1]], groups[p[2]])}
           Precedes(i, j) == Gained(groups[i], groups[j]) \/ (~Gained(groups[j], groups[i]) /\ i < j)
           R == Stable(n, A)
           o == Ordered(DOMAIN groups, LAMBDA i, j : Precedes(i, j))
           s == Sorted(groups, Gained)
<1>1. n \in Nat /\ DOMAIN groups = 1..n /\ \A i \in 1..n : groups[i] \in T
  OBVIOUS
<1>2. \A i \in 1..n : sum(i) \in Int /\ size(i) \in Nat /\ size(i) # 0
  BY <1>1 DEF Weighed
<1>3. \A i, j : Gained(groups[i], groups[j]) <=> sum(i) * size(j) > sum(j) * size(i)
  BY DEF Gained
<1>4. \A i, j \in 1..n : <<i, j>> \in A <=> Gained(groups[i], groups[j])
  OBVIOUS
<1>5. s = [k \in DOMAIN o |-> groups[o[k]]]
  BY DEF Sorted
<1> HIDE DEF n, sum, size, A
<1>6. \A i, j \in 1..n : sum(i) * size(j) \in Int
  BY <1>2
<1>7. \A i, j \in 1..n : <<i, j>> \notin A <=> sum(i) * size(j) <= sum(j) * size(i)
  <2> SUFFICES ASSUME NEW i \in 1..n, NEW j \in 1..n
               PROVE  <<i, j>> \notin A <=> sum(i) * size(j) <= sum(j) * size(i)
    OBVIOUS
  <2> DEFINE x == sum(i) * size(j)
             y == sum(j) * size(i)
  <2>1. x \in Int /\ y \in Int
    BY <1>6
  <2>2. <<i, j>> \in A <=> x > y
    BY <1>3, <1>4
  <2> HIDE DEF x, y
  <2>3. <<i, j>> \notin A <=> x <= y
    BY <2>1, <2>2
  <2> QED BY <2>3 DEF x, y
<1>8. \A i, j \in 1..n : <<i, j>> \in A => <<j, i>> \notin A
  <2> SUFFICES ASSUME NEW i \in 1..n, NEW j \in 1..n, <<i, j>> \in A PROVE <<j, i>> \notin A
    OBVIOUS
  <2> DEFINE x == sum(i) * size(j)
             y == sum(j) * size(i)
  <2>1. x \in Int /\ y \in Int
    BY <1>6
  <2>2. x > y
    BY <1>3, <1>4
  <2>3. y <= x => <<j, i>> \notin A
    BY <1>7
  <2> HIDE DEF x, y
  <2> QED BY <2>1, <2>2, <2>3
<1>9. ASSUME NEW i \in 1..n, NEW j \in 1..n, NEW k \in 1..n, <<i, j>> \notin A, <<j, k>> \notin A
      PROVE  <<i, k>> \notin A
  <2>1. sum(i) * size(j) <= sum(j) * size(i) /\ sum(j) * size(k) <= sum(k) * size(j)
    BY <1>7, <1>9
  <2>2. sum(i) * size(k) <= sum(k) * size(i)
    <3> DEFINE a == sum(i)
               b == sum(j)
               c == sum(k)
               p == size(i)
               q == size(j)
               r == size(k)
    <3>1. /\ a \in Int /\ b \in Int /\ c \in Int /\ p \in Nat /\ q \in Nat /\ r \in Nat
          /\ p # 0 /\ q # 0 /\ r # 0 /\ a * q <= b * p /\ b * r <= c * q
      BY <1>2, <2>1
    <3> HIDE DEF a, b, c, p, q, r
    <3>2. a * r <= c * p
      BY <3>1, MeansAreTransitive
    <3> QED BY <3>2 DEF a, c, p, r
  <2> QED BY <1>7, <2>2
<1>10. StrictOrder(1..n, R)
  <2>1. \A i, j, k \in 1..n : <<i, j>> \notin A /\ <<j, k>> \notin A => <<i, k>> \notin A
    BY <1>9
  <2> QED BY <1>1, <1>8, <2>1, StableIsStrict
<1>11. \A i, j \in 1..n : Precedes(i, j) <=> <<i, j>> \in R
  BY <1>4 DEF Stable
<1>12. o = OrderOf(1..n, R)
  <2> DEFINE C(k) == CHOOSE i \in 1..n : Cardinality({j \in 1..n : Precedes(j, i)}) = k - 1
             D(k) == CHOOSE i \in 1..n : Cardinality(Below(1..n, R, i)) = k - 1
  <2> HIDE DEF R, Precedes
  <2>1. \A i \in 1..n : {j \in 1..n : Precedes(j, i)} = Below(1..n, R, i)
    BY <1>11 DEF Below
  <2>2. \A k : C(k) = D(k)
    BY <2>1
  <2>3. o = [k \in 1..Cardinality(1..n) |-> C(k)]
    BY <1>1 DEF Ordered
  <2>4. OrderOf(1..n, R) = [k \in 1..Cardinality(1..n) |-> D(k)]
    BY DEF OrderOf
  <2> HIDE DEF C, D, o
  <2> QED BY <2>2, <2>3, <2>4
<1> HIDE DEF o, R, Precedes, s
<1>13. o \in [1..n -> 1..n] /\ \A k, l \in 1..n : k < l => <<o[k], o[l]>> \in R
  BY <1>1, <1>10, <1>12, PlacesInOrder
<1>14. DOMAIN s = 1..n /\ \A k \in 1..n : s[k] = groups[o[k]] /\ o[k] \in 1..n
  BY <1>5, <1>13
<1>15. s \in Seq(T)
  <2>1. s \in [1..n -> T]
    BY <1>1, <1>5, <1>13
  <2> QED BY <1>1, <2>1
<1>16. InMeans(s)
  <2> SUFFICES ASSUME NEW i \in 1..n, i > 1
               PROVE  s[i - 1].sum * Cardinality(s[i].stocks) >= s[i].sum * Cardinality(s[i - 1].stocks)
    BY <1>14 DEF InMeans
  <2>1. i - 1 \in 1..n /\ i - 1 < i
    BY <1>1
  <2>2. <<o[i - 1], o[i]>> \in R
    BY <1>13, <2>1
  <2> DEFINE u == o[i - 1]
             v == o[i]
  <2>3. u \in 1..n /\ v \in 1..n /\ s[i - 1] = groups[u] /\ s[i] = groups[v]
    BY <1>14, <2>1
  <2>4. <<u, v>> \in A \/ <<v, u>> \notin A
    BY <2>2, <2>3 DEF Stable, R
  <2> HIDE DEF u, v
  <2>5. <<v, u>> \notin A
    BY <1>8, <2>3, <2>4
  <2>6. sum(v) * size(u) <= sum(u) * size(v)
    BY <1>7, <2>3, <2>5
  <2>7. sum(v) * size(u) \in Int /\ sum(u) * size(v) \in Int
    BY <1>6, <2>3
  <2>8. sum(u) * size(v) >= sum(v) * size(u)
    BY <2>6, <2>7
  <2> QED BY <2>3, <2>8 DEF sum, size
<1> QED BY <1>15, <1>16 DEF s

LocalFields == {"frame", "at", "next", "late", "members", "groups"}
BothHalves == {"today", "yesterday"}
SoundGroups(groups, at, frame, which) ==
  /\ groups = <<>> \/ (at = "grouping" /\ GroupDay(frame, which) # 0)
  /\ AreGroups(groups, frame, GroupDay(frame, which)) /\ InMeans(groups)
LocalInv(l) ==
  /\ DOMAIN l = LocalFields /\ l.at \in {"reading", "grouping"} /\ l.frame \in Seq(LocalDays)
  /\ \A known \in l.late : l.members = known
  /\ DOMAIN l.groups = BothHalves
  /\ \A which \in BothHalves : SoundGroups(l.groups[which], l.at, l.frame, which)

LEMMA NoGroups ==
  ASSUME NEW groups, groups = <<>>, NEW at, NEW frame, NEW which
  PROVE  SoundGroups(groups, at, frame, which)
<1>1. groups \in Seq({}) /\ DOMAIN groups = {}
  OBVIOUS
<1>2. AreGroups(groups, frame, GroupDay(frame, which))
  BY <1>1 DEF AreGroups
<1>3. InMeans(groups)
  BY <1>1 DEF InMeans
<1>4. groups = <<>> \/ (at = "grouping" /\ GroupDay(frame, which) # 0)
  OBVIOUS
<1> QED BY <1>2, <1>3, <1>4, Zenon DEF SoundGroups

LEMMA LocalBegins == LocalInv(NewLocal)
<1> DEFINE l == NewLocal
<1>1. /\ DOMAIN l = LocalFields /\ l.at = "reading" /\ l.frame = <<>> /\ l.late = {}
      /\ DOMAIN l.groups = BothHalves /\ l.groups["today"] = <<>> /\ l.groups["yesterday"] = <<>>
  BY DEF NewLocal, LocalFields, BothHalves
<1>2. l.frame \in Seq(LocalDays)
  BY <1>1
<1> HIDE DEF l
<1>3. \A which \in BothHalves : l.groups[which] = <<>>
  BY <1>1 DEF BothHalves
<1>4. \A which \in BothHalves : SoundGroups(l.groups[which], l.at, l.frame, which)
  BY <1>3, NoGroups
<1>5. \A known \in l.late : l.members = known
  BY <1>1
<1>6. l.at \in {"reading", "grouping"} /\ DOMAIN l = LocalFields /\ DOMAIN l.groups = BothHalves
  BY <1>1
<1>7. LocalInv(l)
  BY <1>2, <1>4, <1>5, <1>6, Zenon DEF LocalInv
<1> QED BY <1>7 DEF l

\* The days that are grouped are in the frame.
LEMMA GroupDays ==
  ASSUME NEW frame \in Seq(LocalDays), NEW which \in BothHalves, GroupDay(frame, which) # 0
  PROVE  GroupDay(frame, which) \in 1..Len(frame)
<1>1. Len(frame) \in Nat
  OBVIOUS
<1>2. GroupDay(frame, which) = Len(frame) \/ (GroupDay(frame, which) = Len(frame) - 1 /\ Len(frame) >= 3)
  BY <1>1 DEF GroupDay
<1> QED BY <1>1, <1>2

\* One more group, in its place.
LEMMA OneMoreGroup ==
  ASSUME NEW frame \in Seq(LocalDays), NEW day \in 1..Len(frame), NEW groups, AreGroups(groups, frame, day),
         NEW g, GroupIs(g, frame, day)
  PROVE  LET more == Sorted(Append(groups, g), Gained) IN AreGroups(more, frame, day) /\ InMeans(more)
<1>1. PICK T : groups \in Seq(T) /\ \A h \in T : GroupIs(h, frame, day)
  BY DEF AreGroups
<1> DEFINE U == T \cup {g}
           more == Sorted(Append(groups, g), Gained)
<1>2. \A h \in U : GroupIs(h, frame, day)
  BY <1>1
<1>3. Append(groups, g) \in Seq(U)
  <2>1. groups \in Seq(U)
    BY <1>1
  <2>2. g \in U
    OBVIOUS
  <2> HIDE DEF U
  <2> QED BY <2>1, <2>2
<1>4. \A h \in U : Weighed(h)
  <2> SUFFICES ASSUME NEW h \in U PROVE Weighed(h)
    OBVIOUS
  <2>1. h.sum \in Int /\ IsFiniteSet(h.stocks) /\ h.stocks # {}
    BY <1>2 DEF GroupIs
  <2>2. Cardinality(h.stocks) \in Nat /\ Cardinality(h.stocks) # 0
    BY <2>1, FS_CardinalityType, FS_EmptySet
  <2> QED BY <2>1, <2>2 DEF Weighed
<1> HIDE DEF U
<1>5. more \in Seq(U) /\ InMeans(more)
  BY <1>3, <1>4, SortedAreInMeans
<1>6. AreGroups(more, frame, day)
  BY <1>2, <1>5 DEF AreGroups
<1> QED BY <1>5, <1>6

LEMMA MembersStay ==
  ASSUME NEW l, LocalInv(l), NEW board, NEW read, NEW w, w = WithMembers(l, board, read)
  PROVE  /\ DOMAIN w = LocalFields /\ w.at = l.at /\ w.frame = l.frame /\ w.late = l.late /\ w.groups = l.groups
         /\ \A known \in w.late : w.members = known
<1>1. DOMAIN l = LocalFields /\ \A known \in l.late : l.members = known
  BY DEF LocalInv
<1>2. CASE w = l
  BY <1>1, <1>2
<1>3. CASE w # l
  <2>1. l.late = {} /\ \E m : w = [l EXCEPT !.members = m]
    BY <1>3 DEF WithMembers
  <2>2. PICK m : w = [l EXCEPT !.members = m]
    BY <2>1
  <2>3. DOMAIN w = LocalFields /\ w.at = l.at /\ w.frame = l.frame /\ w.late = l.late /\ w.groups = l.groups
    BY <1>1, <2>2 DEF LocalFields
  <2> QED BY <2>1, <2>3
<1> QED BY <1>2, <1>3

LEMMA GroupedLocally ==
  ASSUME NEW l, LocalInv(l), l.at = "grouping", NEW which \in BothHalves, GroupDay(l.frame, which) # 0,
         NEW board, NEW read
  PROVE  LocalInv(Grouped(l, which, board, read))
<1> DEFINE w == WithMembers(l, board, read)
           day == GroupDay(l.frame, which)
           members == MembersOf(l, board, read)
           g == GroupOf(l.frame, day, board.name, members)
           z == Grouped(l, which, board, read)
           more == Sorted(Append(l.groups[which], g), Gained)
<1>1. /\ DOMAIN w = LocalFields /\ w.at = l.at /\ w.frame = l.frame /\ w.late = l.late /\ w.groups = l.groups
      /\ \A known \in w.late : w.members = known
  BY MembersStay
<1>2. /\ l.frame \in Seq(LocalDays) /\ DOMAIN l.groups = BothHalves
      /\ \A h \in BothHalves : SoundGroups(l.groups[h], l.at, l.frame, h)
  BY DEF LocalInv
<1>3. CASE members \cap DOMAIN l.frame[day] = {}
  <2>1. z = w
    BY <1>3 DEF Grouped
  <2> HIDE DEF z, w
  <2>2. LocalInv(w)
    BY <1>1, <1>2 DEF LocalInv
  <2> QED BY <2>1, <2>2 DEF z
<1>4. CASE members \cap DOMAIN l.frame[day] # {}
  <2>1. z = [w EXCEPT !.groups[which] = Sorted(Append(@, g), Gained)]
    BY <1>4 DEF Grouped
  <2>2. day \in 1..Len(l.frame)
    BY <1>2, GroupDays
  <2>3. GroupIs(g, l.frame, day)
    BY <1>2, <1>4, <2>2, GroupsAreOfTheDay
  <2>4. AreGroups(more, l.frame, day) /\ InMeans(more)
    <3>1. AreGroups(l.groups[which], l.frame, day)
      BY <1>2 DEF SoundGroups
    <3> QED BY <1>2, <2>2, <2>3, <3>1, OneMoreGroup
  <2> HIDE DEF z, w, g, more
  <2>5. z = [w EXCEPT !.groups = [w.groups EXCEPT ![which] = more]]
    BY <1>1, <2>1 DEF LocalFields, more
  <2>6. /\ DOMAIN z = LocalFields /\ z.at = l.at /\ z.frame = l.frame /\ z.late = w.late /\ z.members = w.members
        /\ z.groups = [l.groups EXCEPT ![which] = more]
    BY <1>1, <2>5 DEF LocalFields
  <2>7. DOMAIN z.groups = BothHalves /\ z.groups[which] = more /\ \A h \in BothHalves : h # which => z.groups[h] = l.groups[h]
    BY <1>2, <2>6
  <2>8. ASSUME NEW h \in BothHalves
        PROVE  SoundGroups(z.groups[h], z.at, z.frame, h)
    <3>1. CASE h = which
      <4>1. GroupDay(z.frame, which) = day /\ z.at = "grouping"
        BY <2>6
      <4>2. AreGroups(more, z.frame, day) /\ InMeans(more)
        BY <2>4, <2>6
      <4>3. SoundGroups(more, z.at, z.frame, which)
        BY <4>1, <4>2 DEF SoundGroups
      <4> QED BY <2>7, <3>1, <4>3
    <3>2. CASE h # which
      BY <1>2, <2>6, <2>7, <3>2
    <3> QED BY <3>1, <3>2
  <2>9. LocalInv(z)
    BY <1>1, <1>2, <2>6, <2>7, <2>8 DEF LocalInv
  <2> QED BY <2>9 DEF z
<1> QED BY <1>3, <1>4

LEMMA NextBoard ==
  ASSUME NEW l, LocalInv(l), NEW z, z = [l EXCEPT !.next = @ + 1]
  PROVE  LocalInv(z)
<1>1. DOMAIN l = LocalFields
  BY DEF LocalInv
<1>2. /\ DOMAIN z = LocalFields /\ z.at = l.at /\ z.frame = l.frame /\ z.late = l.late /\ z.members = l.members
      /\ z.groups = l.groups
  BY <1>1 DEF LocalFields
<1> QED BY <1>2 DEF LocalInv

LEMMA SpentLocally ==
  ASSUME NEW l, LocalInv(l), NEW z, z = [l EXCEPT !.late = {l.members}]
  PROVE  LocalInv(z)
<1>1. DOMAIN l = LocalFields
  BY DEF LocalInv
<1>2. /\ DOMAIN z = LocalFields /\ z.at = l.at /\ z.frame = l.frame /\ z.late = {l.members} /\ z.members = l.members
      /\ z.groups = l.groups
  BY <1>1 DEF LocalFields
<1> QED BY <1>2 DEF LocalInv

LEMMA LocalGoesOn ==
  ASSUME NEW l, LocalInv(l), NEW z \in LocalSteps(l, LocalBoards, LocalDays)
  PROVE  LocalInv(z)
<1> DEFINE boards == LocalBoards
           n == Len(boards)
           spent == IF l.late = {} THEN {l, [l EXCEPT !.late = {l.members}]} ELSE {l}
           Step(which, board) == UNION {NextGroup(m, which, board) : m \in spent}
           Grouping == IF l.frame = <<>> THEN {} ELSE {[l EXCEPT !.at = "grouping"]}
           More == IF Len(l.frame) = 3 THEN {} ELSE {[l EXCEPT !.frame = Append(@, day)] : day \in LocalDays}
<1>1. /\ DOMAIN l = LocalFields /\ l.at \in {"reading", "grouping"} /\ l.frame \in Seq(LocalDays)
      /\ \A known \in l.late : l.members = known
      /\ DOMAIN l.groups = BothHalves
      /\ \A which \in BothHalves : SoundGroups(l.groups[which], l.at, l.frame, which)
  BY DEF LocalInv
<1>2. \A m \in spent : LocalInv(m) /\ m.at = l.at /\ m.frame = l.frame
  <2> SUFFICES ASSUME NEW m \in spent PROVE LocalInv(m) /\ m.at = l.at /\ m.frame = l.frame
    OBVIOUS
  <2>1. m = l \/ m = [l EXCEPT !.late = {l.members}]
    OBVIOUS
  <2>2. CASE m = l
    BY <2>2
  <2>3. CASE m = [l EXCEPT !.late = {l.members}]
    <3>1. m.at = l.at /\ m.frame = l.frame
      BY <1>1, <2>3 DEF LocalFields
    <3> QED BY <2>3, <3>1, SpentLocally
  <2> QED BY <2>1, <2>2, <2>3
<1>3. ASSUME l.at = "grouping", NEW m \in spent, NEW which \in BothHalves, NEW board, z \in NextGroup(m, which, board)
      PROVE  LocalInv(z)
  <2>1. LocalInv(m) /\ m.at = "grouping"
    BY <1>2, <1>3
  <2> HIDE DEF spent
  <2>2. CASE board.name = "" \/ GroupDay(m.frame, which) = 0
    <3>1. z = [m EXCEPT !.next = @ + 1]
      BY <1>3, <2>2 DEF NextGroup
    <3> QED BY <2>1, <3>1, NextBoard
  <2>3. CASE ~(board.name = "" \/ GroupDay(m.frame, which) = 0)
    <3>1. PICK read : z = [Grouped(m, which, board, read) EXCEPT !.next = @ + 1]
      BY <1>3, <2>3 DEF NextGroup
    <3>2. LocalInv(Grouped(m, which, board, read))
      BY <2>1, <2>3, GroupedLocally
    <3> QED BY <3>1, <3>2, NextBoard
  <2> QED BY <2>2, <2>3
<1>4. CASE l.at = "reading"
  <2>1. LocalSteps(l, LocalBoards, LocalDays) = Grouping \cup More
    BY <1>4 DEF LocalSteps
  <2>2. \A which \in BothHalves : l.groups[which] = <<>>
    BY <1>1, <1>4 DEF SoundGroups
  <2>3. CASE z = [l EXCEPT !.at = "grouping"]
    <3>1. /\ DOMAIN z = LocalFields /\ z.at = "grouping" /\ z.frame = l.frame /\ z.late = l.late
          /\ z.members = l.members /\ z.groups = l.groups
      BY <1>1, <2>3 DEF LocalFields
    <3>2. \A which \in BothHalves : SoundGroups(z.groups[which], z.at, z.frame, which)
      BY <2>2, <3>1, NoGroups
    <3> QED BY <1>1, <3>1, <3>2 DEF LocalInv
  <2>4. ASSUME NEW day \in LocalDays, z = [l EXCEPT !.frame = Append(@, day)] PROVE LocalInv(z)
    <3>1. /\ DOMAIN z = LocalFields /\ z.at = l.at /\ z.frame = Append(l.frame, day) /\ z.late = l.late
          /\ z.members = l.members /\ z.groups = l.groups
      BY <1>1, <2>4 DEF LocalFields
    <3>2. z.frame \in Seq(LocalDays)
      BY <1>1, <3>1
    <3>3. \A which \in BothHalves : SoundGroups(z.groups[which], z.at, z.frame, which)
      BY <2>2, <3>1, NoGroups
    <3>4. \A known \in z.late : z.members = known
      BY <1>1, <3>1
    <3>5. DOMAIN z = LocalFields /\ z.at \in {"reading", "grouping"} /\ DOMAIN z.groups = BothHalves
      BY <1>1, <3>1
    <3> QED BY <3>2, <3>3, <3>4, <3>5, Zenon DEF LocalInv
  <2>5. z \in Grouping => z = [l EXCEPT !.at = "grouping"]
    OBVIOUS
  <2>6. z \in More => \E day \in LocalDays : z = [l EXCEPT !.frame = Append(@, day)]
    OBVIOUS
  <2> HIDE DEF Grouping, More
  <2> QED BY <2>1, <2>3, <2>4, <2>5, <2>6
<1>5. CASE l.at = "grouping"
  <2> DEFINE Today == Step("today", boards[l.next])
             Yesterday == Step("yesterday", boards[l.next - n])
  <2>1. \/ LocalSteps(l, LocalBoards, LocalDays) = Today
        \/ LocalSteps(l, LocalBoards, LocalDays) = Yesterday
        \/ LocalSteps(l, LocalBoards, LocalDays) = {}
    <3>1. CASE l.next <= n
      BY <1>5, <3>1 DEF LocalSteps
    <3>2. CASE ~(l.next <= n) /\ n < l.next /\ l.next <= 2 * n
      BY <1>5, <3>2 DEF LocalSteps
    <3>3. CASE ~(l.next <= n) /\ ~(n < l.next /\ l.next <= 2 * n)
      BY <1>5, <3>3 DEF LocalSteps
    <3> QED BY <3>1, <3>2, <3>3
  <2>2. "today" \in BothHalves /\ "yesterday" \in BothHalves
    BY DEF BothHalves
  <2> HIDE DEF spent
  <2>3. z \in Today => LocalInv(z)
    BY <1>3, <1>5, <2>2
  <2>4. z \in Yesterday => LocalInv(z)
    BY <1>3, <1>5, <2>2
  <2> HIDE DEF Today, Yesterday
  <2> QED BY <2>1, <2>3, <2>4
<1> QED BY <1>1, <1>4, <1>5

LEMMA LocalIsSound ==
  ASSUME NEW l, LocalInv(l)
  PROVE  LocalIsOfItsDay(l)
<1>1. /\ l.frame \in Seq(LocalDays) /\ \A known \in l.late : l.members = known
      /\ \A which \in BothHalves : /\ AreGroups(l.groups[which], l.frame, GroupDay(l.frame, which))
                               /\ InMeans(l.groups[which])
  BY DEF LocalInv, SoundGroups
<1>2. l.frame # <<>> => LocalBreadth(l.frame).total = Cardinality(DOMAIN l.frame[Len(l.frame)])
  BY <1>1, DayIsCounted
<1>3. ASSUME NEW which \in BothHalves, NEW i \in DOMAIN l.groups[which]
      PROVE  LET day == GroupDay(l.frame, which)
                 g == l.groups[which][i] IN
             /\ g.stocks \subseteq DOMAIN l.frame[day] /\ g.leader \in g.stocks
             /\ \A s \in g.stocks : LocalChange(l.frame, day, s) <= LocalChange(l.frame, day, g.leader)
             /\ i > 1 => l.groups[which][i - 1].sum * Cardinality(g.stocks)
                           >= g.sum * Cardinality(l.groups[which][i - 1].stocks)
  <2> DEFINE day == GroupDay(l.frame, which)
             groups == l.groups[which]
  <2>1. AreGroups(groups, l.frame, day) /\ InMeans(groups)
    BY <1>1
  <2>2. i \in DOMAIN groups
    BY <1>3
  <2> HIDE DEF groups, day
  <2>3. PICK T : groups \in Seq(T) /\ \A h \in T : GroupIs(h, l.frame, day)
    BY <2>1 DEF AreGroups
  <2>4. GroupIs(groups[i], l.frame, day)
    BY <2>2, <2>3
  <2>5. i > 1 => groups[i - 1].sum * Cardinality(groups[i].stocks) >= groups[i].sum * Cardinality(groups[i - 1].stocks)
    BY <2>1, <2>2 DEF InMeans
  <2> QED BY <2>4, <2>5, Zenon DEF GroupIs, groups, day
<1> QED BY <1>1, <1>2, <1>3, Zenon DEF LocalIsOfItsDay, BothHalves

-----------------------------------------------------------------------------
(* RealtimeSources: the sources, whichever is asked.                        *)

SourcesState ==
  /\ "of" \in DOMAIN work
  /\ work.of = "pool" => "y" \in DOMAIN work /\ PoolInv(work.y)
  /\ work.of = "breadth" => "b" \in DOMAIN work /\ BreadthInv(work.b)
  /\ work.of = "sectors" => "s" \in DOMAIN work /\ SectorsInv(work.s)
  /\ work.of = "local" => "l" \in DOMAIN work /\ LocalInv(work.l)
SourceKinds == {"pool", "breadth", "sectors", "local"}

LEMMA SourcesStateBegins ==
  ASSUME Init
  PROVE  SourcesState
<1> SUFFICES ASSUME work.of \in SourceKinds PROVE SourcesState
  BY InitIsNamed DEF SourcesState, SourceKinds
<1>1. MarketBegins
  <2>1. ASSUME SyncBegins PROVE work.of = "sync"
    BY <2>1 DEF SyncBegins
  <2>2. ASSUME DailyBegins PROVE work.of = "daily"
    BY <2>2 DEF DailyBegins
  <2>3. ~FetchBegins
    BY DEF FetchBegins, SourceKinds
  <2>4. ~DataBegins
    BY <2>1, <2>2 DEF DataBegins, SourceKinds
  <2>5. ~TextBegins
    BY DEF TextBegins, SourceKinds
  <2>6. ~\E overlap \in BOOLEAN : work = [of |-> "launch", n |-> NewLaunch(overlap)]
    BY DEF SourceKinds
  <2> QED BY <2>3, <2>4, <2>5, <2>6 DEF Init
<1>2. ASSUME NEW backup \in BOOLEAN, NEW stocks \in {0, Cardinality(Listed)}, NEW cached,
             work = [of |-> "breadth", b |-> NewBreadth(backup, stocks, cached)]
      PROVE  SourcesState
  <2>1. DOMAIN work = {"of", "b"} /\ work.of = "breadth" /\ work.b = NewBreadth(backup, stocks, cached)
    BY <1>2
  <2>2. stocks \in Nat
    BY SourceAssumption, FS_CardinalityType
  <2>3. BreadthInv(work.b)
    BY <2>1, <2>2, BreadthBegins
  <2> QED BY <2>1, <2>3 DEF SourcesState
<1>3. ASSUME work = [of |-> "sectors", s |-> NewSectors] PROVE SourcesState
  <2>1. DOMAIN work = {"of", "s"} /\ work.of = "sectors" /\ work.s = NewSectors
    BY <1>3
  <2> QED BY <2>1, SectorsBegin DEF SourcesState
<1>4. ASSUME NEW pool \in 0..MaxPool, NEW per \in 1..PoolPage, NEW declares \in {"total", "pages", "nothing"},
             work = [of |-> "pool", y |-> NewPool(pool, per, declares)]
      PROVE  SourcesState
  <2>1. DOMAIN work = {"of", "y"} /\ work.of = "pool" /\ work.y = NewPool(pool, per, declares)
    BY <1>4
  <2>2. pool \in Nat
    BY SourceAssumption
  <2>3. PoolInv(work.y)
    BY <2>1, <2>2, PoolBegins
  <2> QED BY <2>1, <2>3 DEF SourcesState
<1>5. ASSUME work = [of |-> "local", l |-> NewLocal] PROVE SourcesState
  <2>1. DOMAIN work = {"of", "l"} /\ work.of = "local" /\ work.l = NewLocal
    BY <1>5
  <2> QED BY <2>1, LocalBegins DEF SourcesState
<1> QED BY <1>1, <1>2, <1>3, <1>4, <1>5, Zenon DEF MarketBegins

LEMMA SourcesStateGoesOn ==
  ASSUME SourcesState, [Next]_work
  PROVE  SourcesState'
<1>1. "of" \in DOMAIN work /\ "of" \in DOMAIN work' /\ work'.of = work.of
  BY NextIsNamed DEF SourcesState
<1>2. CASE work' = work
  BY <1>2 DEF SourcesState
<1>3. ASSUME work' # work, work.of \in SourceKinds
      PROVE  \/ work.of = "pool" /\ \E y \in PoolSteps(work.y) : work' = [work EXCEPT !.y = y]
             \/ work.of = "breadth" /\ \E b \in BreadthSteps(work.b) : work' = [work EXCEPT !.b = b]
             \/ work.of = "sectors" /\ \E s \in SectorSteps(work.s) : work' = [work EXCEPT !.s = s]
             \/ work.of = "local" /\ \E l \in LocalSteps(work.l, LocalBoards, LocalDays) : work' = [work EXCEPT !.l = l]
  BY <1>1, <1>3
  DEF Next, SendRequest, AskForSlot, FetchBars, TryCombination, ReadPage, FetchFlow, FetchBatch,
      KeepRows, WriteRow, AppendRow, AskForBreadth, AskForSectors, RefreshPool, ReadLocal,
      WriteMemory, TakeTurn, SyncMarket, FetchDaily, LiveOn, FillFlow, Launch, SourceKinds
<1>4. CASE work.of = "pool" /\ \E y \in PoolSteps(work.y) : work' = [work EXCEPT !.y = y]
  <2>1. PICK y \in PoolSteps(work.y) : work' = [work EXCEPT !.y = y]
    BY <1>4
  <2>2. "y" \in DOMAIN work /\ PoolInv(work.y)
    BY <1>4 DEF SourcesState
  <2>3. PoolInv(y)
    BY <2>2, PoolGoesOn
  <2>4. "y" \in DOMAIN work' /\ work'.y = y
    BY <2>1, <2>2
  <2>5. PoolInv(work'.y) /\ work'.of = "pool"
    BY <1>1, <1>4, <2>3, <2>4
  <2> QED BY <1>1, <2>4, <2>5 DEF SourcesState
<1>5. CASE work.of = "breadth" /\ \E b \in BreadthSteps(work.b) : work' = [work EXCEPT !.b = b]
  <2>1. PICK b \in BreadthSteps(work.b) : work' = [work EXCEPT !.b = b]
    BY <1>5
  <2>2. "b" \in DOMAIN work /\ BreadthInv(work.b)
    BY <1>5 DEF SourcesState
  <2>3. BreadthInv(b)
    BY <2>2, BreadthGoesOn
  <2>4. "b" \in DOMAIN work' /\ work'.b = b
    BY <2>1, <2>2
  <2>5. BreadthInv(work'.b) /\ work'.of = "breadth"
    BY <1>1, <1>5, <2>3, <2>4
  <2> QED BY <1>1, <2>4, <2>5 DEF SourcesState
<1>6. CASE work.of = "sectors" /\ \E s \in SectorSteps(work.s) : work' = [work EXCEPT !.s = s]
  <2>1. PICK s \in SectorSteps(work.s) : work' = [work EXCEPT !.s = s]
    BY <1>6
  <2>2. "s" \in DOMAIN work /\ SectorsInv(work.s)
    BY <1>6 DEF SourcesState
  <2>3. SectorsInv(s)
    BY <2>2, SectorsGoOn
  <2>4. "s" \in DOMAIN work' /\ work'.s = s
    BY <2>1, <2>2
  <2>5. SectorsInv(work'.s) /\ work'.of = "sectors"
    BY <1>1, <1>6, <2>3, <2>4
  <2> QED BY <1>1, <2>4, <2>5 DEF SourcesState
<1>7. CASE work.of = "local" /\ \E l \in LocalSteps(work.l, LocalBoards, LocalDays) : work' = [work EXCEPT !.l = l]
  <2>1. PICK l \in LocalSteps(work.l, LocalBoards, LocalDays) : work' = [work EXCEPT !.l = l]
    BY <1>7
  <2>2. "l" \in DOMAIN work /\ LocalInv(work.l)
    BY <1>7 DEF SourcesState
  <2>3. LocalInv(l)
    BY <2>2, LocalGoesOn
  <2>4. "l" \in DOMAIN work' /\ work'.l = l
    BY <2>1, <2>2
  <2>5. LocalInv(work'.l) /\ work'.of = "local"
    BY <1>1, <1>7, <2>3, <2>4
  <2> QED BY <1>1, <2>4, <2>5 DEF SourcesState
<1>8. CASE work.of \notin SourceKinds
  BY <1>1, <1>8 DEF SourcesState, SourceKinds
<1> QED BY <1>2, <1>3, <1>4, <1>5, <1>6, <1>7, <1>8

\* realtime.py: the breadth that is shown adds up and came, whole, from a source asked in
\* time; sectors are shown with the rows they were made of, and nothing is published once
\* the budget is spent; the pool that is cached is the whole one of its day; and the boards
\* of the local snapshot count, lead and rank the stocks of their own day.
THEOREM SourcesCorrect == Spec => []SourcesAddUp
<1>1. SourcesState => SourcesAddUp
  <2> SUFFICES ASSUME SourcesState PROVE SourcesAddUp
    OBVIOUS
  <2>1. work.of = "pool" => PoolIsWhole(work.y)
    BY DEF SourcesState, PoolInv
  <2>2. work.of = "breadth" => BreadthIsWhole(work.b)
    BY DEF SourcesState, BreadthInv
  <2>3. work.of = "sectors" => SectorsAreOfTheirRows(work.s)
    BY DEF SourcesState, SectorsInv
  <2>4. work.of = "local" => LocalIsOfItsDay(work.l)
    BY LocalIsSound DEF SourcesState
  <2> QED BY <2>1, <2>2, <2>3, <2>4 DEF SourcesAddUp
<1> QED BY <1>1, SourcesStateBegins, SourcesStateGoesOn, PTL DEF Spec
=============================================================================
