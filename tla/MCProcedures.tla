--------------------------- MODULE MCProcedures ---------------------------
EXTENDS Procedures
MCWindows == {<<3, 6>>, <<2, 3>>, <<5, 8>>}
MCHistories == {1..8, {1, 2, 4, 7, 8}, {5}, {8}}
MCCodes == 1..3
Life(born, gone, late, young) == [born |-> born, gone |-> gone, late |-> late, young |-> young]
MCLives == {Unknown, Life(2, 5, TRUE, {}), Life(1, 3, FALSE, {1})}
MCAtFirst == {<<"full", "full", "full", "full">>, <<"full", "none", "full", "full">>, <<"bar", "bar", "none", "bar">>,
              <<"bar", "full", "full", "full">>, <<"none", "none", "none", "none">>}
Brought(bars, flow, crawl, fails, age) ==
    [bars |-> bars, flow |-> flow, crawl |-> crawl, fails |-> fails, age |-> age]
MCFetched == {NoAnswer, Brought(1..4, {}, 1..4, FALSE, {3}), Brought(1..3, 1..3, {}, TRUE, {}),
              Brought(1..4, {1}, 2..3, FALSE, {}), Brought({1, 2}, {}, 1..4, FALSE, {7}), Brought({4}, {4}, {}, FALSE, {1})}

Bar(close, high, low, volume, flow, cap, turnover, heat, dif) ==
    [close |-> close, high |-> high, low |-> low, volume |-> volume, flow |-> flow,
     cap |-> cap, turnover |-> turnover, heat |-> heat, dif |-> dif, dea |-> 0]
MCBars == {Bar(10, 10, 9, 2, {30000}, {500000000}, {2}, 600, 1),
           Bar(11, 12, 10, 4, {-20000}, {}, {8}, 500, 0),
           Bar(12, 12, 11, 1, {}, {200000000}, {}, 400, -1),
           Bar(9, 11, 8, 0, {0}, {100000000}, {1}, 550, -1)}

Text(says, window, lo, hi, unit) ==
    [says |-> says, window |-> window, lo |-> lo, hi |-> hi, units |-> <<unit, unit>>, strict |-> FALSE]
Strictly(text) == [text EXCEPT !.strict = TRUE]
MCTexts == {
    <<Text("above ma", <<"d2">>, 0, 0, ""), 2>>, <<Text("below ma", <<"liang">>, 0, 0, ""), 2>>,
    <<Text("breakout", <<"er">>, 0, 0, ""), 2>>, <<Text("breakdown", <<"d1">>, 0, 0, ""), 1>>,
    <<Strictly(Text("inflow", <<"d2">>, 1, 0, "wan")), 2>>, <<Text("outflow", <<"yi">>, 0, 2, "wan"), 1>>,
    <<Text("outflow", <<"d3">>, 0, 0, ""), 3>>, <<Strictly(Text("outflow today", <<>>, 0, 0, "")), 0>>,
    <<Strictly(Text("return at most", <<"san">>, 0, 10, "")), 3>>, <<Text("return between", <<"d1">>, -10, 10, ""), 1>>,
    <<Text("volume ratio", <<"d2">>, 1, 2, ""), 2>>, <<Text("turnover", <<>>, 2, 8, ""), 0>>,
    <<Text("market cap", <<>>, 1, 2, "yi"), 0>>, <<Strictly(Text("rising ratio", <<>>, 55, 0, "")), 0>>,
    <<Strictly(Text("histogram", <<>>, 0, 0, "")), 0>>, <<Text("histogram", <<>>, 2, 0, ""), 0>>,
    <<Text("rising ratio", <<>>, 55, 0, ""), 0>>, <<Text("dead cross", <<>>, 0, 0, ""), 0>>,
    <<Text("below ma", <<"shi">>, 0, 0, ""), 10>>, <<Text("above ma", <<"shi", "er">>, 0, 0, ""), 12>>,
    <<Text("breakout", <<"san", "shi">>, 0, 0, ""), 30>>, <<Text("inflow", <<"d2", "d0">>, 1, 0, "yi"), 20>>}

One(set) == CHOOSE n \in set : TRUE
EntryNodes == UNION {EntryNode(t[1]) : t \in MCTexts}
ExitNodes == UNION {ExitNode(t[1]) : t \in MCTexts}
MCNodes == EntryNodes \cup ExitNodes
              \cup {NodeOf("flow today at least", 0, 0, 0), NodeOf("positive count", 2, 1, 0)}
Lagged(n) == [n EXCEPT !.lag = 1]
Weighed(n) == [n EXCEPT !.weight = 2]
Group(op, nodes) == [op |-> op, nodes |-> nodes]
Strategy(filters, groups, threshold) == [filters |-> filters, groups |-> groups, threshold |-> threshold]
Cross == NodeOf("dead cross", 0, 0, 0)
High == NodeOf("breakout", 2, 0, 0)
Inflow == NodeOf("flow sum at least", 2, 10000, 0)
MCStrategies ==
    {Strategy(<<>>, <<Group("and", <<n>>)>>, {}) : n \in {m \in MCNodes : m.window < 4}}
    \cup {Strategy(<<High>>, <<Group("or", <<Lagged(Cross), Inflow>>)>>, {}),
          Strategy(<<Lagged(High)>>, <<Group("and", <<Inflow, [Cross EXCEPT !.enabled = FALSE]>>)>>, {}),
          Strategy(<<>>, <<Group("score", <<Weighed(High), Weighed(Lagged(Inflow)), Weighed(Cross)>>)>>, {4}),
          Strategy(<<>>, <<Group("score", <<Weighed(High)>>), Group("or", <<High, Cross>>)>>, {}),
          Strategy(<<>>, <<Group("and", <<Lagged(Cross), High>>), Group("or", <<Inflow, Lagged(Inflow)>>)>>, {})}
Fact(says, codes, market) == [says |-> says, codes |-> codes, market |-> market]
MCContents == {Fact("one", {1}, FALSE), Fact("both", {1, 2}, FALSE), Fact("price", {1}, TRUE)}
MCListed == 1..4
Board(name, change) == [name |-> name, change |-> change, up |-> 1, down |-> 1]
MCBoards == {Board("A", {1}), Board("A", {}), Board("B", {0}), Board("B", {-1}), Board("", {1})}
MCLocalBoards == <<[name |-> "A", members |-> {}], [name |-> "", members |-> {}],
                   [name |-> "B", members |-> {1, 3}]>>
DayOf(S, o, c) == [s \in S |-> [open |-> o[s], close |-> c[s]]]
MCLocalDays == {DayOf({1}, <<1, 1, 1>>, <<2, 1, 1>>), DayOf({2, 3}, <<2, 2, 1>>, <<2, 1, 2>>),
                DayOf({1, 2, 3}, <<1, 2, 2>>, <<2, 2, 1>>), DayOf({1, 2}, <<2, 1, 1>>, <<1, 2, 2>>),
                DayOf({1, 2, 3}, <<2, 1, 1>>, <<2, 2, 2>>), DayOf({1, 3}, <<1, 1, 2>>, <<1, 2, 1>>)}
MCSymmetry == Permutations(Whole)
============================================================================
