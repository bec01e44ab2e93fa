--------------------------- MODULE MCAgentTurn ---------------------------
EXTENDS AgentTurn
MCHistories ==
    LET shapes == {Question, Says({}), Says({1}), Says({1, 2}), Result(1), Result(2)}
    IN  UNION {[1..n -> shapes] : n \in 0..3}
============================================================================
