--------------------------- MODULE MCFlowBackfill ---------------------------
EXTENDS FlowBackfill
MCDays == 1..2
MCKnownGaps == {1}
============================================================================
