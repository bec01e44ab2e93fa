--------------------------- MODULE PartitionStore ---------------------------
(* What the data warehouse promises about its year partitions: a write      *)
(* lands in a partition at one instant, as a merge of the frame's values    *)
(* over the values that are there (data/warehouse.py, write_daily_bars);    *)
(* no other step changes a partition.                                       *)

CONSTANTS Years, Cells, Values, NoValue

VARIABLE data                    \* data[y][c]: the value of the cell c in the year y

Merge(old, cells, v) == [c \in Cells |-> IF c \in cells THEN v ELSE old[c]]

Init == data = [y \in Years |-> [c \in Cells |-> NoValue]]

Write(y, cells, v) == data' = [data EXCEPT ![y] = Merge(@, cells, v)]

Next == \E y \in Years, cells \in SUBSET Cells, v \in Values : Write(y, cells, v)

Spec == Init /\ [][Next]_data
=============================================================================
