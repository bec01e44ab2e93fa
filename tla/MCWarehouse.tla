---------------------------- MODULE MCWarehouse ----------------------------
(* Warehouse with the service, one script and two years, for TLC.          *)
EXTENDS Warehouse, TLC

CONSTANTS app1, script

MCPair     == {app1, script}
MCApp      == {app1}
MCYears    == {2025, 2026}

Symmetry   == Permutations(Cells)
=============================================================================
