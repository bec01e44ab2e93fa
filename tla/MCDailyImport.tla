--------------------------- MODULE MCDailyImport ---------------------------
EXTENDS DailyImport
Symmetry == Permutations(Symbols) \cup Permutations(Workers)
============================================================================
