SPECIFICATION Spec
CONSTANTS
  app1 = app1
  script = script
  None = None
  Writers <- MCPair
  Inside <- MCApp
  Years <- MCYears
  Cells = {c1, c2}
  Caches = {gap, count}
  Recomputed = {count}
  Readers = {q1}
  MaxAttempts = 2
SYMMETRY Symmetry
INVARIANTS
  DoneMeansMerged
  MissesOnlyOverlaps
PROPERTIES
  MergesAreAtomic
CHECK_DEADLOCK FALSE
