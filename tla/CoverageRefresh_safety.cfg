SPECIFICATION CoverageFairSpec
CONSTANTS
  http = http
  ai = ai
  Writers <- MCWriters
  AiWriters <- MCAiWriters
  Refreshers = {r1, r2}
  MaxWrites = 2
INVARIANTS
  FlagHasThread
PROPERTIES
  ForcedWriteIsRead
