SPECIFICATION FairSpec
CONSTANTS
  day = day
  flow = flow
  empty = empty
  NoSig = NoSig
  Jobs = {j1, j2}
  Signatures <- MCAllSigs
  FlowSigs <- MCFlow
  EmptySigs <- MCEmpty
  Budget = 2
  MaxKeep = 1
  Retention = 1
  ReadStale = 1
  RunStale = 1
  Prompt <- MCNotPrompt
  MaxBatches = 1
INVARIANT
  CutIsNotCompleted
