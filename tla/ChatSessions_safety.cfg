SPECIFICATION Spec
CONSTANTS
  s1 = s1
  s2 = s2
  s3 = s3
  None = None
  Ids <- MCIds2
  Old <- MCOld1
  Requests = {r1, r2, r3}
  Deleters = {d1}
  MaxLocks = 1
  MaxSessions = 1
SYMMETRY Symmetry
INVARIANTS
  LocksExclude
  NothingLeaks
  StopHitsItsTurn
PROPERTIES
  ClaimedIsSpared
CHECK_DEADLOCK FALSE
