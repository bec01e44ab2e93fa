SPECIFICATION Spec
CONSTANTS
  s1 = s1
  s2 = s2
  s3 = s3
  None = None
  Ids <- MCIds3
  Old <- MCOld2
  Requests = {r1, r2, r3}
  Deleters = {}
  MaxLocks = 2
  MaxSessions = 1
SYMMETRY Symmetry
PROPERTIES
  SavedTurnsStay
CHECK_DEADLOCK FALSE
