SPECIFICATION Spec
CONSTANTS
    Symbols = {s1, s2}
    Days <- MCDays
    KnownGaps <- MCKnownGaps
    LateStart = {s2}
    BatchSize = 2
    MaxFailures = 1
    MaxCrashes = 1
    MaxOthers = 1
INVARIANTS
  LinesAreTrue
PROPERTIES
  FilledStaysFilled
  BackfillEnds
CHECK_DEADLOCK FALSE
