SPECIFICATION ImportSpec
CONSTANTS
    Symbols = {s1, s2, s3, s4}
    Workers = {w1, w2}
    FailureLimit = 2
    Cooldown = 2
    CallMax = 1
    BatchSize = 2
    MaxCrashes = 1
SYMMETRY Symmetry
INVARIANTS
  ProbesAreSound
  ProgressIsTrue
  NobodyWaits
CHECK_DEADLOCK FALSE
