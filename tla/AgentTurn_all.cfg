SPECIFICATION AgentSpec
CONSTANTS
    MaxCalls = 2
    MaxSteps = 2
    Window = 4
    MaxPersisted = 5
    MaxParallel = 2
    Histories <- MCHistories
    MaxTurns = 2
INVARIANTS
  RequestsAreLegal
PROPERTIES
  WritesAreSafe
  TurnsEnd
CHECK_DEADLOCK FALSE
