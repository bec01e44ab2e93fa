SPECIFICATION FairSpec
CONSTANTS
  None = None
  Parts <- MCTwo
  Slots <- MCSlots
  Requests = {r1, r2}
INVARIANTS
  RetainedIsNewest
  BusyMeansWorking
  QuotesAreOfTheRequest
PROPERTIES
  RequestsEnd
