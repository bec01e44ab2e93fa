SPECIFICATION Spec
CONSTANTS
  Symbols = {s1, s2}
  Bars <- MCBars
  NoBar = NoBar
  Days = 4
  InitialCash = 400000
  BoardLot = 2
  FeePct = 2
  TaxPct = 3
  SlippagePct = 5
  SizePct = 60
  EqualSlots = TRUE
  LimitUpBlocks = TRUE
  LimitDownBlocks = TRUE
  HoldingDays = 3
  ProfitPct = 30
  LossPct = 20
  MaxPositions = 2
  MaxDailyBuys = 2
SYMMETRY Symmetry
INVARIANTS
  PortfolioIsSound
  SizedBySignalEquity
  SellsWhenDue
PROPERTIES
  TradesAreLegal
CHECK_DEADLOCK FALSE
