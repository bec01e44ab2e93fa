SPECIFICATION Spec
CONSTANTS
    Retries = 1
    Timeout = 3
    HostInterval = 2
    PageSize = 2
    MaxPages = 3
    WarmupDays = 1
    SinaMax = 4
    SinaSlack = 2
    MaxCombinations = 6
    SupplementMax = 1
    BaiduPage = 2
    BaiduPages = 4
    RetryRounds = 2
    Hosts = {h1, h2}
    Horizon = 2
    Windows <- MCWindows
    Histories <- MCHistories
    Codes <- MCCodes
    KeptMax = 2
    Stocks = {s1, s2, s3}
    Whole = {s2, s3}
    LastDay = 4
    SourceGaps = {3}
    SourceStarts = {4}
    SourceLag = 1
    MinDays = 3
    Bars <- MCBars
    MaxBars = 4
    Strategies <- MCStrategies
    Texts <- MCTexts
    Contents <- MCContents
    MaxRecords = 2
    MaxHits = 1
    HitBoost = 180
    StrategyLines = 1
    ProfileLimit = 1
    FactsLimit = 1
    MaxWrites = 3
    MaxTurns = 6
    MinTotal = 3
    Listed <- MCListed
    BatchSize = 2
    MaxCount = 4
    Boards <- MCBoards
    MinBackupRows = 2
    SectorLimit = 2
    PoolPage = 2
    PoolPages = 3
    MaxPool = 7
    LocalBoards <- MCLocalBoards
    LocalDays <- MCLocalDays
    AtFirst <- MCAtFirst
    Fetched <- MCFetched
    Buffer = 1
    SyncBatch = 2
    WriteRows = 5
    TailDays = 1
    FlowBatch = 2
    MinCurrent = 2
    StaleDays = 1
    Shells = {a, b}
    MaxPorts = 3
    MaxExits = 2
    Lives <- MCLives
SYMMETRY MCSymmetry
INVARIANTS
  BarsComplete
  SyncAccounted
  FetchHonest
  ServiceIsSingle
  FlowReported
  GapsAgree
  ConditionsAgree
  TextsAreDecided
  SourcesAddUp
  MemoryIsSound
CHECK_DEADLOCK FALSE
