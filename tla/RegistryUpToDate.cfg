SPECIFICATION RegistrySpec
CONSTANTS
  Services = {"registry"}
  Sources <- MCSources
  targetPairs <- MCTargetPairs
  Updater = {1, 2}
  TTL <- MCTTL
  MaxLag = 1
  MaxOutages = 1
  Group <- MCGroup
  Token = {"lsk"}
  LastDay = 1
  historyLengthDays = 2
  PageSize = 1
  DefaultMaxAmount = 3
  MaxTxs = 2
  MaxDropped = 1
  MaxFailures = 1
  Kinds <- MCKinds
  LastExportDay = 2
  Interval <- MCInterval
  Worker = {1}
  retentionInDays = 1
  MAX_NUM_TRANSACTIONS = 1
  MaxRequests = 2
  Attempts = 2
  App = {"a", "b"}
  ChainName = {"n", "m"}
  TokenSets <- MCTokenSets
  PoolSize = 2
  MaxPushes = 2
  MaxMishaps = 1
PROPERTY RegistryStaysUpToDate
CHECK_DEADLOCK FALSE
