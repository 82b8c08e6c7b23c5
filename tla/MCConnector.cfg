SPECIFICATION Spec
CONSTANTS
  Parts = {"client", "endpoints", "events", "blocks", "peers", "genesis", "fees"}
  Caller = {sub, c1}
  Subscriber = sub
  MaxFailures = 2
  MaxLosses = 1
  NodeCall = {1}
  Peer = {"p", "q"}
  Reload = {1, 2}
  NUM_REQUEST_RETRIES = 2
  LastHeight = 3
  MaxEpoch = 2
  MaxNodeCalls = 1
  MaxNodeFailures = 1
  Loader = {1, 2}
  Retries = 1
  MaxLoaderRestarts = 1
  MaxBadDownloads = 2
  Mode = {"full", "quick"}
  GenesisHeight = 1
  MaxHeight = 3
  Congested = {2, 3}
  DefaultStartBlockHeight = 1
  ColdStartBatchSize = 1
  EmaBatchSize = 3
  MaxFaults = 1
INVARIANTS
  TypeOK
  NodeAnswersFaithful
  TimeoutsSafe
  CachesSound
  EstimatesSound
PROPERTIES
  OverlapOnlyAfterTimeout
  CallersServed
  ClientReconnects
  BlocksServed
  FeesFollow
CHECK_DEADLOCK FALSE
