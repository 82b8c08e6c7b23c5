SPECIFICATION Spec
CONSTANTS
  Parts = {"routes", "rpc", "queries"}
  registeredModuleNames <- MCModules
  MULTI_REQUEST_CONCURRENCY = 2
  CacheTTL = 1
  MaxCallTicks = 1
  MaxBatches = 2
  Key = {1, 2, 3}
  Version = {1, 2}
  Account = {"a", "b"}
  Owner <- MCOwner
  Counterpart <- MCCounterpart
  poolOrder <- MCPoolOrder
  Flagged = {1, 3}
  numNetworks = 2
  QueryRequests <- MCQueryRequests
  MaxQueries = 1
  MaxChanges = 2
INVARIANTS
  RoutesFaithful
  RpcFaithful
  
  AnswersFit
PROPERTIES
  GatewayAnswers
CHECK_DEADLOCK FALSE
