SPECIFICATION IndexerSpec
CONSTANTS
  Parts = {"gaps", "validators", "readiness"}
  MaxHeight = 7
  Validator = {1, 2, 3}
  GenesisValidators = {1, 2}
  Punished = {1}
  StakeCap = 2
  MinWeight = 1
  numberActiveValidators = 1
  numberStandbyValidators = 1
  PosBlock = {"registers", "stakes", "reports"}
  PosTransactions <- MCPosTransactions
  Listener = {"l"}
  MaxPosChanges = 2
  MaxTasks = 1
  MaxDisturbances = 2
  Check = {1, 2}
  Endpoint = {"events"}
  Service = {"indexer", "connector"}
  brokerDependencies = {"indexer", "connector"}
  MaxChainHeight = 2
  Branch = {"a", "b"}
  MaxReadinessFaults = 1
INVARIANTS
  InteriorGapsFound
  ValidatorListSound
  ReadyIsBacked
PROPERTIES
  ValidatorsRecover
  PlatformBecomesReady
CHECK_DEADLOCK FALSE
