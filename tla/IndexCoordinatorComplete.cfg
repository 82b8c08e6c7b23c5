SPECIFICATION FairSpec
CONSTANTS
  GenesisHeight = 1
  MaxHeight = 5
  MaxDrops = 0
  MaxFaults = 1
PROPERTY IndexBecomesComplete
CHECK_DEADLOCK FALSE
