SPECIFICATION FairSpec
CONSTANTS
  GenesisHeight = 1
  MaxHeight = 5
  MaxDrops = 2
  MaxFaults = 1
INVARIANT TypeOK
PROPERTIES
  VerifiedBacksOffByOne
  InteriorGapIsRepaired
  VerificationCatchesUp
CHECK_DEADLOCK FALSE
