SPECIFICATION FairSpec
CONSTANTS
  Version <- MCVersion
  Factory = "v1"
  Blocks <- MCBlocks
  MaxBlocks = 5
  HeadBlocks = 2
  Threshold = 2
  SaveEvery = 4
  MaxRetries = 2
  MaxEndRetries = 2
  Releases <- Updates
  MaxLosses = 5
  MaxStrays = 2
CHECK_DEADLOCK FALSE
INVARIANTS TypeOK StartsWholeFirmware CompleteIsWhole
PROPERTIES UpgradeIsAtomic Updated
