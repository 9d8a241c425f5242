SPECIFICATION Spec
CONSTANTS
  Version <- MCVersion
  Factory = "v1"
  Blocks <- MCBlocks
  MaxBlocks = 5
  HeadBlocks = 2
  Threshold = 2
  SaveEvery = 4
  MaxRetries = 2
  MaxEndRetries = 2
  Releases <- Withdrawn
  MaxLosses = 2
  MaxStrays = 0
CHECK_DEADLOCK FALSE
INVARIANTS CompleteIsWhole
