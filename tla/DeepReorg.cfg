SPECIFICATION Spec
CONSTANTS
  MaxBlocks = 8
  MaxReorg = 2
  BlockConfirmationCount = 2
  ImportDepth = 5
  MaxExceptions = 0
  MaxCrashes = 0
INVARIANT FiredOnce
CHECK_DEADLOCK FALSE
