SPECIFICATION Spec
CONSTANTS
  MaxBlocks = 7
  MaxReorg = 3
  BlockConfirmationCount = 2
  ImportDepth = 0
  MaxExceptions = 2
  MaxCrashes = 1
INVARIANTS
  OnlyYoungKept
  FiredInOrder
  NothingSkipped
CHECK_DEADLOCK FALSE
