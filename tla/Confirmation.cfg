SPECIFICATION FairSpec
CONSTANTS
  MaxBlocks = 7
  MaxReorg = 1
  BlockConfirmationCount = 2
  ImportDepth = 5
  MaxExceptions = 0
  MaxCrashes = 0
INVARIANTS
  FiredOnce
  FiredForGood
PROPERTY
  ConfirmedIsFired
CHECK_DEADLOCK FALSE
