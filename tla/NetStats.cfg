SPECIFICATION FairSpec
CONSTANTS
  MAX_CONNECTION_ATTEMPTS = 1
  MaxBlocks = 2
  MaxFaults = 1
INVARIANTS
  OneUpdateInterval
  FlagTellsTheSocket
PROPERTIES
  OutageIsReported
  RecoveryIsReported
  QueuedIsShown
CHECK_DEADLOCK FALSE
