SPECIFICATION FairSpec
CONSTANTS
  Threads = 2
  MaxCalls = 3
  MaxIncoming = 1
  MaxFaults = 1
INVARIANTS
  OwnAnswer
  NothingForgotten
  PollerWaitsForItself
  ToldOnce
PROPERTIES
  PollerIsFreed
  CallIsAnswered
CHECK_DEADLOCK FALSE
