SPECIFICATION FairSpec
CONSTANTS
  Calls = {p1, p2}
  Contracts = {p2}
  NoCall = NoCall
  MaxErrors = 5
  MaxRestarts = 1
  MaxReorgs = 2
INVARIANTS
  EachInOnePlace
  EffectsInCallOrder
  CompletedIsMined
PROPERTIES
  EveryCallCompletes
  CompletedIsForgotten
CHECK_DEADLOCK FALSE
