SPECIFICATION FairSpec
CONSTANTS
  Primaries = {p}
  Secondaries = {s}
  MaxFaults = 2
INVARIANTS
  TypeOK
  SameInstance
  RegistrarNamesThem
PROPERTIES
  StoredIsUsed
  EveryoneServes
CHECK_DEADLOCK FALSE
