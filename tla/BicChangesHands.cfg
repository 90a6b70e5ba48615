SPECIFICATION Spec
CONSTANTS
  Banks = {b1, b2}
  Bics = {bic}
  Messages = {m1}
  NoBank = NoBank
  MaxFaults = 0
INVARIANT ActedUponOnlyAtThem
CHECK_DEADLOCK FALSE
