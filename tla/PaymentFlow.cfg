SPECIFICATION Spec
CONSTANTS
  Banks = {b1, b2}
  Bics = {bic}
  Messages = {m1, m2}
  NoBank = NoBank
  MaxFaults = 2
SYMMETRY Symmetry
INVARIANTS
  FutureTellsVerdict
  NoAnswerForgotten
  ToldAsBooked
  PayeeIsTold
  RegistrationHasWinner
CHECK_DEADLOCK FALSE
