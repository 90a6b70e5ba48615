SPECIFICATION Spec
CONSTANTS
  Banks <- TwoBanks
  Calls <- EachOther
  Currencies = {gbp}
  Amounts <- UnitAmounts
  MessageIds = {m}
  MaxAmount = 1
  MaxInt = 3
INVARIANT AllowEventsDescribeTrustline
