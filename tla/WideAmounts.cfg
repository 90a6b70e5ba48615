SPECIFICATION Spec
CONSTANTS
  Banks <- TwoBanks
  Calls <- EachOther
  Currencies = {gbp}
  Amounts <- WideAmounts
  MessageIds = {m}
  MaxInt = 3
INVARIANT AcceptsExactlyWithinGrants
