SPECIFICATION Spec
CONSTANTS
  Banks <- TwoBanks
  Calls <- AndItself
  Currencies = {gbp}
  Amounts <- UnitAmounts
  MessageIds = {m}
  MaxAmount = 1
  MaxInt = 3
INVARIANTS
  NoOverflow
  BalancesReplayEvents
  DebtBackedByGrants
  AcceptsExactlyWithinGrants
  LimitEventsDescribeTrustline
PROPERTIES
  OnlyDebtorRaisesDebt
  GrantsChangedOnlyByGrantor
  ImplementsTrustlineValue
