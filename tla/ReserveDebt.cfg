CONSTANTS
  One = 2
  MaxI64 = 7
  PriceFlags = {}
  LiquidationFlags = {}
  NoReferrer = NoReferrer
  o1 = o1
  o2 = o2
  ref = ref
  MaxU64 = 3
  MaxFraction = 5
  Obligations = {o1}
  Referrers = {}
  ReferrerOf <- Unreferred
  InitialDeposit = 1
  Configs <- PlainConfigs
  CapSettings <- NoCaps
  ReferralRates = {0}
  CompoundingFactors <- SomeInterest
  PriceStatuses <- AllChecked
  BorrowingPowers = {3}
  Amounts = {1, 3}
  MaxSlot = 1

SPECIFICATION Spec
INVARIANTS
  TypeOK
  SharesBacked
  Solvent
  DeprecatedIsStale
  FreshDebtIsCurrent
PROPERTIES
  ExchangeRateNeverFalls
  KeepsShares
  DeprecatedIsFrozen
CHECK_DEADLOCK FALSE
