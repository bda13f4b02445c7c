CONSTANTS
  One = 2
  MaxI64 = 7
  PriceFlags = {}
  LiquidationFlags = {}
  NoReferrer = NoReferrer
  o1 = o1
  o2 = o2
  ref = ref
  MaxU64 = 3
  MaxFraction = 4
  Obligations = {o1}
  Referrers = {}
  ReferrerOf <- Unreferred
  InitialDeposit = 1
  Configs <- OpenAndClosed
  CapSettings <- SomeCaps
  ReferralRates = {0}
  CompoundingFactors <- NoInterest
  PriceStatuses <- AllChecked
  BorrowingPowers = {3}
  Amounts = {1}
  MaxSlot = 1

SPECIFICATION SettingsSpec
PROPERTIES
  CrossingTimeKept
CHECK_DEADLOCK FALSE
