CONSTANTS
  One = 2
  MaxI64 = 7
  PriceFlags = {}
  LiquidationFlags = {}
  NoReferrer = NoReferrer
  o1 = o1
  o2 = o2
  ref = ref
  MaxU64 = 6
  MaxFraction = 13
  Obligations = {o1}
  Referrers = {ref}
  ReferrerOf <- Referred
  InitialDeposit = 5
  Configs <- LowLimitConfigs
  CapSettings <- NoCaps
  ReferralRates = {0, 2}
  CompoundingFactors <- SomeInterest
  PriceStatuses <- AllChecked
  BorrowingPowers = {5, 7}
  Amounts = {2, 3}
  MaxSlot = 2

SPECIFICATION FeesSpec
PROPERTY
  BorrowStaysWithinLimit
CHECK_DEADLOCK FALSE
