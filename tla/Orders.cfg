SPECIFICATION Spec
CONSTANTS
  A = A
  B = B
  G = G
  Reserves = {A, B}
  Groups = {}
  NoGroup = NoGroup
  One = 10000
  GroupDebt <- kpNone
  GroupMembers <- kpNone
  LoanToValue <- kpLtv
  LiquidationThreshold <- kpThreshold
  BorrowFactor <- kpFactor
  AssetTier <- mcTier
  GroupOnly = {}
  Obsolete = {}
  GlobalAllowed = 1000000
  MinNetValue = 100
  SkipLtvBelow = 1
  SkipFactorBelow = 1
  MaxU64 = 100
  OrderSlots = {0}
  MinThreshold = 100
  MaxThreshold = 10000
  MinRatio = 0
  MaxRatio = 100000
  BonusLimit = 1000
  AllDebt = 1000000
  MinBonus <- mcMinBonus
  MaxBonus <- mcMaxBonus
  BadDebtBonus <- mcBadBonus
  GroupBonus <- kpNone
  CloseFactor = 50
  InsolvencyLtv = 95
  MinFullValue = 20000
  MaxAtOnce = 1000000
  ProtocolFee <- mcFee
  OrderFee <- mcFee
  DustAmount = 1
  Deleveraging = TRUE
  MarginPeriod = 1
  DeleveragingReserves = {B}
  ReservePeriod <- mcPeriod
  DailyDecrease <- mcDecrease
  DailyIncrease <- mcIncrease
  DeleveragingBonus = 50
  SecsPerDay = 1
  OrderExecution = TRUE
  PriceTicks <- orPrices
  ReportLevels = {0, 2}
  ReportAges <- orAges
  MaxPriceAge <- mcAge
  Lengths = {1}
  DepositAmounts <- kpDeposits
  BorrowAmounts <- kpBorrows
  WithdrawAmounts <- kpNoAmounts
  RepayAmounts <- kpRepays
  LiquidationAmounts = {5}
  Rooms = {50000}
  OrderChoices <- kpOrders
  FragileReserves = {}
  Targets = {30, 255}
  Interests = {0}
  MaxAge = 2
  MaxDeposit = 2
  MaxDebt = 20000
INVARIANTS
  OrdersSupported
  OrdersEvaluated
  CheckedPriceIsRecent
PROPERTIES
  HealthyAreSpared
  MarginCallRunsOn
