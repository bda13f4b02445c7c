SPECIFICATION FairSpec
CONSTANTS
  A = A
  B = B
  G = G
  Reserves = {A, B}
  Groups = {}
  NoGroup = NoGroup
  One = 10000
  GroupDebt <- kpNone
  GroupMembers <- kpNone
  LoanToValue <- kpLtv
  LiquidationThreshold <- kpThreshold
  BorrowFactor <- mcFactor
  AssetTier <- mcTier
  GroupOnly = {}
  Obsolete = {}
  GlobalAllowed = 1000000
  MinNetValue = 100
  SkipLtvBelow = 1
  SkipFactorBelow = 1
  MaxU64 = 100
  OrderSlots = {}
  MinThreshold = 100
  MaxThreshold = 10000
  MinRatio = 0
  MaxRatio = 100000
  BonusLimit = 1000
  AllDebt = 1000000
  MinBonus <- mcMinBonus
  MaxBonus <- mcMaxBonus
  BadDebtBonus <- mcBadBonus
  GroupBonus <- kpNone
  CloseFactor = 50
  InsolvencyLtv = 95
  MinFullValue = 20000
  MaxAtOnce = 1000000
  ProtocolFee <- mcFee
  OrderFee <- mcFee
  DustAmount = 1
  Deleveraging = TRUE
  MarginPeriod = 1
  DeleveragingReserves = {}
  ReservePeriod <- mcPeriod
  DailyDecrease <- mcDecrease
  DailyIncrease <- mcIncrease
  DeleveragingBonus = 50
  SecsPerDay = 2
  OrderExecution = FALSE
  PriceTicks <- mcPrices
  ReportLevels = {2}
  ReportAges <- mcReportAges
  MaxPriceAge <- mcAge
  Lengths = {1}
  DepositAmounts <- kpDeposits
  BorrowAmounts <- kpBorrows
  WithdrawAmounts <- kpNoAmounts
  RepayAmounts <- kpRepays
  LiquidationAmounts = {5}
  Rooms = {50000}
  OrderChoices = {}
  FragileReserves = {}
  Targets = {30, 255}
  Interests = {0, 5000}
  MaxAge = 1
  MaxDeposit = 3
  MaxDebt = 15000
PROPERTIES
  LiquidationResolves
  CallIsMet
