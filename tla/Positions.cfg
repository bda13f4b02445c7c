SPECIFICATION Spec
CONSTANTS
  A = A
  B = B
  G = G
  Reserves = {A, B}
  Groups = {G}
  NoGroup = NoGroup
  One = 10000
  GroupDebt <- mcGroupDebt
  GroupMembers <- mcMembers
  LoanToValue <- mcLtv
  LiquidationThreshold <- mcThreshold
  BorrowFactor <- mcFactor
  AssetTier <- mcTier
  GroupOnly = {}
  Obsolete = {}
  GlobalAllowed = 1000000
  MinNetValue = 100
  SkipLtvBelow = 1
  SkipFactorBelow = 1
  MaxU64 = 100
  OrderSlots = {0}
  MinThreshold = 100
  MaxThreshold = 10000
  MinRatio = 0
  MaxRatio = 100000
  BonusLimit = 1000
  AllDebt = 1000000
  MinBonus <- mcMinBonus
  MaxBonus <- mcMaxBonus
  BadDebtBonus <- mcBadBonus
  GroupBonus <- mcGroupBonus
  CloseFactor = 50
  InsolvencyLtv = 95
  MinFullValue = 20000
  MaxAtOnce = 1000000
  ProtocolFee <- mcFee
  OrderFee <- mcFee
  DustAmount = 1
  Deleveraging = FALSE
  MarginPeriod = 1
  DeleveragingReserves = {}
  ReservePeriod <- mcPeriod
  DailyDecrease <- mcDecrease
  DailyIncrease <- mcIncrease
  DeleveragingBonus = 50
  SecsPerDay = 2
  OrderExecution = FALSE
  PriceTicks <- mcPrices
  ReportLevels = {2}
  ReportAges <- mcReportAges
  MaxPriceAge <- mcAge
  Lengths = {1}
  DepositAmounts <- mcDeposits
  BorrowAmounts <- mcBorrows
  WithdrawAmounts <- mcWithdraws
  RepayAmounts <- mcRepays
  LiquidationAmounts = {1, 5}
  Rooms = {50000}
  OrderChoices <- mcOrders
  FragileReserves = {A}
  Targets = {}
  Interests = {0}
  MaxAge = 1
  MaxDeposit = 3
  MaxDebt = 20000
INVARIANTS
  TypeOK
  FreshMeansValued
  LiquidationPossible
PROPERTIES
  OwnerStaysSound
  OwnerStaysCovered
  HealthyAreSpared
  LiquidationHelps
  DeprecationFreezes
