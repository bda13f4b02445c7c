CONSTANTS
  One = 4
  o1 = o1
  o2 = o2
  debt = debt
  coll = coll
  only = only
  g1 = g1
  g2 = g2
  NoGroup = NoGroup
  Obligations = {o1}
  Reserves = {debt, coll, only}
  Groups = {g1, g2}
  DebtReserve <- Debts
  MembersOf <- Members
  MaxCollateral <- Collateral
  GroupOnly = {only}
  LimitOutside <- Outside
  LimitAgainst <- Against
  MaxDeposits = 2
  MaxBorrows = 2
  Dust = 1
  Shares = {1,2}
  Tokens = {1,2}
  Sums = {2,4,5}
  Interests = {0, 1}
  MaxShares = 2
  MaxDebt = 12
SPECIFICATION Spec
INVARIANTS
  TypeOK
  FreshTrackersExact
  Refreshable
PROPERTY
  GroupOnlyBacksNoNewDebt
