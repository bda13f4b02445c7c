CONSTANTS
  One = 2
  o1 = o1
  o2 = o2
  debt = debt
  coll = coll
  only = only
  g1 = g1
  g2 = g2
  NoGroup = NoGroup
  Obligations = {o1, o2}
  Reserves = {debt, coll, only}
  Groups = {g1, g2}
  DebtReserve <- Debts
  MembersOf <- Members
  MaxCollateral <- Collateral
  GroupOnly = {only}
  LimitOutside <- Outside
  LimitAgainst <- Against
  MaxDeposits = 2
  MaxBorrows = 2
  Dust = 1
  Shares = {1}
  Tokens = {1}
  Sums = {1,2}
  Interests = {0, 1}
  MaxShares = 1
  MaxDebt = 3
SYMMETRY Symmetry
SPECIFICATION Spec
INVARIANTS
  TrackersAddUp
  TrackersOffByOne
  TotalsNearDebts
