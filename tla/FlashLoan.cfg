CONSTANTS
  r1 = r1
  r2 = r2
  Reserves = {r1, r2}
  AccountLists <- Lists
  ReserveOf <- SameReserve
  Instructions <- AllInstructions
  MaxLength = 4

SPECIFICATION Spec
INVARIANTS
  LoansAreSettled
  NeverOverpaid
PROPERTY
  KeepsPromise
