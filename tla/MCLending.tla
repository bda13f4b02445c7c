------------------------------- MODULE MCLending -------------------------------
(* Small instances of Lending. *)
EXTENDS Keepers, TLC

CONSTANTS A, B, G

mcGroupDebt == G :> B
mcMembers == G :> {A, B}
mcLtv == (A :> 50) @@ (B :> 50) @@ (G :> 80)
mcThreshold == (A :> 75) @@ (B :> 60) @@ (G :> 90)
mcFactor == (A :> 100) @@ (B :> 125)
mcTier == [r \in {A, B} |-> "regular"]
mcAll(x) == [r \in {A, B} |-> x]
mcMinBonus == mcAll(200)
mcMaxBonus == mcAll(3000)
mcBadBonus == mcAll(50)
mcGroupBonus == G :> 500
mcFee == mcAll(10)
mcPeriod == mcAll(1)
mcDecrease == mcAll(6000)
mcIncrease == mcAll(100)
mcAge == mcAll(1)
mcReportAges == mcAll({0})
mcDeposits == (A :> {3}) @@ (B :> {1})
mcBorrows == (A :> {1}) @@ (B :> {1, 100})
mcWithdraws == (A :> {1, 100}) @@ (B :> {1})
mcRepays == (A :> {100}) @@ (B :> {1})
mcPrices == (A :> {5000, 10000}) @@ (B :> {10000})
mcOrders == {}

kpNone == <<>>
kpLtv == (A :> 75) @@ (B :> 50)
kpThreshold == (A :> 80) @@ (B :> 60)
kpDeposits == (A :> {2}) @@ (B :> {2})
kpBorrows == (A :> {}) @@ (B :> {1})
kpNoAmounts == mcAll({})
kpRepays == (A :> {}) @@ (B :> {100})
kpFactor == (A :> 100) @@ (B :> 140)
kpOrders ==
  {NoOrder,
   [condition |-> "ltvAbove", threshold |-> 5416, all |-> TRUE, amount |-> AllDebt,
    minBonus |-> 100, maxBonus |-> 300],
   [condition |-> "ratioAbove", threshold |-> 9000, all |-> FALSE, amount |-> 10000,
    minBonus |-> 100, maxBonus |-> 300]}

orPrices == (A :> {2000, 10000}) @@ (B :> {10000})
orAges == (A :> {-1, 1}) @@ (B :> {0})
===============================================================================
