---------------------------- MODULE ObligationOrders ----------------------------
(***************************************************************************)
(* The orders of an obligation (state/order_operations.rs):                *)
(* instructions of the owner that let anyone repay some of the debt for    *)
(* collateral and a bonus once a condition holds.                          *)
(***************************************************************************)
EXTENDS Position

CONSTANTS
  OrderSlots,             \* indices of Obligation::orders, 0 and 1 in the program
  MinThreshold, MaxThreshold,   \* VALID_USER_LTV_RANGE
  MinRatio, MaxRatio,     \* VALID_DEBT_COLL_PRICE_RATIO_RANGE
  BonusLimit,             \* EXECUTION_BONUS_SANITY_LIMIT
  AllDebt                 \* Fraction::MAX as the amount of an order

ASSUME ObligationOrdersAssumption ==
  /\ IsFiniteSet(OrderSlots) /\ OrderSlots \subseteq Nat
  /\ MinThreshold \in Nat /\ MaxThreshold \in Nat
  /\ MinRatio \in Nat /\ MaxRatio \in Nat
  /\ BonusLimit \in Nat /\ AllDebt \in Nat \ {0}

LtvConditions == {"ltvAbove", "ltvBelow"}
RatioConditions == {"ratioAbove", "ratioBelow"}
Conditions == {"never"} \cup LtvConditions \cup RatioConditions

\* amount: how much of the single debt (DeleverageSingleDebtAmount), or AllDebt for
\* DeleverageAllDebt; the bonuses in basis points.
OrderRecords ==
  [condition : Conditions, threshold : Nat, all : BOOLEAN, amount : Nat,
   minBonus : Nat, maxBonus : Nat]

\* ObligationOrder::default
NoOrder ==
  [condition |-> "never", threshold |-> 0, all |-> FALSE, amount |-> 0,
   minBonus |-> 0, maxBonus |-> 0]

\* The obligation, as far as its value and its orders go.
ObligationRecords ==
  [group : Groups \cup {NoGroup}, deposits : [Reserves -> Nat], debts : [Reserves -> Nat],
   fresh : BOOLEAN, level : PriceLevels, health : Health, hasDebt : BOOLEAN,
   orders : [OrderSlots -> OrderRecords], called : Nat \cup {NotMarked}, target : Nat]

IsActive(order) == order.condition # "never"

NoOrders == [i \in OrderSlots |-> NoOrder]

\* init_obligation; also an obligation that was closed, which may be initialised again.
NewObligation ==
  [group |-> NoGroup, deposits |-> Zeros, debts |-> Zeros, fresh |-> FALSE,
   level |-> NoChecks, health |-> NoHealth, hasDebt |-> FALSE, orders |-> NoOrders,
   called |-> NotMarked, target |-> 0]

\* single_debt, is_single_debt_single_coll
SingleDebt(o) == \E r \in Reserves : Borrows(o) = {r}
SingleCollateral(o) == \E r \in Reserves : Deposits(o) = {r}

\* is_supported_by
IsSupported(order, o) ==
  order # NoOrder =>
    /\ order.condition \in RatioConditions => SingleDebt(o) /\ SingleCollateral(o)
    /\ ~order.all => SingleDebt(o)

\* check_orders_supported_after_user_operation
OrdersSupportedBy(o) == \A i \in OrderSlots : IsSupported(o.orders[i], o)

\* validate_order
IsValid(order) ==
  IF IsActive(order)
  THEN /\ order.condition \in RatioConditions => order.threshold \in MinRatio..MaxRatio
       /\ order.condition \in LtvConditions =>
            MinThreshold <= order.threshold /\ order.threshold < MaxThreshold
       /\ IF order.all THEN order.amount = AllDebt ELSE order.amount \notin {0, AllDebt}
       /\ order.minBonus <= order.maxBonus
       /\ FromBps(order.maxBonus) <= BonusLimit
  ELSE order = NoOrder

\* set_order_on_obligation; the market may have disabled the creation of orders.
CanSetOrder(o, i, order, creationEnabled) ==
  /\ IsValid(order) /\ IsSupported(order, o)
  /\ i \in OrderSlots
  /\ IsActive(order) /\ ~IsActive(o.orders[i]) => creationEnabled

OrderSet(o, i, order) == [o EXCEPT !.orders[i] = order]

\* remove_all_orders
OrdersRemoved(o) == [o EXCEPT !.orders = NoOrders]

\* consume: the amount of the order is reduced, and the order cleared with it.
Consumed(order, repaid) ==
  LET left == order.amount - FromNum(repaid)
  IN IF order.all THEN order
     ELSE IF left > 0 THEN [order EXCEPT !.amount = left] ELSE NoOrder

OrderConsumed(o, i, repaid) == [o EXCEPT !.orders[i] = Consumed(@, repaid)]

-------------------------------------------------------------------------------
(* evaluate_order_condition                                                   *)

\* calculate_price_ratio
PriceRatio(rs, debt, coll) == FDiv(rs[debt].price, rs[coll].price)

\* What an order compares with its threshold, and where a liquidation would be.
Compared(order, o, rs, debt, coll) ==
  IF order.condition \in RatioConditions THEN PriceRatio(rs, debt, coll)
  ELSE LoanToValueOf(o.health)

\* Mutant: the loan to value up to which the owner may borrow.
LiquidationPoint_AtLimit(order, o, rs, debt, coll) == Ltv(o.health.allowed, o.health.deposited)

LiquidationPoint(order, o, rs, debt, coll) ==
  IF order.condition \in RatioConditions
  THEN FDiv(FMul(PriceRatio(rs, debt, coll), UnhealthyLtv(o.health)),
            LoanToValueOf(o.health))
  ELSE UnhealthyLtv(o.health)

StopLosses == {"ltvAbove", "ratioAbove"}
TakeProfits == {"ltvBelow", "ratioBelow"}

IsHit(order, o, rs, debt, coll) ==
  LET current == Compared(order, o, rs, debt, coll)
  IN \/ order.condition \in StopLosses /\ current > order.threshold
     \/ order.condition \in TakeProfits /\ current < order.threshold

\* evaluate_stop_loss and evaluate_take_profit of a hit order: how far past its
\* threshold, of the way to the liquidation or of the way to 0.
Distance(order, o, rs, debt, coll) ==
  LET current == Compared(order, o, rs, debt, coll)
      liquidation == LiquidationPoint(order, o, rs, debt, coll)
  IN IF order.condition \in TakeProfits
     THEN FDiv(order.threshold - current, order.threshold)
     ELSE IF order.threshold > liquidation THEN One
     ELSE FDiv(current - order.threshold, liquidation - order.threshold)

\* The division of evaluate_stop_loss fails when the threshold is the liquidation LTV,
\* that of the ratio when the loan to value rounds to 0.
IsEvaluable(order, o, rs, debt, coll) ==
  /\ order.condition = "ratioAbove" => LoanToValueOf(o.health) > 0
  /\ order.condition \in StopLosses /\ IsHit(order, o, rs, debt, coll) =>
       order.threshold # LiquidationPoint(order, o, rs, debt, coll)

\* find_applicable_obligation_order: the first hit of the orders.
HitOrders(o, rs, debt, coll) ==
  {i \in OrderSlots : IsHit(o.orders[i], o, rs, debt, coll)}

IsFirstHit(i, o, rs, debt, coll) ==
  /\ i \in HitOrders(o, rs, debt, coll)
  /\ \A j \in HitOrders(o, rs, debt, coll) : i <= j
===============================================================================
