------------------------------ MODULE Liquidation ------------------------------
(***************************************************************************)
(* What a liquidator may do with an obligation                             *)
(* (state/liquidation_operations.rs, liquidate_obligation).                *)
(*                                                                         *)
(* There are four reasons to liquidate, looked at in this order: the loan  *)
(* to value is above the liquidation threshold, the obligation was marked  *)
(* for deleveraging, a limit of one of the two reserves has been exceeded  *)
(* for a while, and an order of the owner.  Each has a bonus of its own.   *)
(* Percents and basis points are as in the configuration; seconds are      *)
(* counted from the event, as in the state.                                *)
(***************************************************************************)
EXTENDS ObligationOrders

CONSTANTS
  MinBonus, MaxBonus, BadDebtBonus,   \* of every reserve: *_liquidation_bonus_bps
  GroupBonus,             \* of every group: max_liquidation_bonus_bps
  CloseFactor,            \* liquidation_max_debt_close_factor_pct
  InsolvencyLtv,          \* insolvency_risk_unhealthy_ltv_pct
  MinFullValue,           \* min_full_liquidation_value_threshold, a fraction here
  MaxAtOnce,              \* max_liquidatable_debt_market_value_at_once, a fraction
  ProtocolFee, OrderFee,  \* of every reserve: the protocol's percent of a bonus
  DustAmount,             \* DUST_LAMPORT_THRESHOLD
  Deleveraging,           \* autodeleverage_enabled of the market
  MarginPeriod,           \* individual_autodeleverage_margin_call_period_secs
  DeleveragingReserves,   \* reserves with autodeleverage_enabled
  ReservePeriod,          \* of every reserve: deleveraging_margin_call_period_secs
  DailyDecrease,          \* deleveraging_threshold_decrease_bps_per_day
  DailyIncrease,          \* deleveraging_bonus_increase_bps_per_day
  DeleveragingBonus,      \* MIN_AUTODELEVERAGE_BONUS_BPS
  SecsPerDay,
  OrderExecution          \* obligation_order_execution_enabled

ASSUME LiquidationAssumption ==
  /\ {MinBonus, MaxBonus, BadDebtBonus} \subseteq [Reserves -> Nat]
  /\ GroupBonus \in [Groups -> Nat]
  /\ {CloseFactor, InsolvencyLtv} \subseteq 0..100
  /\ {MinFullValue, MaxAtOnce, DustAmount, MarginPeriod, DeleveragingBonus} \subseteq Nat
  /\ {ProtocolFee, OrderFee} \subseteq [Reserves -> 0..100]
  /\ {Deleveraging, OrderExecution} \subseteq BOOLEAN
  /\ DeleveragingReserves \subseteq Reserves
  /\ {ReservePeriod, DailyDecrease, DailyIncrease} \subseteq [Reserves -> Nat]
  /\ SecsPerDay \in Nat \ {0}

SaturatingSub(a, b) == IF a > b THEN a - b ELSE 0

\* What a bonus may be at most for the collateral to cover the debt.
ToBadDebt(h) == SaturatingSub(One, NoFactorLtv(h))

\* get_emode_max_liquidation_bonus
GroupCap(o, debt, coll) ==
  IF /\ InGroup(o) /\ {debt, coll} \subseteq GroupMembers[o.group]
     /\ GroupBonus[o.group] # 0
     /\ GroupBonus[o.group] <= Smaller(MaxBonus[debt], MaxBonus[coll])
  THEN {GroupBonus[o.group]} ELSE {}

Capped(bps, caps) == IF \E cap \in caps : cap < bps THEN CHOOSE cap \in caps : TRUE ELSE bps

-------------------------------------------------------------------------------
(* The loan to value is above the threshold: check_liquidate_obligation       *)

IsUnhealthy(h) == LoanToValueOf(h) >= UnhealthyLtv(h)

BadDebtPoint == FromPercent(99)

\* Mutant: the maximum bonus, whatever the collateral covers.
UnhealthyBonus_Generous(o, debt, coll) ==
  FromBps(Capped(Larger(MaxBonus[debt], MaxBonus[coll]), GroupCap(o, debt, coll)))

\* calculate_liquidation_bonus
UnhealthyBonus(o, debt, coll) ==
  LET h == o.health
      bad == FromBps(Smaller(BadDebtBonus[debt], BadDebtBonus[coll]))
      most == FromBps(Capped(Larger(MaxBonus[debt], MaxBonus[coll]), GroupCap(o, debt, coll)))
      least == FromBps(Larger(MinBonus[debt], MinBonus[coll]))
      excess == LoanToValueOf(h) - UnhealthyLtv(h)
  IN IF NoFactorLtv(h) >= BadDebtPoint
     THEN IF NoFactorLtv(h) < One THEN Larger(bad, ToBadDebt(h)) ELSE bad
     ELSE Smaller(Smaller(Larger(least, excess), most), ToBadDebt(h))

-------------------------------------------------------------------------------
(* Deleveraging: of a marked obligation, and of all with a reserve over its   *)
(* limits.  It starts when the margin call period is over.                    *)

Days(secs) == (secs * One) \div SecsPerDay

\* calculate_autodeleverage_bonus_rate
DeleveragingRate(o, daily, mostBps, secs) ==
  Smaller(FromBps(DeleveragingBonus) + FMul(FromBps(daily), Days(secs)),
          Smaller(FromBps(mostBps), ToBadDebt(o.health)))

\* Mutant: the maximal loan to value instead of the council's target.
IsCalled_AboveLimit(o) ==
  /\ IsMarked(o)
  /\ Deleveraging /\ MarginPeriod # 0
  /\ LoanToValueOf(o.health) > Ltv(o.health.allowed, o.health.deposited)
  /\ o.called >= MarginPeriod

\* Mutant: the margin call period is not waited for.
IsCalled_AtOnce(o) ==
  /\ IsMarked(o)
  /\ Deleveraging /\ MarginPeriod # 0
  /\ LoanToValueOf(o.health) > FromPercent(o.target)

\* check_individual_autodeleverage_obligation
IsCalled(o) ==
  /\ IsMarked(o)
  /\ Deleveraging /\ MarginPeriod # 0
  /\ LoanToValueOf(o.health) > FromPercent(o.target)
  /\ o.called >= MarginPeriod

\* The reserve with the larger bonus, the larger increase, the debt's.
BonusReserve(debt, coll) ==
  IF \/ MaxBonus[coll] > MaxBonus[debt]
     \/ MaxBonus[coll] = MaxBonus[debt] /\ DailyIncrease[coll] > DailyIncrease[debt]
  THEN coll ELSE debt

CalledBonus(o, debt, coll) ==
  LET r == BonusReserve(debt, coll)
  IN DeleveragingRate(o, DailyIncrease[r],
                      Capped(MaxBonus[r], GroupCap(o, debt, coll)), o.called - MarginPeriod)

\* calculate_autodeleverage_threshold
LtvThreshold(r, secs) == SaturatingSub(One, FMul(FromBps(DailyDecrease[r]), Days(secs)))

\* check_market_wide_autodeleverage_obligation, for one of the reserves
IsOverLimit(o, r, crossed) ==
  /\ Deleveraging /\ r \in DeleveragingReserves
  /\ crossed # NotCrossed /\ crossed >= ReservePeriod[r]
  /\ LoanToValueOf(o.health) >= LtvThreshold(r, crossed - ReservePeriod[r])

OverLimitBonus(o, r, crossed) ==
  DeleveragingRate(o, DailyIncrease[r], MaxBonus[r], crossed - ReservePeriod[r])

-------------------------------------------------------------------------------
(* get_liquidation_params                                                     *)

Reasons == {"none", "ltv", "called", "depositLimit", "borrowLimit", "order"}

OrderHit(o, rs, debt, coll) == CHOOSE i \in OrderSlots : IsFirstHit(i, o, rs, debt, coll)

Reason(o, rs, debt, coll) ==
  IF IsUnhealthy(o.health) THEN "ltv"
  ELSE IF IsCalled(o) THEN "called"
  ELSE IF IsOverLimit(o, coll, rs[coll].depositCrossed) THEN "depositLimit"
  ELSE IF IsOverLimit(o, debt, rs[debt].borrowCrossed) THEN "borrowLimit"
  ELSE IF OrderExecution /\ HitOrders(o, rs, debt, coll) # {} THEN "order"
  ELSE "none"

\* calculate_order_execution_bonus_rate
OrderBonus(o, rs, debt, coll) ==
  LET order == o.orders[OrderHit(o, rs, debt, coll)]
      least == FromBps(order.minBonus)
      rate == least + FMul(Distance(order, o, rs, debt, coll),
                           FromBps(order.maxBonus) - least)
  IN Smaller(rate, ToBadDebt(o.health))

Bonus(o, rs, debt, coll) ==
  LET reason == Reason(o, rs, debt, coll)
  IN IF reason = "ltv" THEN UnhealthyBonus(o, debt, coll)
     ELSE IF reason = "called" THEN CalledBonus(o, debt, coll)
     ELSE IF reason = "depositLimit" THEN OverLimitBonus(o, coll, rs[coll].depositCrossed)
     ELSE IF reason = "borrowLimit" THEN OverLimitBonus(o, debt, rs[debt].borrowCrossed)
     ELSE OrderBonus(o, rs, debt, coll)

\* Mutant: the debt must be riskier than the riskiest.
HasPriority_Strict(o, reason, debt, coll) ==
  /\ reason = "ltv" => BorrowFactor[debt] > o.health.highestFactor
  /\ reason \in {"ltv", "order"} => ThresholdOf(o, coll) <= o.health.lowestThreshold

\* The riskiest debt first, and the collateral with the lowest threshold.
HasPriority(o, reason, debt, coll) ==
  /\ reason = "ltv" => BorrowFactor[debt] >= o.health.highestFactor
  /\ reason \in {"ltv", "order"} => ThresholdOf(o, coll) <= o.health.lowestThreshold

-------------------------------------------------------------------------------
(* calculate_liquidation: what is settled of the debt, paid, and withdrawn    *)

\* max_liquidatable_borrowed_amount
MaxLiquidatable(o, rs, debt, coll) ==
  LET h == o.health
      rate == IF LoanToValueOf(h) > FromPercent(InsolvencyLtv) THEN One
              ELSE FromPercent(CloseFactor)
      value == Smaller(Smaller(FMul(h.borrowed, rate), h.debtValues[debt]), MaxAtOnce)
  IN IF Reason(o, rs, debt, coll) = "order"
     THEN Smaller(o.orders[OrderHit(o, rs, debt, coll)].amount, o.debts[debt])
     ELSE FMul(o.debts[debt], FDiv(value, h.debtValues[debt]))

\* A debt below the minimum is liquidated as a whole, or not at all.
IsSmall(o, rs, debt, coll) ==
  Reason(o, rs, debt, coll) # "order" /\ o.health.debtValues[debt] < MinFullValue

LiquidatedDebt(o, rs, debt, coll, n) ==
  IF IsSmall(o, rs, debt, coll) THEN o.debts[debt]
  ELSE Smaller(MaxLiquidatable(o, rs, debt, coll), Smaller(FromNum(n), o.debts[debt]))

\* Rounded down, but a small debt is worth a few units at least.
CollateralFor(part, small) ==
  IF small /\ part < FromNum(DustAmount) THEN DustAmount ELSE ToFloor(part)

\* calculate_liquidation_amounts
Amounts(o, rs, debt, coll, n) ==
  LET liquidated == LiquidatedDebt(o, rs, debt, coll, n)
      small == IsSmall(o, rs, debt, coll)
      total == FMul(FMul(o.health.debtValues[debt], FDiv(liquidated, o.debts[debt])),
                    Bonus(o, rs, debt, coll) + One)
      value == o.health.values[coll]
      part == FMul(FromNum(o.deposits[coll]), FDiv(total, value))
      settle == IF total > value /\ ~small THEN FMul(liquidated, FDiv(value, total))
                ELSE liquidated
      withdraw == IF total >= value THEN o.deposits[coll]
                  ELSE CollateralFor(part, small)
  IN [settle |-> settle, repay |-> ToCeil(settle), withdraw |-> withdraw]

\* calculate_protocol_liquidation_fee
LiquidationFee(withdraw, bonus, pct) ==
  LET amount == FromNum(withdraw)
  IN Larger(ToCeil(FMul(amount - FDiv(amount, bonus + One), FromPercent(pct))), 1)

FeeOf(o, rs, debt, coll, withdraw) ==
  LiquidationFee(withdraw, Bonus(o, rs, debt, coll),
                 (IF Reason(o, rs, debt, coll) = "order" THEN OrderFee ELSE ProtocolFee)[coll])

-------------------------------------------------------------------------------
(* liquidate_and_redeem                                                       *)

\* A condition that is not met does not divide; the first hit order ends the search.
OrdersEvaluable(o, rs, debt, coll) ==
  LET hits == HitOrders(o, rs, debt, coll)
  IN \A i \in OrderSlots :
       (\A j \in hits : i <= j) => IsEvaluable(o.orders[i], o, rs, debt, coll)

CanLiquidate(o, rs, debt, coll, n) ==
  /\ ThresholdOf(o, coll) # 0
  /\ n # 0
  /\ IsFresh(rs[debt], LiquidationChecks) /\ IsFresh(rs[coll], LiquidationChecks)
  /\ IsFresh(o, LiquidationChecks)
  /\ o.health.deposited # 0 /\ o.health.debt # 0
  /\ debt \in Borrows(o) /\ coll \in Deposits(o)
  /\ Weighted(o, debt, o.health.debtValues[debt]) # 0
  /\ o.health.values[coll] # 0
  /\ \E reason \in {Reason(o, rs, debt, coll)} :
       /\ reason \in {"order", "none"} => OrdersEvaluable(o, rs, debt, coll)
       /\ reason # "none" /\ HasPriority(o, reason, debt, coll)
  /\ IsSmall(o, rs, debt, coll) => FromNum(n) >= o.debts[debt]
  /\ \E amounts \in {Amounts(o, rs, debt, coll, n)} :
       /\ amounts.repay # 0 /\ amounts.withdraw # 0
       /\ amounts.withdraw <= o.deposits[coll]
       /\ FeeOf(o, rs, debt, coll, amounts.withdraw) <= amounts.withdraw

\* Mutant: has_debt is not updated.
Seized_FlagKept(o, debt, coll, amounts) ==
  MarkedStale([o EXCEPT !.debts[debt] = @ - amounts.settle,
                        !.deposits[coll] = @ - amounts.withdraw])

\* repay_and_withdraw_from_obligation_post_liquidation
Seized(o, debt, coll, amounts) ==
  LET o1 == [o EXCEPT !.debts[debt] = @ - amounts.settle,
                      !.deposits[coll] = @ - amounts.withdraw]
  IN MarkedStale([o1 EXCEPT !.hasDebt = Borrows(o1) # {}])

\* Mutant: a debt is gone and its orders stay.
Liquidated_OrdersKept(o, rs, debt, coll, n) ==
  Seized(o, debt, coll, Amounts(o, rs, debt, coll, n))

Liquidated(o, rs, debt, coll, n) ==
  LET amounts == Amounts(o, rs, debt, coll, n)
      seized == Seized(o, debt, coll, amounts)
  IN IF ~seized.hasDebt THEN OrdersRemoved(seized)
     ELSE IF Reason(o, rs, debt, coll) = "order"
     THEN OrderConsumed(seized, OrderHit(o, rs, debt, coll), amounts.repay)
     ELSE seized
===============================================================================
