------------------------------- MODULE Position -------------------------------
(***************************************************************************)
(* What an obligation is worth (lending_operations.rs,                     *)
(* state/obligation.rs).                                                   *)
(*                                                                         *)
(* A refresh multiplies the positions of an obligation with the prices     *)
(* saved in their reserves and keeps the results in the obligation; every  *)
(* handler decides on these kept values and on the price its own reserve   *)
(* has now.  An operation of the code is a pair of operators here: when it *)
(* does not fail, and the obligation it leaves, so that a handler made of  *)
(* several operations is their composition.  The program is built with     *)
(* overflow checks: a subtraction below 0 or a division by 0 fails.        *)
(*                                                                         *)
(* An amount of collateral is the liquidity it redeems for; the exchange   *)
(* rate, the reserve's own balances and fees are module Reserve's and the  *)
(* debt trackers of groups ElevationGroups'.                               *)
(***************************************************************************)
EXTENDS FixedPoint, FiniteSets, Functions

CONSTANTS
  Reserves,
  Groups, NoGroup,        \* elevation groups; ELEVATION_GROUP_NONE
  GroupDebt, GroupMembers,
  LoanToValue,            \* percents, of every reserve and every group:
  LiquidationThreshold,   \*   loan_to_value_pct, liquidation_threshold_pct
  BorrowFactor,           \* of every reserve: borrow_factor_pct
  AssetTier,              \* of every reserve
  GroupOnly,              \* reserves with disable_usage_as_coll_outside_emode
  Obsolete,               \* reserves whose status is Obsolete
  GlobalAllowed,          \* global_allowed_borrow_value, a fraction here
  MinNetValue,            \* min_net_value_in_obligation_sf
  SkipLtvBelow,           \* min_value_skip_liquidation_ltv_checks, a fraction here
  SkipFactorBelow,        \* min_value_skip_liquidation_bf_checks, a fraction here
  MaxU64                  \* u64::MAX as an argument: as much as possible

Tiers == {"regular", "isolatedCollateral", "isolatedDebt"}

ASSUME PositionAssumption ==
  /\ IsFiniteSet(Reserves) /\ NoGroup \notin Groups
  /\ Reserves \cap Groups = {}
  /\ GroupDebt \in [Groups -> Reserves]
  /\ GroupMembers \in [Groups -> SUBSET Reserves]
  /\ LoanToValue \in [Reserves \cup Groups -> 0..100]
  /\ LiquidationThreshold \in [Reserves \cup Groups -> 0..100]
  /\ \A g \in Groups : LoanToValue[g] # 0 /\ LiquidationThreshold[g] # 0
  /\ \A x \in Reserves \cup Groups : LoanToValue[x] <= LiquidationThreshold[x]
  /\ BorrowFactor \in [Reserves -> Nat]
  /\ \A r \in Reserves : BorrowFactor[r] >= 100
  /\ AssetTier \in [Reserves -> Tiers]
  /\ GroupOnly \subseteq Reserves /\ Obsolete \subseteq Reserves
  /\ GlobalAllowed \in Nat /\ MinNetValue \in Nat
  /\ SkipLtvBelow \in Nat /\ SkipFactorBelow \in Nat
  /\ MaxU64 \in Nat \ {0}

\* The price status flags, by what asks for them: a status with all flags, one with
\* PriceStatusFlags::LIQUIDATION_CHECKS, one with less.
NoChecks == 0
LiquidationChecks == 1
AllChecks == 2
PriceLevels == {NoChecks, LiquidationChecks, AllChecks}

\* fresh: last_update is of this slot and not stale; usable: version is the
\* program's.  depositCrossed and borrowCrossed: seconds since the reserve's limits
\* were crossed, NotCrossed when they are not or the timestamp is not set.
NotCrossed == -1
ReserveRecords ==
  [price : Nat, level : PriceLevels, fresh : BOOLEAN, usable : BOOLEAN,
   depositCrossed : Nat \cup {NotCrossed}, borrowCrossed : Nat \cup {NotCrossed}]

\* seconds since an obligation was marked for deleveraging
NotMarked == -1
IsMarked(o) == o.called # NotMarked

\* What a refresh keeps in the obligation.
Health ==
  [values : [Reserves -> Nat],          \* market_value_sf of the deposits
   debtValues : [Reserves -> Nat],      \* and of the borrows
   deposited : Nat,                     \* deposited_value_sf
   borrowed : Nat,                      \* borrowed_assets_market_value_sf
   debt : Nat,                          \* borrow_factor_adjusted_debt_value_sf
   allowed : Nat,                       \* allowed_borrow_value_sf
   unhealthy : Nat,                     \* unhealthy_borrow_value_sf
   lowestThreshold : Nat,               \* lowest_reserve_deposit_liquidation_ltv
   lowestLtv : Nat,                     \* lowest_reserve_deposit_max_ltv_pct
   highestFactor : Nat,                 \* highest_borrow_factor_pct
   obsolete : BOOLEAN,                  \* num_of_obsolete_*_reserves > 0
   disabled : BOOLEAN]                  \* borrowing_disabled

Zeros == [r \in Reserves |-> 0]

\* Obligation::default, and what is left of the values of an obligation that is not
\* fresh: every handler that reads them fails unless it is.
NoHealth ==
  [values |-> Zeros, debtValues |-> Zeros, deposited |-> 0, borrowed |-> 0, debt |-> 0,
   allowed |-> 0, unhealthy |-> 0, lowestThreshold |-> 0, lowestLtv |-> 0,
   highestFactor |-> 0, obsolete |-> FALSE, disabled |-> FALSE]

Deposits(o) == {r \in Reserves : o.deposits[r] > 0}
Borrows(o) == {r \in Reserves : o.debts[r] > 0}

InGroup(o) == o.group # NoGroup

\* is_stale of a reserve and of an obligation, with the checks the caller asks for.
IsFresh(x, level) == x.fresh /\ x.level >= level

MarkedStale(o) == [o EXCEPT !.fresh = FALSE, !.level = NoChecks, !.health = NoHealth]

FromPercent(p) == (p * One) \div 100
FromBps(b) == (b * One) \div 10000

\* calculate_market_value_from_liquidity_amount, with tokens of no decimals.
ValueOf(amount, rs, r) == FMul(amount, rs[r].price)

\* borrow_factor_f, as a percent
FactorOf(o, r) == IF InGroup(o) THEN 100 ELSE BorrowFactor[r]
Weighted(o, r, value) == FMul(value, FromPercent(FactorOf(o, r)))

\* get_max_ltv_and_liquidation_threshold
LtvOf(o, r) == LoanToValue[IF InGroup(o) THEN o.group ELSE r]
ThresholdOf(o, r) == LiquidationThreshold[IF InGroup(o) THEN o.group ELSE r]

\* loan_to_value and its variants
Ltv(debt, deposited) == FDiv(debt, deposited)
LoanToValueOf(h) == Ltv(h.debt, h.deposited)
NoFactorLtv(h) == Ltv(h.borrowed, h.deposited)
UnhealthyLtv(h) == Ltv(h.unhealthy, h.deposited)

Total(values, members) == FoldFunctionOnSet(+, 0, values, members)

Lowest(values, members, top) == FoldFunctionOnSet(Smaller, top, values, members)
Highest(values, members, bottom) == FoldFunctionOnSet(Larger, bottom, values, members)

-------------------------------------------------------------------------------
(* refresh_obligation                                                         *)

U8Max == 255

\* The debt that the deposits back, each with its percent.
BackedBy(o, rs, pct) ==
  Total([r \in Reserves |-> FMul(ValueOf(FromNum(o.deposits[r]), rs, r), FromPercent(pct[r]))],
        Deposits(o))

HealthOf(o, rs) ==
  LET values == [r \in Reserves |-> ValueOf(FromNum(o.deposits[r]), rs, r)]
      debtValues == [r \in Reserves |-> ValueOf(o.debts[r], rs, r)]
      ltvs == [r \in Reserves |-> LtvOf(o, r)]
      thresholds == [r \in Reserves |-> ThresholdOf(o, r)]
      factors == [r \in Reserves |-> FactorOf(o, r)]
      liquidatable == {r \in Deposits(o) : values[r] >= SkipLtvBelow /\ thresholds[r] > 0}
      considered == {r \in Borrows(o) : debtValues[r] >= SkipFactorBelow}
  IN [values |-> values, debtValues |-> debtValues,
      deposited |-> Total(values, Deposits(o)),
      borrowed |-> Total(debtValues, Borrows(o)),
      debt |-> Total([r \in Reserves |-> Weighted(o, r, debtValues[r])], Borrows(o)),
      allowed |-> Smaller(BackedBy(o, rs, ltvs), GlobalAllowed),
      unhealthy |-> BackedBy(o, rs, thresholds),
      lowestThreshold |-> Lowest(thresholds, liquidatable, U8Max),
      lowestLtv |-> Lowest(ltvs, Deposits(o), U8Max),
      highestFactor |-> Highest(factors, considered, 100),
      obsolete |-> (Deposits(o) \cup Borrows(o)) \cap Obsolete # {},
      disabled |-> ~InGroup(o) /\ Deposits(o) \cap GroupOnly # {}]

\* check_obligation_collateral_deposit_reserve and its twin of borrows
PositionsUsable(o, rs) ==
  \A r \in Deposits(o) \cup Borrows(o) : IsFresh(rs[r], NoChecks) /\ rs[r].usable

LevelOf(o, rs) ==
  Lowest([r \in Reserves |-> rs[r].level], Deposits(o) \cup Borrows(o), AllChecks)

Refreshed(o, rs) ==
  [o EXCEPT !.fresh = TRUE, !.level = LevelOf(o, rs), !.health = HealthOf(o, rs),
            !.hasDebt = @ \/ Borrows(o) # {}]

\* The interest of the slots since the last refresh: up to some more of every debt.
Accrued(o, interest) ==
  [o EXCEPT !.debts = [r \in Reserves |-> IF @[r] > 0 THEN @[r] + interest ELSE 0]]

-------------------------------------------------------------------------------
(* Checks shared by the owner's operations                                    *)

\* min_accepted_net_value: a position that is left is not tiny.
NotDusty(value) == value = 0 \/ value >= MinNetValue

\* check_same_elevation_group
FitsGroup(o, r) == InGroup(o) => r \in GroupMembers[o.group]

\* validate_obligation_asset_tiers
TiersAllowed(o) ==
  LET of(members, tier) == {r \in members : AssetTier[r] = tier}
      isolatedDeposits == of(Deposits(o), "isolatedCollateral")
      isolatedBorrows == of(Borrows(o), "isolatedDebt")
  IN /\ isolatedDeposits = {} \/ isolatedBorrows = {}
     /\ isolatedDeposits # {} => Cardinality(Deposits(o)) = 1
     /\ isolatedBorrows # {} => Cardinality(Borrows(o)) = 1
     /\ of(Deposits(o), "isolatedDebt") = {}
     /\ of(Borrows(o), "isolatedCollateral") = {}
===============================================================================
