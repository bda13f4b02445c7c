-------------------------------- MODULE Lending --------------------------------
(***************************************************************************)
(* The life of one obligation: its owner, its liquidators, the risk        *)
(* council, the oracles of its reserves, and what the market does to these *)
(* reserves meanwhile.                                                     *)
(*                                                                         *)
(* A handler decides on the values the last refresh left in the obligation *)
(* and on the reserve it is about, both of the current slot, and leaves    *)
(* both stale.  An instruction that fails changes nothing, so a handler is *)
(* enabled exactly when it succeeds.  Time is counted from the events it   *)
(* matters for and stops at MaxAge.                                        *)
(***************************************************************************)
EXTENDS OwnerOperations, Liquidation

CONSTANTS
  PriceTicks,             \* of every reserve: prices an oracle may report
  ReportAges,             \* seconds since their timestamps, below 0 ahead of the clock
  ReportLevels,           \* and the checks they may pass
  MaxPriceAge,            \* of every reserve: max_age_price_seconds
  Lengths,                \* seconds a slot may take
  DepositAmounts, BorrowAmounts, WithdrawAmounts, RepayAmounts, LiquidationAmounts,
  Rooms,                  \* what a reserve's limits and liquidity may leave to borrow
  OrderChoices,           \* orders the owner may place
  FragileReserves,        \* reserves that a loss may wipe out
  Targets,                \* percents the risk council may ask for, and the marker
  Interests,              \* debt, a fraction, that a slot may add to a borrow
  MaxAge, MaxDeposit, MaxDebt   \* bounds of the model

ASSUME LendingAssumption ==
  /\ PriceTicks \in [Reserves -> SUBSET (Nat \ {0})]
  /\ ReportAges \in [Reserves -> SUBSET Int]
  /\ ReportLevels \subseteq PriceLevels
  /\ MaxPriceAge \in [Reserves -> Nat]
  /\ Lengths \subseteq Nat \ {0}
  /\ {DepositAmounts, BorrowAmounts} \subseteq [Reserves -> SUBSET Nat]
  /\ {WithdrawAmounts, RepayAmounts} \subseteq [Reserves -> SUBSET Nat]
  /\ LiquidationAmounts \subseteq Nat
  /\ Rooms \subseteq Nat
  /\ OrderChoices \subseteq OrderRecords
  /\ FragileReserves \subseteq Reserves
  /\ Targets \subseteq 0..U8Max
  /\ Interests \subseteq Nat /\ 0 \in Interests
  /\ MaxAge \in Nat /\ MaxDeposit \in Nat /\ MaxDebt \in Nat
  /\ \A r \in Reserves : MaxPriceAge[r] <= MaxAge
  /\ \A r \in Reserves : \A age \in ReportAges[r] : age <= MaxAge

VARIABLES
  obligation,
  reserves,
  priceAge,               \* of every reserve: seconds since the timestamp of the saved price
  owed,                   \* interest of every debt since the obligation's last refresh
  pricesSeen              \* history: the prices at this slot's last refresh of it

vars == <<obligation, reserves, priceAge, owed, pricesSeen>>

NoDeleveragingMarker == U8Max

Prices == [r \in Reserves |-> reserves[r].price]

TypeOK ==
  /\ obligation \in ObligationRecords
  /\ obligation.hasDebt = (Borrows(obligation) # {})
  /\ reserves \in [Reserves -> ReserveRecords]
  /\ priceAge \in [Reserves -> Int]
  /\ owed \in Nat
  /\ pricesSeen \in [Reserves -> Nat]

Init ==
  /\ obligation = NewObligation
  /\ reserves = [r \in Reserves |->
       [price |-> 0, level |-> NoChecks, fresh |-> FALSE, usable |-> TRUE,
        depositCrossed |-> NotCrossed, borrowCrossed |-> NotCrossed]]
  /\ priceAge = [r \in Reserves |-> MaxAge]
  /\ owed = 0
  /\ pricesSeen = Zeros

Stale(members) == [r \in Reserves |-> [reserves[r] EXCEPT !.fresh = @ /\ r \notin members]]

-------------------------------------------------------------------------------
(* Time and the reserves                                                      *)

Aged(age, secs) == IF age < 0 THEN age ELSE Smaller(age + secs, MaxAge)

\* A slot is over: all that was refreshed in it is stale.
NewSlot(secs, interest) ==
  /\ \A r \in Borrows(obligation) : obligation.debts[r] + owed + interest <= MaxDebt
  /\ obligation' = [MarkedStale(obligation) EXCEPT !.called = Aged(@, secs)]
  /\ reserves' = [r \in Reserves |->
       [reserves[r] EXCEPT !.fresh = FALSE, !.depositCrossed = Aged(@, secs),
                           !.borrowCrossed = Aged(@, secs)]]
  /\ priceAge' = [r \in Reserves |-> Smaller(priceAge[r] + secs, MaxAge)]
  /\ owed' = IF Borrows(obligation) = {} THEN 0 ELSE owed + interest
  /\ pricesSeen' = Zeros

\* A timestamp ahead of the clock counts as the present (saturating_sub).
Elapsed(age) == Larger(age, 0)

\* check_price_age, of a price that an oracle reports
AgePasses(r, age) == Elapsed(age) <= MaxPriceAge[r]

\* refresh_reserve with a price, which is saved with the oracle's timestamp.
RefreshReserveWithPrice(r, price, age, level) ==
  /\ reserves[r].usable
  /\ level # NoChecks => AgePasses(r, age)
  /\ reserves' = [reserves EXCEPT ![r].price = price, ![r].level = level, ![r].fresh = TRUE]
  /\ priceAge' = [priceAge EXCEPT ![r] = age]
  /\ UNCHANGED <<obligation, owed, pricesSeen>>

\* Mutant: the age of the saved price is not checked.
SavedLevel_AnyAge(r) == reserves[r].level

\* is_saved_price_age_valid: the status a refresh without a price leaves.  Unlike that of
\* a price just reported, its age must be below the limit.
SavedLevel(r) == IF Elapsed(priceAge[r]) < MaxPriceAge[r] THEN reserves[r].level ELSE NoChecks

\* Mutant: the version is not checked.
RefreshReserve_AnyVersion(r) ==
  /\ reserves' = [reserves EXCEPT ![r].level = SavedLevel(r), ![r].fresh = TRUE]
  /\ UNCHANGED <<obligation, priceAge, owed, pricesSeen>>

\* refresh_reserve without a price, because the saved one is recent enough, the oracle
\* has none, or the caller skips it (refresh_reserves_batch).
RefreshReserve(r) ==
  /\ reserves[r].usable
  /\ reserves' = [reserves EXCEPT ![r].level = SavedLevel(r), ![r].fresh = TRUE]
  /\ UNCHANGED <<obligation, priceAge, owed, pricesSeen>>

\* Others deposit and borrow, and the market is configured: a limit of a reserve is
\* crossed or no longer, which is noted when it is next refreshed.
CrossDepositLimit(r) ==
  /\ reserves[r].depositCrossed = NotCrossed
  /\ reserves' = [reserves EXCEPT ![r].depositCrossed = 0]
  /\ UNCHANGED <<obligation, priceAge, owed, pricesSeen>>

CrossBorrowLimit(r) ==
  /\ reserves[r].borrowCrossed = NotCrossed
  /\ reserves' = [reserves EXCEPT ![r].borrowCrossed = 0]
  /\ UNCHANGED <<obligation, priceAge, owed, pricesSeen>>

ReturnWithinLimits(r) ==
  /\ reserves' = [reserves EXCEPT ![r].depositCrossed = NotCrossed,
                                  ![r].borrowCrossed = NotCrossed]
  /\ UNCHANGED <<obligation, priceAge, owed, pricesSeen>>

\* The loss of another obligation wipes a reserve out.
Deprecated(rs, r) == [rs EXCEPT ![r].usable = FALSE, ![r].fresh = FALSE]

Deprecate(r) ==
  /\ r \in FragileReserves /\ reserves[r].usable
  /\ reserves' = Deprecated(reserves, r)
  /\ UNCHANGED <<obligation, priceAge, owed, pricesSeen>>

-------------------------------------------------------------------------------
(* The owner                                                                  *)

RefreshObligation ==
  LET accrued == Accrued(obligation, owed)
  IN /\ PositionsUsable(obligation, reserves)
     /\ obligation' = Refreshed(accrued, reserves)
     /\ owed' = 0
     /\ pricesSeen' = Prices
     /\ UNCHANGED <<reserves, priceAge>>

DepositCollateral(r, n) ==
  /\ reserves[r].usable
  /\ CanDeposit(obligation, reserves, r, n)
  /\ obligation.deposits[r] + n <= MaxDeposit
  /\ obligation' = DepositMade(obligation, r, n)
  /\ reserves' = Stale({r})
  /\ UNCHANGED <<priceAge, owed, pricesSeen>>

BorrowLiquidity(r, n, room) ==
  LET amount == BorrowAmount(obligation, reserves, r, n, room)
  IN /\ reserves[r].usable
     /\ CanBorrow(obligation, reserves, r, n, room)
     /\ obligation.debts[r] + amount <= MaxDebt
     /\ obligation' = Borrowed(obligation, r, amount)
     /\ reserves' = Stale({r})
     /\ UNCHANGED <<priceAge, owed, pricesSeen>>

WithdrawCollateral(r, n) ==
  /\ reserves[r].usable
  /\ CanWithdraw(obligation, reserves, r, n, "maxLtv")
  /\ obligation' = Withdrawn(obligation, r, WithdrawAmount(obligation, r, n, "maxLtv"))
  /\ reserves' = Stale({r})
  /\ UNCHANGED <<priceAge, owed, pricesSeen>>

RepayLiquidity(r, n) ==
  /\ reserves[r].usable
  /\ CanRepay(obligation, reserves, r, n)
  /\ obligation' = Repaid(obligation, r, SettleAmount(obligation, r, n))
  /\ reserves' = Stale({r})
  /\ UNCHANGED <<priceAge, owed, pricesSeen>>

RepayAndWithdraw(r, n, w, m) ==
  /\ reserves[r].usable /\ reserves[w].usable
  /\ CanRepayAndWithdraw(obligation, reserves, r, n, w, m)
  /\ obligation' = RepaidAndWithdrawn(obligation, reserves, r, n, w, m)
  /\ reserves' = Stale({w} \cup
       IF SettleAmount(obligation, r, n) < obligation.debts[r] THEN {} ELSE {r})
  /\ UNCHANGED <<priceAge, owed, pricesSeen>>

DepositAndWithdraw(r, n, w, m) ==
  /\ reserves[r].usable /\ reserves[w].usable
  /\ CanDepositAndWithdraw(obligation, reserves, r, n, w, m)
  /\ obligation.deposits[r] + n <= MaxDeposit
  /\ obligation' = DepositedAndWithdrawn(obligation, reserves, r, n, w, m)
  /\ reserves' = Stale({w})
  /\ UNCHANGED <<priceAge, owed, pricesSeen>>

RequestElevationGroup(g) ==
  /\ CanRequestGroup(obligation, reserves, g)
  /\ obligation' = GroupChanged(obligation, g)
  /\ UNCHANGED <<reserves, priceAge, owed, pricesSeen>>

SetObligationOrder(i, order, creationEnabled) ==
  /\ CanSetOrder(obligation, i, order, creationEnabled)
  /\ obligation' = OrderSet(obligation, i, order)
  /\ UNCHANGED <<reserves, priceAge, owed, pricesSeen>>

-------------------------------------------------------------------------------
(* Liquidators and the risk council                                           *)

LiquidateObligation(debt, coll, n) ==
  /\ reserves[debt].usable /\ reserves[coll].usable
  /\ CanLiquidate(obligation, reserves, debt, coll, n)
  /\ obligation' = Liquidated(obligation, reserves, debt, coll, n)
  /\ reserves' = Stale({debt, coll})
  /\ UNCHANGED <<priceAge, owed, pricesSeen>>

\* Mutant: an obligation may be marked again.
MarkForDeleveraging_Again(target) ==
  /\ \/ /\ target = NoDeleveragingMarker
        /\ obligation' = [obligation EXCEPT !.called = NotMarked, !.target = 0]
     \/ /\ target <= 100 /\ MarginPeriod # 0
        /\ obligation' = [obligation EXCEPT !.called = 0, !.target = target]
  /\ UNCHANGED <<reserves, priceAge, owed, pricesSeen>>

MarkForDeleveraging(target) ==
  /\ \/ /\ target = NoDeleveragingMarker
        /\ obligation' = [obligation EXCEPT !.called = NotMarked, !.target = 0]
     \/ /\ target <= 100
        /\ ~IsMarked(obligation) /\ MarginPeriod # 0
        /\ obligation' = [obligation EXCEPT !.called = 0, !.target = target]
  /\ UNCHANGED <<reserves, priceAge, owed, pricesSeen>>

\* The reserve is deprecated when nothing is left of it.
SocializeLoss(r, n, wiped) ==
  LET forgiven == Smaller(FromNum(n), obligation.debts[r])
      left == WithHasDebt([obligation EXCEPT !.debts[r] = @ - forgiven])
  IN /\ IsFresh(reserves[r], AllChecks) /\ IsFresh(obligation, AllChecks)
     /\ Deposits(obligation) = {} /\ r \in Borrows(obligation)
     /\ wiped => r \in FragileReserves
     /\ obligation' = MarkedStale(IF left.hasDebt THEN left ELSE OrdersRemoved(left))
     /\ reserves' = IF wiped THEN Deprecated(reserves, r) ELSE Stale({r})
     /\ UNCHANGED <<priceAge, owed, pricesSeen>>

-------------------------------------------------------------------------------
OwnerNext ==
  \/ \E r \in Reserves :
       \/ \E n \in DepositAmounts[r] : DepositCollateral(r, n)
       \/ \E n \in BorrowAmounts[r], room \in Rooms : BorrowLiquidity(r, n, room)
       \/ \E n \in WithdrawAmounts[r] : WithdrawCollateral(r, n)
       \/ \E n \in RepayAmounts[r] : RepayLiquidity(r, n)
       \/ \E w \in Reserves : \E m \in WithdrawAmounts[w] :
            \/ \E n \in RepayAmounts[r] : RepayAndWithdraw(r, n, w, m)
            \/ \E n \in DepositAmounts[r] : DepositAndWithdraw(r, n, w, m)
  \/ \E g \in Groups \cup {NoGroup} : RequestElevationGroup(g)
  \/ \E i \in OrderSlots, order \in OrderChoices, enabled \in BOOLEAN :
       SetObligationOrder(i, order, enabled)

LiquidatorNext ==
  \E debt, coll \in Reserves, n \in LiquidationAmounts : LiquidateObligation(debt, coll, n)

CouncilNext ==
  \/ \E target \in Targets : MarkForDeleveraging(target)
  \/ \E r \in Reserves : \E n \in RepayAmounts[r], wiped \in BOOLEAN :
       SocializeLoss(r, n, wiped)

MarketNext ==
  \/ \E secs \in Lengths, interest \in Interests : NewSlot(secs, interest)
  \/ RefreshObligation
  \/ \E r \in Reserves :
       \/ \E price \in PriceTicks[r], age \in ReportAges[r], level \in ReportLevels :
            RefreshReserveWithPrice(r, price, age, level)
       \/ RefreshReserve(r)
       \/ Deprecate(r)
  \/ \E r \in DeleveragingReserves :
       CrossDepositLimit(r) \/ CrossBorrowLimit(r) \/ ReturnWithinLimits(r)

Next == OwnerNext \/ LiquidatorNext \/ CouncilNext \/ MarketNext

Spec == Init /\ [][Next]_vars

-------------------------------------------------------------------------------
(* Properties                                                                 *)

\* The values in the obligation are those at the current prices.
IsValued == obligation.fresh /\ obligation.health = HealthOf(obligation, reserves)

\* A fresh obligation keeps the values of the positions it has, at the prices of its
\* refresh: whatever changes a position or the group (deposit, borrow, withdraw, repay,
\* liquidate, socialize_loss, request_elevation_group) leaves it stale, however the
\* handlers that combine them refresh it in between, and every check of a handler that
\* asks for a fresh obligation is about the positions that are there.
FreshMeansValued ==
  obligation.fresh =>
    obligation.health = HealthOf(obligation, [r \in Reserves |-> [price |-> pricesSeen[r]]])

\* What an owner must not leave behind: a position that may be liquidated at once.
IsSound(o, rs) ==
  LET h == HealthOf(o, rs) IN h.debt > 0 => h.deposited > 0 /\ ~IsUnhealthy(h)

IsRiskier(o, left) ==
  \/ \E r \in Reserves : left.deposits[r] < o.deposits[r] \/ left.debts[r] > o.debts[r]
  \/ left.group # o.group

\* No instruction of the owner that takes collateral out, adds debt or changes the
\* group leaves an obligation that can be liquidated, valued anew at the prices of its
\* refresh.  The code never values the result: borrow, withdraw and the group request
\* each compare an estimate made from the values kept by the last refresh
\* (post_borrow_, post_withdraw_obligation_invariants, the enforcements of the
\* combined handlers), which is right only if the obligation is stale after each.
\* A price refreshed in the same slot after the obligation is left aside (pricesSeen).
OwnerStaysSound ==
  [][IsRiskier(obligation, obligation') /\ pricesSeen = Prices /\ OwnerNext
       => IsSound(obligation', reserves')]_vars

\* The debt is worth no more than its liquidation limit, but for what is rounded: the
\* new debt and its weight each to a unit.
IsCovered(h) ==
  \E r \in Reserves : h.debt <= h.unhealthy + BorrowFactor[r] \div 100 + 2

\* The same as OwnerStaysSound for every configuration, also one whose limit for
\* borrowing is the one for liquidations: the estimates the code makes before it
\* changes an obligation are exact but for a few units of the last digit, and no
\* combination of limits, percents, borrow factors and groups is left unchecked.
OwnerStaysCovered ==
  [][IsRiskier(obligation, obligation') /\ pricesSeen = Prices /\ OwnerNext
       => IsCovered(HealthOf(obligation', reserves'))]_vars

\* The limit for liquidations is further from the limit for borrowing than roundings
\* reach: those of IsCovered, and the loan to values each to their last digit.
HasMargin(o, rs) ==
  LET h == HealthOf(o, rs)
      limit == BackedBy(o, rs, [r \in Reserves |-> LtvOf(o, r)])
  IN \A r \in Reserves :
       limit + h.deposited \div One + BorrowFactor[r] \div 100 + 3 <= h.unhealthy

\* OwnerStaysSound for every configuration: what the owner leaves cannot be liquidated
\* at once, unless the limit for liquidations is within a few units of the last digit
\* of that for borrowing.
OwnerStaysSoundPastRounding ==
  [][IsRiskier(obligation, obligation') /\ pricesSeen = Prices /\ OwnerNext
     /\ HasMargin(obligation', reserves')
       => IsSound(obligation', reserves')]_vars

\* A cause for a liquidation other than the health of the obligation: a margin call or a
\* crossed limit whose period is over, or an order of the owner.
HasOtherCause(o, rs) ==
  \/ IsMarked(o) /\ o.called >= MarginPeriod
  \/ \E r \in DeleveragingReserves :
       Larger(rs[r].depositCrossed, rs[r].borrowCrossed) >= ReservePeriod[r]
  \/ OrderExecution /\ \E i \in OrderSlots : IsActive(o.orders[i])

\* Nobody is liquidated who is healthy, valued anew at the prices of the last refresh, or
\* before the period of a margin call or of a crossed limit is over.  A liquidation judges
\* by the values kept in the obligation (get_liquidation_params), and any number of
\* repayments, deposits and other liquidations may come between the refresh and it.
HealthyAreSpared ==
  [][/\ obligation'.debts # obligation.debts
     /\ pricesSeen = Prices /\ LiquidatorNext
     => ~IsSound(obligation, reserves) \/ HasOtherCause(obligation, reserves)]_vars

\* A margin call runs on until it is met or lifted: nothing the owner, liquidators or the
\* council do restarts its period or changes its target, and it only ends by the council
\* or with the obligation itself (check_not_marked_for_deleveraging; no other handler
\* writes autodeleverage_margin_call_started_timestamp).
MarginCallRunsOn ==
  [][IsMarked(obligation) =>
       \/ /\ obligation'.called >= obligation.called
          /\ obligation'.target = obligation.target
       \/ ~IsMarked(obligation') /\ (CouncilNext \/ obligation' = NewObligation)]_vars

\* The debt settled is worth less than the least collateral a liquidator is given.
IsDust(o, left) ==
  \E debt, coll \in Reserves :
    /\ left.debts[debt] < o.debts[debt] /\ left.deposits[coll] < o.deposits[coll]
    /\ ValueOf(o.debts[debt] - left.debts[debt], reserves, debt)
         < ValueOf(FromNum(DustAmount), reserves, coll)

\* A liquidation that leaves collateral does not raise the debt's share of it, for an
\* obligation whose debt is below 99 percent of its deposits: the bonus of every reason
\* (calculate_liquidation_bonus, the deleveraging rates, the orders') is at most what
\* the collateral has over the debt, after all the roundings of
\* calculate_liquidation_amounts but the one that rounds a debt of dust up.
LiquidationHelps ==
  [][LET before == HealthOf(obligation, reserves)
         after == HealthOf(obligation', reserves')
     IN /\ obligation'.debts # obligation.debts /\ obligation'.deposits # obligation.deposits
        /\ pricesSeen = Prices /\ LiquidatorNext
        /\ ~IsDust(obligation, obligation')
        /\ NoFactorLtv(before) < BadDebtPoint /\ after.deposited > 0
        => NoFactorLtv(after) <= NoFactorLtv(before)]_vars

\* What holds of it for every value of the constants: only a liquidation that takes a
\* collateral whole, and settles what that pays for, may raise the share, and then by no
\* more than its roundings are worth.
HelpsPastRounding ==
  LET before == HealthOf(obligation, reserves)
      after == HealthOf(obligation', reserves')
  IN /\ obligation'.debts # obligation.debts /\ obligation'.deposits # obligation.deposits
     /\ pricesSeen = Prices /\ LiquidatorNext
     /\ ~IsDust(obligation, obligation')
     /\ NoFactorLtv(before) < BadDebtPoint /\ after.deposited > 0
     => \/ NoFactorLtv(after) <= NoFactorLtv(before)
        \/ /\ Deposits(obligation') # Deposits(obligation)
           /\ \E r \in Reserves :
                after.borrowed * before.deposited
                  <= before.borrowed * after.deposited
                     + ((before.borrowed \div One) + (reserves[r].price \div One) + 3)
                         * before.deposited

LiquidationHelpsPastRounding == [][HelpsPastRounding]_vars

\* An unhealthy obligation with all its reserves refreshed can be liquidated in some
\* pair of its reserves by a liquidator with enough tokens: the rules for which debt and
\* which collateral come first, the minimum for a partial liquidation, the roundings
\* and the least fee never rule out every pair between them.
LiquidationPossible ==
  /\ IsFresh(obligation, LiquidationChecks) /\ IsValued
  /\ \A r \in Reserves : reserves[r].usable /\ IsFresh(reserves[r], LiquidationChecks)
  /\ obligation.health.debt > 0 /\ obligation.health.deposited > 0
  /\ IsUnhealthy(obligation.health)
  => \E debt, coll \in Reserves :
       CanLiquidate(obligation, reserves, debt, coll, MaxDebt \div One + 1)

\* An order the owner left is one the program can still execute: an amount refers to
\* the only debt, a price ratio to the only debt and the only collateral, unless a
\* liquidation has seized that collateral whole.  The owner's operations check it
\* (check_orders_supported_after_user_operation), withdrawals and liquidations do not.
OrdersSupported ==
  \A i \in OrderSlots :
    LET order == obligation.orders[i]
    IN /\ ~IsActive(order) => order = NoOrder
       /\ IsActive(order) =>
            /\ ~order.all => SingleDebt(obligation)
            /\ order.condition \in RatioConditions =>
                 SingleDebt(obligation)
                 /\ (SingleCollateral(obligation) \/ Deposits(obligation) = {})

\* Looking for an order to execute never divides by zero: when the orders are reached
\* the obligation is healthy, and the threshold of a stop loss that is hit lies below
\* the liquidation point evaluate_stop_loss subtracts it from.
OrdersEvaluated ==
  /\ IsFresh(obligation, LiquidationChecks) /\ IsValued
  /\ \A r \in Reserves : IsFresh(reserves[r], LiquidationChecks)
  => \A debt \in Borrows(obligation), coll \in Deposits(obligation) :
       Reason(obligation, reserves, debt, coll) \in {"order", "none"}
         => OrdersEvaluable(obligation, reserves, debt, coll)

\* The condition of an order is further past its threshold than the roundings of the
\* liquidation point of a price ratio reach: always so for a loan to value, and for a
\* debt token worth as much as a collateral token.
PastRounding(order, debt, coll) ==
  order.condition = "ratioAbove" =>
    /\ LoanToValueOf(obligation.health) > 0
    /\ \/ PriceRatio(reserves, debt, coll) >= One - 1
       \/ PriceRatio(reserves, debt, coll)
            > order.threshold + One \div LoanToValueOf(obligation.health) + 1

\* The same for every configuration: an order that may be reached is evaluated without
\* a division by zero, unless it is on a price ratio and either the loan to value rounds
\* to zero or the threshold is within the rounding of a ratio below 1
\* (evaluate_stop_loss subtracts it from a quotient of that ratio).
OrdersEvaluatedPastRounding ==
  /\ IsFresh(obligation, LiquidationChecks) /\ IsValued
  /\ \A r \in Reserves : IsFresh(reserves[r], LiquidationChecks)
  => \A debt \in Borrows(obligation), coll \in Deposits(obligation), i \in OrderSlots :
       /\ Reason(obligation, reserves, debt, coll) \in {"order", "none"}
       /\ PastRounding(obligation.orders[i], debt, coll)
       => IsEvaluable(obligation.orders[i], obligation, reserves, debt, coll)

\* What an obligation has and owes in a deprecated reserve stays as it is: no
\* instruction refreshes the reserve or the obligation again, so none of the operations
\* that need them fresh gets through, not even in the slot of the deprecation, and
\* neither does the interest that the debt would have accrued.
DeprecationFreezes ==
  [][\A r \in Reserves : ~reserves[r].usable =>
       /\ obligation'.deposits[r] = obligation.deposits[r]
       /\ obligation'.debts[r] = obligation.debts[r]]_vars

\* A fresh reserve that passes the checks for liquidations has a price no older than its
\* maximal age, though refresh_reserve keeps the timestamp of the oracle and may keep the
\* saved price with its status, and the reserve stays fresh for as long as its slot lasts.
CheckedPriceIsRecent ==
  \A r \in Reserves : IsFresh(reserves[r], LiquidationChecks) => priceAge[r] <= MaxPriceAge[r]
===============================================================================
