-------------------------------- MODULE Reserve --------------------------------
(***************************************************************************)
(* One reserve of a lending market and the instructions that move its      *)
(* liquidity, its debt, its cTokens and its fees.                          *)
(*                                                                         *)
(* A handler is one action: Solana executes an instruction atomically and  *)
(* an instruction that returns an error leaves no trace, so every error    *)
(* return is a conjunct that disables the action.  Concurrency is the      *)
(* order of the instructions, which is arbitrary: several of them run in   *)
(* the same slot, and any number of slots may pass between two.            *)
(*                                                                         *)
(* The health of an obligation (its collateral, its loan-to-value, its     *)
(* elevation group) can only make a handler fail; a handler that passes    *)
(* those checks is an instance of the actions below.  Of an obligation the *)
(* module keeps what the reserve's accounts depend on: its debt to this    *)
(* reserve and its last_update.                                            *)
(*                                                                         *)
(* post_transfer_vault_balance_liquidity_reserve_checks, the runtime check *)
(* that a transfer and its bookkeeping agree, is not a guard here: the     *)
(* invariant VaultBacksAvailable shows that it never fails.                *)
(***************************************************************************)
EXTENDS ReserveAccount, FiniteSetsExt

CONSTANTS
  Obligations,         \* obligations that may borrow from the reserve
  Referrers,           \* referrers with a token state for the reserve
  NoReferrer,
  ReferrerOf,          \* each obligation's referrer
  InitialDeposit,      \* market.min_initial_deposit_amount at init_reserve
  Configs,             \* the configs an admin may set
  CapSettings,         \* the [capacity, interval] pairs of withdrawal caps
  ReferralRates,       \* the values of market.referral_fee_bps
  CompoundingFactors,  \* pairs [compounded, fixed] of rates over some slots
  PriceStatuses,       \* the results of the price checks of a refresh
  BorrowingPowers,     \* debt an obligation may still take, in (scaled) tokens
  Amounts,             \* token amounts given to instructions
  MaxSlot              \* bound: the last slot of the model

\* MIN_INITIAL_DEPOSIT_AMOUNT is positive; interest rates are not negative, and
\* the borrow rate includes the host's fixed rate.
ASSUME ReserveAssumption ==
  /\ NoReferrer \notin Referrers
  /\ ReferrerOf \in [Obligations -> Referrers \cup {NoReferrer}]
  /\ IsFiniteSet(Referrers)
  /\ InitialDeposit \in 1..MaxU64
  /\ Configs \subseteq ReserveConfigs
  /\ CapSettings \subseteq [capacity : -MaxI64 - 1 .. MaxI64, interval : Nat]
  /\ ReferralRates \subseteq 0..One
  /\ CompoundingFactors \subseteq [compounded : Nat, fixed : Nat]
  /\ \A f \in CompoundingFactors : One <= f.fixed /\ f.fixed <= f.compounded
  /\ PriceStatuses \subseteq SUBSET PriceFlags
  /\ BorrowingPowers \subseteq Nat
  /\ Amounts \subseteq Nat
  /\ MaxSlot \in Nat

VARIABLES
  clock,         \* Clock sysvar: [slot, timestamp]
  reserve,       \* the reserve account
  referralRate,  \* market.referral_fee_bps, as a fraction
  vault,         \* tokens in the reserve's supply vault (net of donations)
  circulating,   \* cTokens minted to users, in wallets and as collateral
  obligations,   \* each obligation's debt to the reserve, and its last_update
  unclaimed,     \* each referrer's amount_unclaimed_sf
  flashLoan      \* tokens of the flash loan in progress, 0 for none

vars == <<clock, reserve, referralRate, vault, circulating, obligations,
          unclaimed, flashLoan>>

\* rate is the position's cumulative_borrow_rate_bsf, 0 when the obligation has
\* no borrow of this reserve.
ObligationStates ==
  [borrowed : Nat, rate : Nat,
   slot : Nat, stale : BOOLEAN, priceStatus : SUBSET PriceFlags]

TypeOK ==
  /\ clock \in [slot : Nat, timestamp : Nat]
  /\ reserve \in Reserves
  /\ referralRate \in 0..One
  /\ vault \in Nat
  /\ circulating \in Nat
  /\ obligations \in [Obligations -> ObligationStates]
  /\ unclaimed \in [Referrers -> Nat]
  /\ flashLoan \in Nat

-------------------------------------------------------------------------------
(* init_reserve followed by the admin's first configuration. *)

NewReserve(config, depositCap, debtCap) ==
  [version |-> "current", slot |-> 0, stale |-> TRUE, priceStatus |-> {},
   available |-> InitialDeposit, borrowed |-> 0,
   protocolFees |-> 0, referrerFees |-> 0, pendingReferrerFees |-> 0,
   absoluteReferralRate |-> 0, cumulativeBorrowRate |-> One,
   depositLimitCrossedAt |-> 0, borrowLimitCrossedAt |-> 0,
   mintTotalSupply |-> InitialDeposit,
   depositCap |-> NewCap(depositCap, 0), debtCap |-> NewCap(debtCap, 0),
   config |-> config]

NewObligation ==
  [borrowed |-> 0, rate |-> 0, slot |-> 0, stale |-> TRUE, priceStatus |-> {}]

Init ==
  /\ clock = [slot |-> 0, timestamp |-> 1]
  /\ \E config \in Configs, dep \in CapSettings, debt \in CapSettings :
       reserve = NewReserve(config, dep, debt)
  /\ referralRate \in ReferralRates
  /\ vault = InitialDeposit
  /\ circulating = 0
  /\ obligations = [o \in Obligations |-> NewObligation]
  /\ unclaimed = [r \in Referrers |-> 0]
  /\ flashLoan = 0

-------------------------------------------------------------------------------
(* What the handlers share. *)

IsCurrent == reserve.version = "current"
IsObsolete == reserve.config.status = "Obsolete"

\* Mutant: a version check is missing.
OpenForDeposits_AnyVersion == ~IsObsolete

\* The checks of deposits, alike in the handlers that make one.
OpenForDeposits == IsCurrent /\ ~IsObsolete

\* is_stale in the current slot, requiring the given price flags.
Fresh(account, flags) == ~IsStale(account, clock.slot, flags)

\* The handler succeeds with r as the reserve account.
Commit(r) == Representable(r) /\ reserve' = r

\* refresh_reserve of account r: its results for the given price statuses.
Refreshes(r, statuses) ==
  IF CanRefresh(r, clock.slot)
  THEN {Refreshed(r, clock.slot, f, status, referralRate) :
          f \in CompoundingFactors, status \in statuses}
  ELSE {}

\* refresh_reserve(.., None, ..), as other handlers call it: the saved price
\* status stays, unless the saved price has become too old.
InternalRefreshes(r) == Refreshes(r, {r.priceStatus, {}})

\* ObligationLiquidity
HasDebt(o) == obligations[o].rate # 0

CanAccrue(position, rate) == position.rate <= rate

Accrued(position, rate) ==
  [position EXCEPT !.borrowed = MulDivFloor(@, rate, position.rate), !.rate = rate]

PositionRepaid(position, amount) ==
  IF amount = position.borrowed
  THEN [position EXCEPT !.borrowed = 0, !.rate = 0]
  ELSE [position EXCEPT !.borrowed = @ - amount]

HasReferrer(o) == ReferrerOf[o] # NoReferrer

\* add_referrer_fee on the referrer's side; no fee without a referrer.
ReferrerCredited(referrer, fee) ==
  IF referrer = NoReferrer THEN unclaimed
  ELSE [unclaimed EXCEPT ![referrer] = @ + fee]

-------------------------------------------------------------------------------
(* Refreshing. *)

\* Mutant: a deprecated reserve can be refreshed.
RefreshReserve_AnyVersion ==
  /\ \E r \in Refreshes(reserve, {reserve.priceStatus, {}} \cup PriceStatuses) :
       /\ TotalSupply(r) >= 0
       /\ Commit(LimitTimestampsRefreshed(r, clock.timestamp))
  /\ UNCHANGED <<clock, referralRate, vault, circulating, obligations, unclaimed,
                 flashLoan>>

RefreshReserve ==
  /\ IsCurrent
  /\ \E r \in Refreshes(reserve, {reserve.priceStatus, {}} \cup PriceStatuses) :
       /\ TotalSupply(r) >= 0
       /\ Commit(LimitTimestampsRefreshed(r, clock.timestamp))
  /\ UNCHANGED <<clock, referralRate, vault, circulating, obligations, unclaimed,
                 flashLoan>>

\* The growth factors of the host's fixed rate since an obligation's refresh.
FixedFactors(slotsElapsed) ==
  IF slotsElapsed = 0 THEN {One} ELSE {f.fixed : f \in CompoundingFactors}

\* accumulate_referrer_fees: the referral share of the variable interest of one
\* position, out of the pending fees.
ReferralShare(r, before, after, fixedFactor) ==
  LET fixed == FMul(before, fixedFactor) - before
  IN  Smaller(FMul(after - before - fixed, r.absoluteReferralRate),
              r.pendingReferrerFees)

\* The fixed part does not exceed the interest of the position.
ReferralComputable(r, before, after, fixedFactor) ==
  r.absoluteReferralRate # 0 => FMul(before, fixedFactor) <= after

RefreshIdleObligation(o) ==
  /\ ~HasDebt(o)
  /\ \E status \in PriceStatuses :
       obligations' = [obligations EXCEPT
         ![o].slot = clock.slot, ![o].stale = FALSE, ![o].priceStatus = status]
  /\ UNCHANGED <<clock, reserve, referralRate, vault, circulating, unclaimed, flashLoan>>

RefreshIndebtedObligation(o) ==
  /\ HasDebt(o)
  /\ IsCurrent
  /\ Fresh(reserve, {})
  /\ CanAccrue(obligations[o], reserve.cumulativeBorrowRate)
  /\ LET before == obligations[o].borrowed
         position == Accrued(obligations[o], reserve.cumulativeBorrowRate)
     IN
     /\ \E otherReserves \in PriceStatuses :
          obligations' = [obligations EXCEPT ![o] =
            [position EXCEPT !.slot = clock.slot, !.stale = FALSE,
               !.priceStatus = otherReserves \cap reserve.priceStatus]]
     /\ \E fixedFactor \in FixedFactors(clock.slot - obligations[o].slot) :
          LET share == IF reserve.absoluteReferralRate = 0 THEN 0
                       ELSE ReferralShare(reserve, before, position.borrowed, fixedFactor)
              r == [reserve EXCEPT !.pendingReferrerFees = @ - share]
          IN
          /\ ReferralComputable(reserve, before, position.borrowed, fixedFactor)
          /\ IF HasReferrer(o) /\ referralRate > 0
             THEN /\ Commit(ReferrerFeeAdded(r, share))
                  /\ unclaimed' = ReferrerCredited(ReferrerOf[o], share)
             ELSE /\ Commit([r EXCEPT !.protocolFees = @ + share])
                  /\ UNCHANGED unclaimed
  /\ UNCHANGED <<clock, referralRate, vault, circulating, flashLoan>>

RefreshObligation(o) == RefreshIdleObligation(o) \/ RefreshIndebtedObligation(o)

\* Any instruction on the obligation's other reserves leaves it stale.
UseObligationElsewhere(o) ==
  /\ obligations' = [obligations EXCEPT ![o].stale = TRUE]
  /\ UNCHANGED <<clock, reserve, referralRate, vault, circulating, unclaimed, flashLoan>>

-------------------------------------------------------------------------------
(* Suppliers: liquidity in, cTokens out, and back. *)

\* Mutant: the cost of the cTokens is rounded down.
LiquidityTaken_Floor(r, amount) ==
  CollateralToLiquidity(ExchangeRate(r), LiquidityToCollateral(ExchangeRate(r), amount))

\* Mutant: the deposit takes the whole amount.
LiquidityTaken_Whole(r, amount) == amount

\* compute_depositable_amount_and_minted_collateral: the cTokens an amount buys,
\* then the liquidity those cTokens cost, rounded up.
CollateralMinted(r, amount) == LiquidityToCollateral(ExchangeRate(r), amount)
LiquidityTaken(r, amount) ==
  CollateralToLiquidityCeil(ExchangeRate(r), CollateralMinted(r, amount))

CanDeposit(r, amount) ==
  /\ Fresh(r, {})
  /\ TotalSupply(r) >= 0
  /\ LiquidityTaken(r, amount) <= amount
  /\ FromNum(LiquidityTaken(r, amount)) + TotalSupply(r) <= FromNum(r.config.depositLimit)
  /\ CanSubFromAccum(r.depositCap, LiquidityTaken(r, amount), clock.timestamp)

\* deposit_reserve_liquidity
Deposited(r, amount) ==
  MarkStale([r EXCEPT
    !.available = @ + LiquidityTaken(r, amount),
    !.mintTotalSupply = @ + CollateralMinted(r, amount),
    !.depositCap = SubFromAccum(@, LiquidityTaken(r, amount), clock.timestamp)])

DepositReserveLiquidity(amount) ==
  /\ amount # 0
  /\ OpenForDeposits
  /\ \E r \in InternalRefreshes(reserve) :
       /\ CanDeposit(r, amount)
       /\ Commit(Deposited(r, amount))
       /\ vault' = vault + LiquidityTaken(r, amount)
       /\ circulating' = circulating + CollateralMinted(r, amount)
  /\ UNCHANGED <<clock, referralRate, obligations, unclaimed, flashLoan>>

\* The deposit marks the reserve stale, a second refresh makes it fresh for
\* deposit_obligation_collateral, which marks it stale again.
DepositReserveLiquidityAndObligationCollateral(o, amount) ==
  /\ amount # 0
  /\ OpenForDeposits
  /\ CanDeposit(reserve, amount)
  /\ CollateralMinted(reserve, amount) # 0
  /\ Fresh(obligations[o], {})
  /\ \E r \in InternalRefreshes(Deposited(reserve, amount)) : Commit(MarkStale(r))
  /\ vault' = vault + LiquidityTaken(reserve, amount)
  /\ circulating' = circulating + CollateralMinted(reserve, amount)
  /\ obligations' = [obligations EXCEPT ![o].stale = TRUE]
  /\ UNCHANGED <<clock, referralRate, unclaimed, flashLoan>>

DepositObligationCollateral(o) ==
  /\ OpenForDeposits
  /\ Fresh(reserve, {})
  /\ Fresh(obligations[o], {})
  /\ Commit(MarkStale(reserve))
  /\ obligations' = [obligations EXCEPT ![o].stale = TRUE]
  /\ UNCHANGED <<clock, referralRate, vault, circulating, unclaimed, flashLoan>>

LiquidityRedeemed(r, collateral) == CollateralToLiquidity(ExchangeRate(r), collateral)

\* Mutant: the available liquidity is not checked.
CanRedeem_Overdrawn(r, collateral) ==
  /\ Fresh(r, {})
  /\ TotalSupply(r) >= 0
  /\ collateral <= r.mintTotalSupply

CanRedeem(r, collateral) ==
  /\ Fresh(r, {})
  /\ TotalSupply(r) >= 0
  /\ collateral <= r.mintTotalSupply
  /\ LiquidityRedeemed(r, collateral) <= r.available
  /\ TotalSupply(r) >= FromNum(LiquidityRedeemed(r, collateral))

\* Mutant: the cTokens are not burnt from mint_total_supply.
Redeemed_Unburnt(r, collateral) ==
  MarkStale(LimitTimestampsRefreshed(
    [r EXCEPT !.available = @ - LiquidityRedeemed(r, collateral)], clock.timestamp))

\* redeem_reserve_collateral, but for the withdrawal cap.
Redeemed(r, collateral) ==
  MarkStale(LimitTimestampsRefreshed(
    [r EXCEPT !.available = @ - LiquidityRedeemed(r, collateral),
              !.mintTotalSupply = @ - collateral],
    clock.timestamp))

CapsRedemption(r, collateral) ==
  CanAddToAccum(r.depositCap, LiquidityRedeemed(r, collateral), clock.timestamp)

RedeemedWithinCap(r, collateral) ==
  [Redeemed(r, collateral) EXCEPT
    !.depositCap = AddToAccum(@, LiquidityRedeemed(r, collateral), clock.timestamp)]

\* The cTokens of a holder are burnt and their liquidity leaves the vault.
PayRedemption(r, collateral) ==
  /\ collateral <= circulating
  /\ circulating' = circulating - collateral
  /\ vault' = vault - LiquidityRedeemed(r, collateral)

RedeemReserveCollateral(collateral) ==
  /\ collateral # 0
  /\ IsCurrent
  /\ \E r \in InternalRefreshes(reserve) :
       /\ CanRedeem(r, collateral)
       /\ CapsRedemption(r, collateral)
       /\ Commit(RedeemedWithinCap(r, collateral))
       /\ PayRedemption(r, collateral)
  /\ UNCHANGED <<clock, referralRate, obligations, unclaimed, flashLoan>>

\* An obligation with debt may only be withdrawn from at checked prices.
WithdrawFlags(o, hasDebtElsewhere) ==
  IF HasDebt(o) \/ hasDebtElsewhere THEN PriceFlags ELSE {}

\* withdraw_obligation_collateral
CanWithdrawCollateral(o) ==
  \E hasDebtElsewhere \in BOOLEAN :
    /\ Fresh(reserve, WithdrawFlags(o, hasDebtElsewhere))
    /\ Fresh(obligations[o], WithdrawFlags(o, hasDebtElsewhere))

WithdrawObligationCollateral(o) ==
  /\ IsCurrent
  /\ CanWithdrawCollateral(o)
  /\ obligations' = [obligations EXCEPT ![o].stale = TRUE]
  /\ UNCHANGED <<clock, reserve, referralRate, vault, circulating, unclaimed, flashLoan>>

WithdrawObligationCollateralAndRedeemReserveCollateral(o, collateral) ==
  /\ collateral # 0
  /\ IsCurrent
  /\ CanWithdrawCollateral(o)
  /\ CanRedeem(reserve, collateral)
  /\ CapsRedemption(reserve, collateral)
  /\ Commit(RedeemedWithinCap(reserve, collateral))
  /\ PayRedemption(reserve, collateral)
  /\ obligations' = [obligations EXCEPT ![o].stale = TRUE]
  /\ UNCHANGED <<clock, referralRate, unclaimed, flashLoan>>

-------------------------------------------------------------------------------
(* Borrowing and repaying. *)

RemainingCapacity(r) == Larger(0, FromNum(r.config.borrowLimit) - r.borrowed)

BorrowFees(r, amount, exclusive, o) ==
  Fees(amount, r.config.borrowFee, exclusive, referralRate, HasReferrer(o))

\* Everything borrow_obligation_liquidity checks before it computes an amount.
CanBorrow(o) ==
  /\ IsCurrent
  /\ ~IsObsolete
  /\ Fresh(reserve, PriceFlags)
  /\ Fresh(obligations[o], PriceFlags)
  /\ TotalSupply(reserve) >= 0
  /\ RemainingCapacity(reserve) > 0

\* The debt `debt' (a fraction) is taken, `received' tokens go to the user, and
\* the fees to the fee vault and to the referrer.  The referrer's fee stays in
\* the supply vault.
Borrow(o, debt, received, fees) ==
  LET borrowed == MarkStale(LiquidityBorrowed(
                    [reserve EXCEPT !.debtCap = AddToAccum(@, ToCeil(debt), clock.timestamp)],
                    debt))
      credited == HasReferrer(o) /\ referralRate > 0
      result   == IF credited
                  THEN ReferrerPaid(borrowed, fees.referrer)
                  ELSE borrowed
      position == obligations[o]
  IN
  /\ CanAddToAccum(reserve.debtCap, ToCeil(debt), clock.timestamp)
  /\ received > 0
  /\ ToFloor(debt) <= reserve.available
  /\ reserve.config.utilizationLimit # 0 =>
       UtilizationRate(result) < reserve.config.utilizationLimit
  /\ Commit(result)
  /\ obligations' = [obligations EXCEPT ![o] =
       [position EXCEPT
          !.borrowed = @ + debt,
          !.rate = IF HasDebt(o) THEN @ ELSE reserve.cumulativeBorrowRate,
          !.stale = TRUE]]
  /\ unclaimed' = IF credited
                  THEN ReferrerCredited(ReferrerOf[o], FromNum(fees.referrer))
                  ELSE unclaimed
  /\ vault' = vault - fees.protocol - received
  /\ UNCHANGED <<clock, referralRate, circulating, flashLoan>>

\* The user asks for an amount: the fees come on top of it.  The borrow limit is
\* checked for the amount without the fees.
BorrowObligationLiquidity(o, amount) ==
  LET fees == BorrowFees(reserve, FromNum(amount), TRUE, o) IN
  /\ amount # 0
  /\ CanBorrow(o)
  /\ FromNum(amount) + reserve.borrowed <= FromNum(reserve.config.borrowLimit)
  /\ FeesPayable(FromNum(amount), reserve.config.borrowFee, TRUE)
  /\ Borrow(o, FromNum(amount + fees.protocol + fees.referrer), amount, fees)

\* The user asks for u64::MAX: as much as the obligation, the borrow limit and
\* the available liquidity allow, and the fees come out of it.
BorrowMaxObligationLiquidity(o) ==
  /\ CanBorrow(o)
  /\ \E power \in BorrowingPowers :
       LET debt == Smaller(Smaller(power, RemainingCapacity(reserve)),
                           FromNum(reserve.available))
           fees == BorrowFees(reserve, debt, FALSE, o)
       IN
       /\ power > 0
       /\ FeesPayable(debt, reserve.config.borrowFee, FALSE)
       /\ Borrow(o, debt, ToFloor(debt) - fees.protocol - fees.referrer, fees)

\* The position is settled by `settle' (a fraction) for ToCeil(settle) tokens.
SettleDebt(o, position, r, settle) ==
  /\ ToCeil(settle) # 0
  /\ Commit(MarkStale(LiquidityRepaid(r, ToCeil(settle), settle)))
  /\ obligations' = [obligations EXCEPT ![o] =
       [PositionRepaid(position, settle) EXCEPT !.stale = TRUE]]
  /\ vault' = vault + ToCeil(settle)

\* calculate_repay; maxAmount is u64::MAX, the whole debt.
SettleAmounts(position, amount) ==
  {position.borrowed, Smaller(FromNum(amount), position.borrowed)}

RepayObligationLiquidity(o, amount) ==
  LET position == Accrued(obligations[o], reserve.cumulativeBorrowRate) IN
  /\ amount # 0
  /\ IsCurrent
  /\ Fresh(reserve, {})
  /\ Fresh(obligations[o], {})
  /\ HasDebt(o)
  /\ obligations[o].borrowed # 0
  /\ CanAccrue(obligations[o], reserve.cumulativeBorrowRate)
  /\ \E settle \in SettleAmounts(position, amount) :
       /\ CanSubFromAccum(reserve.debtCap, ToCeil(settle), clock.timestamp)
       /\ SettleDebt(o, position,
            [reserve EXCEPT !.debtCap = SubFromAccum(@, ToCeil(settle), clock.timestamp)],
            settle)
  /\ UNCHANGED <<clock, referralRate, circulating, unclaimed, flashLoan>>

-------------------------------------------------------------------------------
(* Liquidations.  The debt and the collateral may be of two reserves, of which *)
(* this is one, or both of this one.                                           *)

CanLiquidate(o) ==
  /\ IsCurrent
  /\ Fresh(reserve, LiquidationFlags)
  /\ Fresh(obligations[o], LiquidationFlags)

\* This is the repay reserve.  No withdrawal cap is involved.
LiquidateDebt(o) ==
  /\ CanLiquidate(o)
  /\ HasDebt(o)
  /\ \E settle \in 1..obligations[o].borrowed :
       SettleDebt(o, obligations[o], reserve, settle)
  /\ UNCHANGED <<clock, referralRate, circulating, unclaimed, flashLoan>>

\* What the available liquidity can redeem of the seized collateral; the
\* liquidator keeps the rest as cTokens.
RedeemableOf(r, collateral) ==
  Smaller(collateral, LiquidityToCollateral(ExchangeRate(r), r.available))

\* post_liquidate_redeem on account r, refreshed by liquidate_obligation.
\* Without a redemption the reserve stays fresh.  At least one token of what is
\* redeemed is the protocol's fee.
Seize(r, collateral) ==
  LET redeemed == RedeemableOf(r, collateral) IN
  /\ collateral <= circulating
  /\ TotalSupply(r) >= 0
  /\ IF redeemed = 0
     THEN Commit(r)
     ELSE /\ CanRedeem(r, redeemed)
          /\ LiquidityRedeemed(r, redeemed) >= 1
          /\ Commit(Redeemed(r, redeemed))

SeizedLiquidity(r, collateral) ==
  IF RedeemableOf(r, collateral) = 0 THEN 0
  ELSE LiquidityRedeemed(r, RedeemableOf(r, collateral))

\* This is the withdraw reserve.
LiquidateCollateral(o, collateral) ==
  /\ collateral # 0
  /\ CanLiquidate(o)
  /\ \E r \in InternalRefreshes(reserve) :
       /\ Seize(r, collateral)
       /\ circulating' = circulating - RedeemableOf(r, collateral)
       /\ vault' = vault - SeizedLiquidity(r, collateral)
  /\ obligations' = [obligations EXCEPT ![o].stale = TRUE]
  /\ UNCHANGED <<clock, referralRate, unclaimed, flashLoan>>

\* This is both: the refresh undoes the staleness of the repayment.
LiquidateWithinReserve(o, collateral) ==
  /\ collateral # 0
  /\ CanLiquidate(o)
  /\ HasDebt(o)
  /\ \E settle \in 1..obligations[o].borrowed :
       /\ reserve.available + ToCeil(settle) <= MaxU64    \* the addition of repay
       /\ \E r \in InternalRefreshes(MarkStale(LiquidityRepaid(reserve, ToCeil(settle), settle))) :
            /\ Seize(r, collateral)
            /\ circulating' = circulating - RedeemableOf(r, collateral)
            /\ vault' = vault + ToCeil(settle) - SeizedLiquidity(r, collateral)
            /\ obligations' = [obligations EXCEPT ![o] =
                 [PositionRepaid(obligations[o], settle) EXCEPT !.stale = TRUE]]
  /\ UNCHANGED <<clock, referralRate, unclaimed, flashLoan>>

-------------------------------------------------------------------------------
(* Fees. *)

\* redeem_fees: there is no version check.
RedeemFees ==
  LET amount == Smaller(reserve.available, ToFloor(reserve.protocolFees)) IN
  /\ Fresh(reserve, {})
  /\ amount # 0
  /\ Commit(MarkStale([reserve EXCEPT !.available = @ - amount,
                                      !.protocolFees = @ - FromNum(amount)]))
  /\ vault' = vault - amount
  /\ UNCHANGED <<clock, referralRate, circulating, obligations, unclaimed, flashLoan>>

WithdrawReferrerFees(referrer) ==
  LET owed == ToFloor(Smaller(unclaimed[referrer], reserve.referrerFees))
      amount == Smaller(owed, reserve.available)
  IN
  /\ Fresh(reserve, PriceFlags)
  /\ amount # 0
  /\ Commit(MarkStale([reserve EXCEPT !.available = @ - amount,
                                      !.referrerFees = @ - FromNum(amount)]))
  /\ unclaimed' = [unclaimed EXCEPT ![referrer] = @ - FromNum(amount)]
  /\ vault' = vault - amount
  /\ UNCHANGED <<clock, referralRate, circulating, obligations, flashLoan>>

-------------------------------------------------------------------------------
(* Flash loans.  Between the two instructions other instructions of the same *)
(* transaction may run; flash_ixs makes sure that the repayment follows      *)
(* (module FlashLoan).  A loan of no tokens, which the code allows, only     *)
(* refreshes the reserve and is left out: 0 stands for no loan.              *)

FlashBorrowReserveLiquidity(amount) ==
  /\ amount # 0
  /\ flashLoan = 0
  /\ IsCurrent
  /\ ~IsObsolete
  /\ reserve.config.flashLoanFee # FlashLoansDisabled
  /\ \E r \in InternalRefreshes(reserve) :
       /\ amount <= r.available
       /\ Commit(MarkStale(LiquidityBorrowed(r, FromNum(amount))))
  /\ vault' = vault - amount
  /\ flashLoan' = amount
  /\ UNCHANGED <<clock, referralRate, circulating, obligations, unclaimed>>

\* The referrer, if any, is of the payer's choice; the protocol's fee goes
\* directly to the fee vault.  If flash loans were disabled after the borrow, the
\* fee rate is u64::MAX (about 16), the fee exceeds the loan and the handler fails.
FlashRepayReserveLiquidity(referrer) ==
  LET amount == flashLoan
      rate   == reserve.config.flashLoanFee
      fees   == Fees(FromNum(amount), rate, TRUE, referralRate, referrer # NoReferrer)
      repaid == MarkStale(LimitTimestampsRefreshed(
                  LiquidityRepaid(reserve, amount, FromNum(amount)), clock.timestamp))
      credited == referrer # NoReferrer /\ referralRate > 0
  IN
  /\ amount # 0
  /\ rate # FlashLoansDisabled
  /\ FeesPayable(FromNum(amount), rate, TRUE)
  /\ TotalSupply(LiquidityRepaid(reserve, amount, FromNum(amount))) >= 0
  /\ Commit(IF credited
            THEN ReferrerPaid(repaid, fees.referrer)
            ELSE repaid)
  /\ unclaimed' = IF credited
                  THEN ReferrerCredited(referrer, FromNum(fees.referrer))
                  ELSE unclaimed
  /\ vault' = vault + amount + fees.referrer
  /\ flashLoan' = 0
  /\ UNCHANGED <<clock, referralRate, circulating, obligations>>

-------------------------------------------------------------------------------
(* The market owner. *)

\* Mutant: a loss of exactly all the supply goes through.
WipesOut_Strictly(r, loss) == loss > TotalSupply(r)

WipesOut(r, loss) == loss >= TotalSupply(r)

\* socialize_loss, of an obligation whose collateral is gone.  A loss that takes
\* all that the cTokens own deprecates the reserve.
SocializeLoss(o, amount) ==
  LET position == obligations[o]
      forgiven == Smaller(FromNum(amount), position.borrowed)
      forgave  == MarkStale([reserve EXCEPT !.borrowed = @ - forgiven])
  IN
  /\ Fresh(reserve, PriceFlags)
  /\ Fresh(position, PriceFlags)
  /\ HasDebt(o)
  /\ TotalSupply(reserve) >= 0
  /\ forgiven <= reserve.borrowed          \* the subtraction of forgive_debt
  /\ Commit(IF WipesOut(reserve, forgiven)
            THEN [forgave EXCEPT !.version = "deprecated"]
            ELSE forgave)
  /\ obligations' = [obligations EXCEPT ![o] =
       [PositionRepaid(position, forgiven) EXCEPT !.stale = TRUE]]
  /\ UNCHANGED <<clock, referralRate, vault, circulating, unclaimed, flashLoan>>

\* update_reserve_config sets one field at a time; Configs lists the results.
UpdateReserveConfig ==
  /\ \E r \in InternalRefreshes(reserve), config \in Configs :
       Commit(MarkStale([r EXCEPT !.config = config]))
  /\ UNCHANGED <<clock, referralRate, vault, circulating, obligations, unclaimed,
                 flashLoan>>

UpdateWithdrawalCap ==
  /\ \E r \in InternalRefreshes(reserve), setting \in CapSettings :
       /\ setting.capacity >= 0
       /\ \/ Commit(MarkStale([r EXCEPT !.depositCap = ReconfiguredCap(@, setting)]))
          \/ Commit(MarkStale([r EXCEPT !.debtCap = ReconfiguredCap(@, setting)]))
  /\ UNCHANGED <<clock, referralRate, vault, circulating, obligations, unclaimed,
                 flashLoan>>

\* UpdateEntireReserveConfig overwrites the caps with their counters (the bytes
\* carry a counter of 0 here) and keeps the protocol's take rate.
UpdateEntireReserveConfig ==
  /\ \E r \in InternalRefreshes(reserve), config \in Configs,
        dep \in CapSettings, debt \in CapSettings :
       Commit(MarkStale([r EXCEPT
         !.config = [config EXCEPT !.protocolTakeRate = r.config.protocolTakeRate],
         !.depositCap = NewCap(dep, 0), !.debtCap = NewCap(debt, 0)]))
  /\ UNCHANGED <<clock, referralRate, vault, circulating, obligations, unclaimed,
                 flashLoan>>

\* update_lending_market, UpdateReferralFeeBps
UpdateReferralFee ==
  /\ referralRate' \in ReferralRates
  /\ UNCHANGED <<clock, reserve, vault, circulating, obligations, unclaimed, flashLoan>>

-------------------------------------------------------------------------------
\* A slot passes, in less than a second.  Transactions do not span slots.
Tick ==
  /\ flashLoan = 0
  /\ clock.slot < MaxSlot
  /\ \E seconds \in 0..1 :
       clock' = [slot |-> clock.slot + 1, timestamp |-> clock.timestamp + seconds]
  /\ UNCHANGED <<reserve, referralRate, vault, circulating, obligations, unclaimed,
                 flashLoan>>

SupplierNext ==
  \E amount \in Amounts :
    \/ DepositReserveLiquidity(amount)
    \/ RedeemReserveCollateral(amount)
    \/ \E o \in Obligations :
         \/ DepositReserveLiquidityAndObligationCollateral(o, amount)
         \/ WithdrawObligationCollateralAndRedeemReserveCollateral(o, amount)

ObligationNext ==
  \E o \in Obligations :
    \/ RefreshObligation(o)
    \/ UseObligationElsewhere(o)
    \/ DepositObligationCollateral(o)
    \/ WithdrawObligationCollateral(o)
    \/ BorrowMaxObligationLiquidity(o)
    \/ LiquidateDebt(o)
    \/ \E amount \in Amounts :
         \/ BorrowObligationLiquidity(o, amount)
         \/ RepayObligationLiquidity(o, amount)
         \/ LiquidateCollateral(o, amount)
         \/ LiquidateWithinReserve(o, amount)
         \/ SocializeLoss(o, amount)

FeeNext ==
  \/ RedeemFees
  \/ \E referrer \in Referrers : WithdrawReferrerFees(referrer)

FlashLoanNext ==
  \/ \E amount \in Amounts : FlashBorrowReserveLiquidity(amount)
  \/ \E referrer \in Referrers \cup {NoReferrer} : FlashRepayReserveLiquidity(referrer)

AdminNext ==
  \/ UpdateReserveConfig
  \/ UpdateWithdrawalCap
  \/ UpdateEntireReserveConfig
  \/ UpdateReferralFee

Next ==
  \/ RefreshReserve
  \/ SupplierNext
  \/ ObligationNext
  \/ FeeNext
  \/ FlashLoanNext
  \/ AdminNext
  \/ Tick

Spec == Init /\ [][Next]_vars

-------------------------------------------------------------------------------
(* Properties. *)

\* The supply vault holds exactly the tokens the reserve accounts for: across
\* fees on top of, out of and next to an amount, partial redemptions and
\* liquidations within one reserve, every handler moves both by the same amount.
\* So post_transfer_vault_balance_liquidity_reserve_checks never fails.
VaultBacksAvailable == vault = reserve.available

\* mint_total_supply is what users can ever redeem plus the initial deposit,
\* which nobody holds.
SharesBacked == reserve.mintTotalSupply = InitialDeposit + circulating

\* A reserve that is not deprecated always has something to share out: no
\* rounding, fee or redemption ever takes total_supply to 0, where the exchange
\* rate would fall back to 1:1, or below, where total_supply panics.
Solvent == IsCurrent => TotalSupply(reserve) > 0

\* accumulated_referrer_fees_sf is exactly what the referrers may claim, however
\* fees of borrows, flash loans and interest interleave with claims.
ReferrersCovered ==
  reserve.referrerFees = MapThenSumSet(LAMBDA r : unclaimed[r], Referrers)

\* A refreshed obligation's debt includes all interest up to the reserve's
\* current cumulative rate.  Borrowing relies on it: it adds to the position
\* without accruing interest first.
FreshDebtIsCurrent ==
  \A o \in Obligations :
    HasDebt(o) /\ Fresh(obligations[o], {})
      => obligations[o].rate = reserve.cumulativeBorrowRate

\* A deprecated reserve can never be made fresh again, so the handlers that
\* forget to check the version (redeem_fees, withdraw_referrer_fees and
\* socialize_loss) are closed too.
DeprecatedIsStale == ~IsCurrent => reserve.stale

\* Once deprecated, the only step that moves tokens, cTokens or debts is the
\* repayment of a flash loan that was under way.
DeprecatedIsFrozen ==
  [][~IsCurrent =>
       /\ circulating' = circulating
       /\ \A o \in Obligations : obligations'[o].borrowed = obligations[o].borrowed
       /\ flashLoan' # 0 \/ flashLoan = 0 => vault' = vault]_vars

\* The time since when a limit is crossed, which sets the deleveraging bonus, is
\* never restarted while the limit stays crossed.
CrossingTimeKept ==
  [][/\ reserve.depositLimitCrossedAt # 0 /\ reserve'.depositLimitCrossedAt # 0
          => reserve'.depositLimitCrossedAt = reserve.depositLimitCrossedAt
     /\ reserve.borrowLimitCrossedAt # 0 /\ reserve'.borrowLimitCrossedAt # 0
          => reserve'.borrowLimitCrossedAt = reserve.borrowLimitCrossedAt]_vars

\* A cToken is never worth less after a step than before it, whoever deposits,
\* redeems, borrows, repays, liquidates, or is paid fees: only a socialized loss
\* lowers the exchange rate.
ExchangeRateNeverFalls ==
  [][\/ \E o \in Obligations, amount \in Amounts : SocializeLoss(o, amount)
     \/ TotalSupply(reserve)' * reserve.mintTotalSupply
           >= TotalSupply(reserve) * reserve'.mintTotalSupply]_vars

\* The reserve implements SharePool.  Whatever instructions interleave, a deposit
\* costs what its cTokens are worth rounded up to the next token, a redemption or
\* a liquidation pays what they are worth rounded down, at a worth that includes
\* the interest accrued within the instruction; everything else leaves the cTokens
\* alone and the suppliers no poorer, but for socialize_loss, which deprecates the
\* reserve when nothing is left.
Pool == INSTANCE SharePool WITH
          Unit <- One, Tokens <- 0..MaxU64, Initial <- InitialDeposit,
          assets <- TotalSupply(reserve), shares <- reserve.mintTotalSupply,
          held <- circulating, open <- IsCurrent
KeepsShares == Pool!Spec

-------------------------------------------------------------------------------
(* What the documentation says and the code does not do. *)

\* docs/instructions/user-borrow/borrow-obligation-liquidity.md:184: "The borrow
\* must not cause the reserve to exceed its borrow limit".  The code checks the
\* amount without the fees, which are borrowed too.
BorrowStaysWithinLimit ==
  [][(\E o \in Obligations, amount \in Amounts : BorrowObligationLiquidity(o, amount))
       => ~BorrowLimitCrossed(reserve')]_vars

\* docs/instructions/reserve-admin/socialize-loss.md:114: "The reserve must remain
\* solvent after the socialization".  The code deprecates the reserve instead.
SolventAfterSocialization ==
  [][(\E o \in Obligations, amount \in Amounts : SocializeLoss(o, amount))
       => TotalSupply(reserve') > 0]_vars
===============================================================================
