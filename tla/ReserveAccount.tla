---------------------------- MODULE ReserveAccount ----------------------------
(***************************************************************************)
(* The reserve account (state/reserve.rs, state/last_update.rs): a record  *)
(* and the methods that read and update it, as operators on that record.   *)
(* The instructions that call them are in module Reserve.                  *)
(*                                                                         *)
(* Fields of a reserve:                                                    *)
(*   version                  "current" (PROGRAM_VERSION) or "deprecated"  *)
(*   slot, stale, priceStatus last_update                                  *)
(*   available                liquidity.available_amount, in tokens        *)
(*   borrowed, protocolFees, referrerFees, pendingReferrerFees,            *)
(*   absoluteReferralRate, cumulativeBorrowRate                            *)
(*                            fractions of ReserveLiquidity                *)
(*   depositLimitCrossedAt, borrowLimitCrossedAt                           *)
(*                            timestamps, 0 when the limit is not crossed  *)
(*   mintTotalSupply          collateral.mint_total_supply, in cTokens     *)
(*   depositCap, debtCap      the two withdrawal caps of the config        *)
(*   config                   the rest of the config                       *)
(*                                                                         *)
(* Prices, borrow factors, token metadata and farms are not fields: no     *)
(* operator of this module reads them.                                     *)
(***************************************************************************)
EXTENDS FixedPoint, WithdrawalCaps

CONSTANTS
  MaxU64,          \* u64::MAX, the width of a token amount
  MaxFraction,     \* Fraction::MAX, the width of a scaled amount
  PriceFlags,      \* the bits of PriceStatusFlags
  LiquidationFlags \* LIQUIDATION_CHECKS, the bits a liquidation requires

ASSUME WidthAssumption ==
  /\ MaxU64 \in Nat
  /\ MaxFraction \in Nat
  /\ LiquidationFlags \subseteq PriceFlags

\* fees.flash_loan_fee_sf = u64::MAX: flash loans are disabled.
FlashLoansDisabled == -1

ReserveConfigs ==
  [status : {"Active", "Hidden", "Obsolete"},
   depositLimit : Nat, borrowLimit : Nat,
   utilizationLimit : Nat,                    \* as a fraction; 0 is no limit
   borrowFee : Nat, flashLoanFee : Nat \cup {FlashLoansDisabled},
   protocolTakeRate : 0..One]

Reserves ==
  [version : {"current", "deprecated"},
   slot : Nat, stale : BOOLEAN, priceStatus : SUBSET PriceFlags,
   available : Nat, borrowed : Nat, protocolFees : Nat, referrerFees : Nat,
   pendingReferrerFees : Nat, absoluteReferralRate : Nat,
   cumulativeBorrowRate : Nat,
   depositLimitCrossedAt : Nat, borrowLimitCrossedAt : Nat,
   mintTotalSupply : Nat, depositCap : Caps, debtCap : Caps,
   config : ReserveConfigs]

\* Checked arithmetic (overflow-checks = true, checked_add): an instruction
\* whose result does not fit the account's integers fails as a whole.
Representable(r) ==
  /\ r.available <= MaxU64
  /\ r.mintTotalSupply <= MaxU64
  /\ r.borrowed <= MaxFraction
  /\ r.protocolFees <= MaxFraction
  /\ r.referrerFees <= MaxFraction
  /\ r.pendingReferrerFees <= MaxFraction

-------------------------------------------------------------------------------
(* Totals, limits and the exchange rate. *)

\* total_supply: what the cTokens own.  The unsigned subtractions of the code
\* panic when this is negative.
TotalSupply(r) ==
  FromNum(r.available) + r.borrowed
    - r.protocolFees - r.referrerFees - r.pendingReferrerFees

UtilizationRate(r) ==
  IF TotalSupply(r) = 0 THEN 0 ELSE FDiv(r.borrowed, TotalSupply(r))

DepositLimitCrossed(r) == TotalSupply(r) > FromNum(r.config.depositLimit)
BorrowLimitCrossed(r) == r.borrowed > FromNum(r.config.borrowLimit)

\* Mutant: the time of a crossed limit moves with every refresh.
LimitTimestampsRefreshed_Restarted(r, now) ==
  LET At(crossed) == IF crossed THEN now ELSE 0
  IN  [r EXCEPT !.depositLimitCrossedAt = At(DepositLimitCrossed(r)),
                !.borrowLimitCrossedAt = At(BorrowLimitCrossed(r))]

\* refresh_reserve_limit_timestamps
LimitTimestampsRefreshed(r, now) ==
  LET At(crossed, since) == IF ~crossed THEN 0 ELSE IF since = 0 THEN now ELSE since
  IN  [r EXCEPT !.depositLimitCrossedAt = At(DepositLimitCrossed(r), @),
                !.borrowLimitCrossedAt = At(BorrowLimitCrossed(r), @)]

\* collateral_exchange_rate, as the pair of cTokens and (scaled) liquidity that
\* they are worth; 1:1 when either side is empty.
ExchangeRate(r) ==
  IF r.mintTotalSupply = 0 \/ TotalSupply(r) = 0
  THEN [collateral |-> 1, liquidity |-> One]
  ELSE [collateral |-> r.mintTotalSupply, liquidity |-> TotalSupply(r)]

\* CollateralExchangeRate::{liquidity_to_collateral, collateral_to_liquidity,
\* collateral_to_liquidity_ceil}, between whole token amounts.
LiquidityToCollateral(rate, liquidity) ==
  MulDivFloor(FromNum(liquidity), rate.collateral, rate.liquidity)
CollateralToLiquidity(rate, collateral) ==
  ToFloor(MulDivFloor(collateral, rate.liquidity, rate.collateral))
CollateralToLiquidityCeil(rate, collateral) ==
  ToCeil(MulDivCeil(collateral, rate.liquidity, rate.collateral))

-------------------------------------------------------------------------------
(* last_update *)

MarkStale(r) == [r EXCEPT !.stale = TRUE]

\* Mutant: STALE_AFTER_SLOTS_ELAPSED is 2.
IsStale_TwoSlots(account, slot, requiredFlags) ==
  account.stale \/ slot > account.slot + 1 \/ ~(requiredFlags \subseteq account.priceStatus)

\* LastUpdate::is_stale, for a reserve or an obligation.
IsStale(account, slot, requiredFlags) ==
  account.stale \/ slot > account.slot \/ ~(requiredFlags \subseteq account.priceStatus)

-------------------------------------------------------------------------------
(* ReserveLiquidity *)

LiquidityBorrowed(r, amount) ==
  [r EXCEPT !.available = @ - ToFloor(amount), !.borrowed = @ + amount]

LiquidityRepaid(r, repay, settle) ==
  [r EXCEPT !.available = @ + repay, !.borrowed = @ - Smaller(settle, @)]

\* Mutant: the reserve keeps whole tokens of a fee, the referrer all of it.
ReferrerFeeAdded_Truncated(r, fee) ==
  [r EXCEPT !.referrerFees = @ + FromNum(ToFloor(fee))]

\* add_referrer_fee, the reserve's half.
ReferrerFeeAdded(r, fee) == [r EXCEPT !.referrerFees = @ + fee]

\* Mutant: the tokens of the fee are not made available.
ReferrerPaid_Unavailable(r, tokens) == ReferrerFeeAdded(r, FromNum(tokens))

\* The referrer's part of a borrow or flash loan fee stays in the supply vault.
ReferrerPaid(r, tokens) ==
  [ReferrerFeeAdded(r, FromNum(tokens)) EXCEPT !.available = @ + tokens]

\* compound_interest.  A factor [compounded, fixed] is the pair of compounded
\* rates over the slots elapsed: of the whole borrow rate, and of the host's
\* fixed part of it.
Compounded(r, factor, referralRate) ==
  LET newDebt        == FMul(r.borrowed, factor.compounded)
      fixedHostFee   == FMul(r.borrowed, factor.fixed) - r.borrowed
      variableDebt   == newDebt - r.borrowed - fixedHostFee
      absoluteRate   == FMul(r.config.protocolTakeRate, referralRate)
      maxReferrerFee == FMul(variableDebt, absoluteRate)
  IN  [r EXCEPT
         !.borrowed = newDebt,
         !.cumulativeBorrowRate = FMul(@, factor.compounded),
         !.absoluteReferralRate = absoluteRate,
         !.pendingReferrerFees = @ + maxReferrerFee,
         !.protocolFees =
             @ + fixedHostFee + FMul(variableDebt, r.config.protocolTakeRate)
               - maxReferrerFee]

\* lending_operations::refresh_reserve: interest is accrued once per slot, then
\* the reserve is fresh in this slot with the given price status.
Refreshed(r, slot, factor, priceStatus, referralRate) ==
  [(IF slot > r.slot THEN Compounded(r, factor, referralRate) ELSE r)
      EXCEPT !.slot = slot, !.stale = FALSE, !.priceStatus = priceStatus]

\* The borrow rate is read off the utilization, which needs total_supply.
CanRefresh(r, slot) == slot >= r.slot /\ (slot > r.slot => TotalSupply(r) >= 0)

-------------------------------------------------------------------------------
(* Fees *)

\* ReserveFees::calculate_fees: at least one token is charged, and the
\* instruction fails when the fee would eat the whole amount.  `exclusive' says
\* that the fee comes on top of the amount.
ChargedFee(amount, feeRate, exclusive) ==
  Larger(One, FMul(amount, IF exclusive THEN feeRate ELSE FDiv(feeRate, feeRate + One)))

FeeApplies(amount, feeRate) == feeRate > 0 /\ amount > 0

FeesPayable(amount, feeRate, exclusive) ==
  FeeApplies(amount, feeRate) => ChargedFee(amount, feeRate, exclusive) < amount

Fees(amount, feeRate, exclusive, referralRate, hasReferrer) ==
  LET charged  == ChargedFee(amount, feeRate, exclusive)
      fee      == ToRound(charged)
      referrer == IF ~hasReferrer THEN 0
                  ELSE IF referralRate = One THEN fee
                  ELSE ToFloor(FMul(charged, referralRate))
  IN  IF FeeApplies(amount, feeRate)
      THEN [protocol |-> fee - referrer, referrer |-> referrer]
      ELSE [protocol |-> 0, referrer |-> 0]
===============================================================================
