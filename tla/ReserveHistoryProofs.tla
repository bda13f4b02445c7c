------------------------- MODULE ReserveHistoryProofs -------------------------
(***************************************************************************)
(* Proofs of what relates a reserve to its past and to its referrers: an   *)
(* obligation that passes the staleness checks has accrued all interest,   *)
(* the time of a crossed limit is kept, a deprecated reserve is frozen,    *)
(* and the referrers are owed what they may claim.                         *)
(*                                                                         *)
(* Of the reserve only four fields matter: the slot of its last refresh,   *)
(* its interest index and the two times.  The index only moves in a        *)
(* refresh of a later slot, and then no obligation refreshed before is as  *)
(* recent as the reserve.                                                  *)
(*                                                                         *)
(* What the referrers may claim is a sum over them (SumProofs), of which a *)
(* payment or a withdrawal changes one term; every other handler keeps     *)
(* both sides.                                                             *)
(***************************************************************************)
EXTENDS ReserveProofs, SumProofs

\* A fresh position has accrued up to the reserve's index, if the reserve has not
\* been refreshed in a later slot.
PositionAccrued(o) ==
  /\ obligations[o].slot <= reserve.slot
  /\ obligations[o].slot = reserve.slot =>
       obligations[o].rate = reserve.cumulativeBorrowRate

\* The inductive invariant, next to IInv.
HInv ==
  /\ reserve.slot <= clock.slot
  /\ \A o \in Obligations : HasDebt(o) /\ ~obligations[o].stale => PositionAccrued(o)

-------------------------------------------------------------------------------
(* How the operators on the account move the four fields. *)

\* The four fields are fields of r.
Shaped(r) ==
  {"slot", "cumulativeBorrowRate", "depositLimitCrossedAt", "borrowLimitCrossedAt"}
    \subseteq DOMAIN r

SameAccrual(r, s) ==
  s.slot = r.slot /\ s.cumulativeBorrowRate = r.cumulativeBorrowRate

\* s is r, or r after a refresh in a later slot, the current one.
Accrues(r, s) == SameAccrual(r, s) \/ (s.slot = clock.slot /\ clock.slot > r.slot)

SameTimes(r, s) ==
  /\ s.depositLimitCrossedAt = r.depositLimitCrossedAt
  /\ s.borrowLimitCrossedAt = r.borrowLimitCrossedAt

KeepsTimes(r, s) ==
  /\ r.depositLimitCrossedAt # 0 /\ s.depositLimitCrossedAt # 0
       => s.depositLimitCrossedAt = r.depositLimitCrossedAt
  /\ r.borrowLimitCrossedAt # 0 /\ s.borrowLimitCrossedAt # 0
       => s.borrowLimitCrossedAt = r.borrowLimitCrossedAt

Same(r, s) == Shaped(s) /\ SameAccrual(r, s) /\ SameTimes(r, s)
Refreshing(r, s) == Shaped(s) /\ Accrues(r, s) /\ SameTimes(r, s)
Noting(r, s) == Shaped(s) /\ Accrues(r, s) /\ KeepsTimes(r, s)

LEMMA Composition ==
  /\ \A r, s, t : Same(r, s) /\ Same(s, t) => Same(r, t)
  /\ \A r, s, t : Refreshing(r, s) /\ Same(s, t) => Refreshing(r, t)
  /\ \A r, s, t : Same(r, s) /\ Refreshing(s, t) => Refreshing(r, t)
  /\ \A r, s, t : Refreshing(r, s) /\ Noting(s, t) /\ SameAccrual(s, t) => Noting(r, t)
  /\ \A r, s, t : Noting(r, s) /\ Same(s, t) => Noting(r, t)
  /\ \A r, s : Same(r, s) => Refreshing(r, s)
  /\ \A r, s : Refreshing(r, s) => Noting(r, s)
BY DEF Same, Refreshing, Noting, Accrues, SameAccrual, SameTimes, KeepsTimes

LEMMA FieldsKept ==
  ASSUME NEW r, Shaped(r), NEW v, NEW w, NEW x
  PROVE  /\ Same(r, [r EXCEPT !.available = v])
         /\ Same(r, [r EXCEPT !.debtCap = v])
         /\ Same(r, [r EXCEPT !.depositCap = v])
         /\ Same(r, [r EXCEPT !.config = v])
         /\ Same(r, [r EXCEPT !.version = v])
         /\ Same(r, [r EXCEPT !.borrowed = v])
         /\ Same(r, [r EXCEPT !.protocolFees = v])
         /\ Same(r, [r EXCEPT !.pendingReferrerFees = v])
         /\ Same(r, [r EXCEPT !.available = v, !.mintTotalSupply = w])
         /\ Same(r, [r EXCEPT !.available = v, !.mintTotalSupply = w, !.depositCap = x])
         /\ Same(r, [r EXCEPT !.available = v, !.protocolFees = w])
         /\ Same(r, [r EXCEPT !.available = v, !.referrerFees = w])
         /\ Same(r, [r EXCEPT !.config = v, !.depositCap = w, !.debtCap = x])
BY DEF Shaped, Same, SameAccrual, SameTimes

LEMMA OperatorsKeep ==
  ASSUME NEW r, Shaped(r)
  PROVE  /\ Same(r, MarkStale(r))
         /\ \A a : Same(r, LiquidityBorrowed(r, a))
         /\ \A a, b : Same(r, LiquidityRepaid(r, a, b))
         /\ \A a : Same(r, ReferrerFeeAdded(r, a))
         /\ \A a : Same(r, ReferrerPaid(r, a))
<1>1. Same(r, MarkStale(r))
  BY DEF Shaped, Same, SameAccrual, SameTimes, MarkStale
<1>2. \A a : Same(r, LiquidityBorrowed(r, a))
  BY DEF Shaped, Same, SameAccrual, SameTimes, LiquidityBorrowed
<1>3. \A a, b : Same(r, LiquidityRepaid(r, a, b))
  BY DEF Shaped, Same, SameAccrual, SameTimes, LiquidityRepaid
<1>4. \A a : Same(r, ReferrerFeeAdded(r, a))
  BY DEF Shaped, Same, SameAccrual, SameTimes, ReferrerFeeAdded
<1>5. \A a : Same(r, ReferrerPaid(r, a))
  BY DEF Shaped, Same, SameAccrual, SameTimes, ReferrerPaid, ReferrerFeeAdded
<1> QED
  BY <1>1, <1>2, <1>3, <1>4, <1>5

\* refresh_reserve_limit_timestamps never restarts a time.
LEMMA TimestampsNote ==
  ASSUME NEW r, Shaped(r), NEW now
  PROVE  /\ Noting(r, LimitTimestampsRefreshed(r, now))
         /\ SameAccrual(r, LimitTimestampsRefreshed(r, now))
BY DEF Shaped, Noting, Accrues, SameAccrual, KeepsTimes, LimitTimestampsRefreshed

LEMMA RefreshesAccrue ==
  ASSUME NEW r, Shaped(r), NEW statuses, NEW s \in Refreshes(r, statuses),
         r.slot \in Nat, clock.slot \in Nat
  PROVE  Refreshing(r, s)
<1>1. PICK f \in CompoundingFactors, status \in statuses :
        s = Refreshed(r, clock.slot, f, status, referralRate)
  BY DEF Refreshes
<1>2. clock.slot >= r.slot
  BY DEF Refreshes, CanRefresh
<1>3. CASE clock.slot > r.slot
  <2>1. /\ DOMAIN Compounded(r, f, referralRate) = DOMAIN r
        /\ SameTimes(r, Compounded(r, f, referralRate))
    BY DEF Shaped, SameTimes, Compounded
  <2> QED
    BY <1>1, <1>3, <2>1 DEF Refreshed, Refreshing, Shaped, Accrues, SameTimes
<1>4. CASE clock.slot = r.slot
  BY <1>1, <1>4 DEF Refreshed, Refreshing, Shaped, Accrues, SameAccrual, SameTimes
<1> QED
  BY <1>2, <1>3, <1>4

LEMMA InternalRefreshesAccrue ==
  ASSUME NEW r, Shaped(r), NEW s \in InternalRefreshes(r),
         r.slot \in Nat, clock.slot \in Nat
  PROVE  Refreshing(r, s)
BY RefreshesAccrue DEF InternalRefreshes

-------------------------------------------------------------------------------
(* Quiet steps: no time passes and no position is refreshed. *)

QuietPositions ==
  \A o \in Obligations : \/ obligations'[o] = obligations[o]
                         \/ obligations'[o].stale
                         \/ obligations'[o].rate = 0

Quiet ==
  /\ clock' = clock
  /\ Noting(reserve, reserve')
  /\ QuietPositions

LEMMA ReserveShaped ==
  ASSUME TypeOK
  PROVE  Shaped(reserve) /\ reserve.slot \in Nat /\ clock.slot \in Nat
BY DEF TypeOK, Shaped, Reserves

LEMMA Untouched ==
  ASSUME TypeOK, reserve' = reserve
  PROVE  Noting(reserve, reserve')
BY ReserveShaped DEF Noting, Accrues, SameAccrual, KeepsTimes

LEMMA PositionMarked ==
  ASSUME TypeOK, NEW o \in Obligations, NEW p, "stale" \in DOMAIN p,
         obligations' = [obligations EXCEPT ![o] = [p EXCEPT !.stale = TRUE]]
  PROVE  QuietPositions
BY DEF TypeOK, QuietPositions

LEMMA PositionLeftStale ==
  ASSUME TypeOK, NEW o \in Obligations,
         obligations' = [obligations EXCEPT ![o].stale = TRUE]
  PROVE  QuietPositions
<1>1. "stale" \in DOMAIN obligations[o]
  BY DEF TypeOK, ObligationStates
<1> QED
  BY <1>1, PositionMarked

LEMMA PositionsLeft ==
  ASSUME obligations' = obligations
  PROVE  QuietPositions
BY DEF QuietPositions

LEMMA RepaidShape ==
  ASSUME NEW p, NEW amount
  PROVE  DOMAIN PositionRepaid(p, amount) = DOMAIN p
BY DEF PositionRepaid

LEMMA QuietStep ==
  ASSUME TypeOK, TypeOK', HInv, Quiet
  PROVE  HInv' /\ KeepsTimes(reserve, reserve')
<1>1. /\ reserve.slot \in Nat /\ reserve'.slot \in Nat /\ clock.slot \in Nat
      /\ clock'.slot = clock.slot
      /\ Accrues(reserve, reserve')
      /\ KeepsTimes(reserve, reserve')
  BY DEF TypeOK, Reserves, Quiet, Noting
<1>2. reserve'.slot <= clock'.slot
  BY <1>1 DEF HInv, Accrues, SameAccrual
<1>3. ASSUME NEW o \in Obligations, HasDebt(o)', ~obligations'[o].stale
      PROVE  PositionAccrued(o)'
  <2>1. obligations'[o] = obligations[o]
    BY <1>3 DEF Quiet, QuietPositions, HasDebt
  <2>2. PositionAccrued(o)
    BY <1>3, <2>1 DEF HInv, HasDebt
  <2>3. obligations[o].slot \in Nat
    BY DEF TypeOK, ObligationStates
  <2> QED
    BY <1>1, <2>1, <2>2, <2>3 DEF PositionAccrued, Accrues, SameAccrual
<1> QED
  BY <1>1, <1>2, <1>3 DEF HInv

-------------------------------------------------------------------------------
(* The actions. *)

LEMMA RefreshReserveQuiet ==
  ASSUME TypeOK, RefreshReserve
  PROVE  Quiet
<1>1. PICK r \in Refreshes(reserve, {reserve.priceStatus, {}} \cup PriceStatuses) :
        reserve' = LimitTimestampsRefreshed(r, clock.timestamp)
  BY DEF RefreshReserve, Commit
<1>2. Refreshing(reserve, r)
  BY ReserveShaped, RefreshesAccrue
<1>3. /\ Noting(r, reserve')
      /\ SameAccrual(r, reserve')
  BY <1>1, <1>2, TimestampsNote DEF Refreshing
<1>4. Noting(reserve, reserve')
  BY <1>2, <1>3, Composition
<1> QED
  BY <1>4, PositionsLeft DEF RefreshReserve, Quiet

\* The handlers that refresh the reserve first.
LEMMA RefreshedFirst ==
  ASSUME TypeOK, NEW r \in InternalRefreshes(reserve),
         NEW s, (Noting(r, s) /\ SameAccrual(r, s)) \/ Same(r, s)
  PROVE  Noting(reserve, s)
<1>1. Refreshing(reserve, r)
  BY ReserveShaped, InternalRefreshesAccrue
<1> QED
  BY <1>1, Composition

\* A change of some fields, then the reserve is marked stale.
LEMMA MarkedSame ==
  ASSUME NEW r, NEW s, Same(r, s)
  PROVE  Same(r, MarkStale(s))
BY OperatorsKeep, Composition DEF Same

LEMMA DepositedSame ==
  ASSUME NEW r, Shaped(r), NEW amount
  PROVE  Same(r, Deposited(r, amount))
BY FieldsKept, MarkedSame DEF Deposited

\* A redemption, with or without the withdrawal cap.
LEMMA RedeemedNotes ==
  ASSUME NEW r, Shaped(r), NEW collateral
  PROVE  /\ Noting(r, Redeemed(r, collateral))
         /\ SameAccrual(r, Redeemed(r, collateral))
         /\ Noting(r, RedeemedWithinCap(r, collateral))
         /\ SameAccrual(r, RedeemedWithinCap(r, collateral))
<1> DEFINE s == [r EXCEPT !.available = @ - LiquidityRedeemed(r, collateral),
                          !.mintTotalSupply = @ - collateral]
           t == LimitTimestampsRefreshed(s, clock.timestamp)
<1>1. Same(r, s)
  BY FieldsKept
<1> HIDE DEF s
<1>2. Noting(s, t) /\ SameAccrual(s, t)
  BY <1>1, TimestampsNote DEF Same
<1> HIDE DEF t
<1>3. Same(t, MarkStale(t))
  BY <1>2, OperatorsKeep DEF Noting
<1>4. Redeemed(r, collateral) = MarkStale(t)
  BY DEF Redeemed, s, t
<1>5. Noting(r, MarkStale(t)) /\ SameAccrual(r, MarkStale(t))
  BY <1>1, <1>2, <1>3, Composition DEF SameAccrual, Same
<1>6. Same(Redeemed(r, collateral), RedeemedWithinCap(r, collateral))
  BY <1>4, <1>5, FieldsKept DEF RedeemedWithinCap, Noting
<1> QED
  BY <1>4, <1>5, <1>6, Composition DEF SameAccrual, Same

LEMMA DepositsQuiet ==
  ASSUME TypeOK, NEW o, NEW amount,
         \/ DepositReserveLiquidity(amount)
         \/ /\ o \in Obligations
            /\ \/ DepositReserveLiquidityAndObligationCollateral(o, amount)
               \/ DepositObligationCollateral(o)
  PROVE  Quiet
<1>1. CASE DepositReserveLiquidity(amount)
  <2>1. PICK r \in InternalRefreshes(reserve) : reserve' = Deposited(r, amount)
    BY <1>1 DEF DepositReserveLiquidity, Commit
  <2>2. Shaped(r)
    BY ReserveShaped, InternalRefreshesAccrue DEF Refreshing
  <2>3. Noting(reserve, reserve')
    BY <2>1, <2>2, DepositedSame, RefreshedFirst
  <2> QED
    BY <1>1, <2>3, PositionsLeft DEF DepositReserveLiquidity, Quiet
<1>2. CASE o \in Obligations /\ DepositReserveLiquidityAndObligationCollateral(o, amount)
  <2> DEFINE d == Deposited(reserve, amount)
  <2>1. PICK r \in InternalRefreshes(d) : reserve' = MarkStale(r)
    BY <1>2 DEF DepositReserveLiquidityAndObligationCollateral, Commit
  <2>2. Same(reserve, d)
    BY ReserveShaped, DepositedSame
  <2> HIDE DEF d
  <2>3. Refreshing(d, r)
    BY <2>2, ReserveShaped, InternalRefreshesAccrue DEF Same, SameAccrual
  <2>4. Same(r, reserve')
    BY <2>1, <2>3, OperatorsKeep DEF Refreshing
  <2>5. Noting(reserve, reserve')
    BY <2>2, <2>3, <2>4, Composition
  <2> QED
    BY <1>2, <2>5, PositionLeftStale
       DEF DepositReserveLiquidityAndObligationCollateral, Quiet
<1>3. CASE o \in Obligations /\ DepositObligationCollateral(o)
  <2>1. Noting(reserve, reserve')
    BY <1>3, ReserveShaped, OperatorsKeep, Composition
       DEF DepositObligationCollateral, Commit
  <2> QED
    BY <1>3, <2>1, PositionLeftStale DEF DepositObligationCollateral, Quiet
<1> QED
  BY <1>1, <1>2, <1>3

LEMMA RedemptionsQuiet ==
  ASSUME TypeOK, NEW o, NEW collateral,
         \/ RedeemReserveCollateral(collateral)
         \/ /\ o \in Obligations
            /\ \/ WithdrawObligationCollateral(o)
               \/ WithdrawObligationCollateralAndRedeemReserveCollateral(o, collateral)
  PROVE  Quiet
<1>1. CASE RedeemReserveCollateral(collateral)
  <2>1. PICK r \in InternalRefreshes(reserve) : reserve' = RedeemedWithinCap(r, collateral)
    BY <1>1 DEF RedeemReserveCollateral, Commit
  <2>2. Shaped(r)
    BY ReserveShaped, InternalRefreshesAccrue DEF Refreshing
  <2>3. Noting(reserve, reserve')
    BY <2>1, <2>2, RedeemedNotes, RefreshedFirst
  <2> QED
    BY <1>1, <2>3, PositionsLeft DEF RedeemReserveCollateral, Quiet, PayRedemption
<1>2. CASE o \in Obligations /\ WithdrawObligationCollateral(o)
  BY <1>2, Untouched, PositionLeftStale DEF WithdrawObligationCollateral, Quiet
<1>3. CASE /\ o \in Obligations
           /\ WithdrawObligationCollateralAndRedeemReserveCollateral(o, collateral)
  BY <1>3, ReserveShaped, RedeemedNotes, PositionLeftStale
     DEF WithdrawObligationCollateralAndRedeemReserveCollateral, Commit, Quiet
<1> QED
  BY <1>1, <1>2, <1>3

LEMMA BorrowQuiet ==
  ASSUME TypeOK, NEW o \in Obligations, NEW debt, NEW received, NEW fees,
         Borrow(o, debt, received, fees)
  PROVE  Quiet
<1> DEFINE capped == [reserve EXCEPT
                        !.debtCap = AddToAccum(@, ToCeil(debt), clock.timestamp)]
           borrowed == MarkStale(LiquidityBorrowed(capped, debt))
<1>1. Same(reserve, capped)
  BY ReserveShaped, FieldsKept
<1>2. reserve' = borrowed \/ reserve' = ReferrerPaid(borrowed, fees.referrer)
  BY DEF Borrow, Commit
<1> HIDE DEF capped
<1>3. Same(reserve, LiquidityBorrowed(capped, debt))
  BY <1>1, OperatorsKeep, Composition DEF Same
<1>4. Same(reserve, borrowed)
  BY <1>3, MarkedSame
<1> HIDE DEF borrowed
<1>5. Same(reserve, reserve')
  BY <1>2, <1>4, OperatorsKeep, Composition DEF Same
<1>6. Noting(reserve, reserve')
  BY <1>5, Composition
<1>7. QuietPositions
  <2> DEFINE p == [obligations[o] EXCEPT
                     !.borrowed = @ + debt,
                     !.rate = IF HasDebt(o) THEN @ ELSE reserve.cumulativeBorrowRate]
  <2>1. "stale" \in DOMAIN p
    BY DEF TypeOK, ObligationStates
  <2>2. obligations' = [obligations EXCEPT ![o] = [p EXCEPT !.stale = TRUE]]
    BY DEF Borrow, TypeOK, ObligationStates
  <2> QED
    BY <2>1, <2>2, PositionMarked
<1> QED
  BY <1>6, <1>7 DEF Borrow, Quiet

LEMMA BorrowsQuiet ==
  ASSUME TypeOK, NEW o \in Obligations, NEW amount,
         BorrowObligationLiquidity(o, amount) \/ BorrowMaxObligationLiquidity(o)
  PROVE  Quiet
<1>1. CASE BorrowObligationLiquidity(o, amount)
  BY <1>1, BorrowQuiet DEF BorrowObligationLiquidity
<1>2. CASE BorrowMaxObligationLiquidity(o)
  <2>1. \E debt, received, fees : Borrow(o, debt, received, fees)
    BY <1>2 DEF BorrowMaxObligationLiquidity
  <2> QED
    BY <2>1, BorrowQuiet
<1> QED
  BY <1>1, <1>2

LEMMA SettleDebtQuiet ==
  ASSUME TypeOK, NEW o \in Obligations, NEW position, "stale" \in DOMAIN position,
         NEW r, Same(reserve, r), NEW settle, SettleDebt(o, position, r, settle),
         clock' = clock
  PROVE  Quiet
<1>1. Same(reserve, LiquidityRepaid(r, ToCeil(settle), settle))
  BY OperatorsKeep, Composition DEF Same
<1>2. Same(reserve, reserve')
  BY <1>1, MarkedSame DEF SettleDebt, Commit
<1>3. Noting(reserve, reserve')
  BY <1>2, Composition
<1>4. QuietPositions
  BY RepaidShape, PositionMarked DEF SettleDebt
<1> QED
  BY <1>3, <1>4 DEF Quiet

LEMMA RepaymentsQuiet ==
  ASSUME TypeOK, NEW o \in Obligations, NEW amount,
         RepayObligationLiquidity(o, amount) \/ LiquidateDebt(o)
  PROVE  Quiet
<1>1. "stale" \in DOMAIN obligations[o]
  BY DEF TypeOK, ObligationStates
<1>2. CASE RepayObligationLiquidity(o, amount)
  <2> DEFINE position == Accrued(obligations[o], reserve.cumulativeBorrowRate)
             capped(settle) == [reserve EXCEPT
                !.debtCap = SubFromAccum(@, ToCeil(settle), clock.timestamp)]
  <2>1. PICK settle \in SettleAmounts(position, amount) :
          SettleDebt(o, position, capped(settle), settle)
    BY <1>2 DEF RepayObligationLiquidity
  <2>2. "stale" \in DOMAIN position
    BY <1>1 DEF Accrued
  <2>3. Same(reserve, capped(settle))
    BY ReserveShaped, FieldsKept
  <2> HIDE DEF position, capped
  <2> QED
    BY <1>2, <2>1, <2>2, <2>3, SettleDebtQuiet DEF RepayObligationLiquidity
<1>3. CASE LiquidateDebt(o)
  <2>1. Same(reserve, reserve)
    BY ReserveShaped DEF Same, SameAccrual, SameTimes
  <2> QED
    BY <1>1, <1>3, <2>1, SettleDebtQuiet DEF LiquidateDebt
<1> QED
  BY <1>2, <1>3

LEMMA SeizeNotes ==
  ASSUME NEW r, Shaped(r), NEW collateral, Seize(r, collateral)
  PROVE  Noting(r, reserve') /\ SameAccrual(r, reserve')
<1>1. reserve' = r \/ reserve' = Redeemed(r, RedeemableOf(r, collateral))
  BY DEF Seize, Commit
<1>2. CASE reserve' = r
  BY <1>2 DEF Noting, Accrues, SameAccrual, KeepsTimes
<1> QED
  BY <1>1, <1>2, RedeemedNotes

LEMMA SeizuresQuiet ==
  ASSUME TypeOK, NEW o \in Obligations, NEW collateral,
         LiquidateCollateral(o, collateral) \/ LiquidateWithinReserve(o, collateral)
  PROVE  Quiet
<1>1. CASE LiquidateCollateral(o, collateral)
  <2>1. PICK r \in InternalRefreshes(reserve) : Seize(r, collateral)
    BY <1>1 DEF LiquidateCollateral
  <2>2. Refreshing(reserve, r)
    BY ReserveShaped, InternalRefreshesAccrue
  <2>3. Noting(reserve, reserve')
    BY <2>1, <2>2, SeizeNotes, Composition DEF Refreshing
  <2> QED
    BY <1>1, <2>3, PositionLeftStale DEF LiquidateCollateral, Quiet
<1>2. CASE LiquidateWithinReserve(o, collateral)
  <2> DEFINE repaid(settle) == MarkStale(LiquidityRepaid(reserve, ToCeil(settle), settle))
  <2>1. PICK settle \in 1..obligations[o].borrowed :
          /\ \E r \in InternalRefreshes(repaid(settle)) : Seize(r, collateral)
          /\ obligations' = [obligations EXCEPT ![o] =
                [PositionRepaid(obligations[o], settle) EXCEPT !.stale = TRUE]]
    BY <1>2 DEF LiquidateWithinReserve
  <2>2. PICK r \in InternalRefreshes(repaid(settle)) : Seize(r, collateral)
    BY <2>1
  <2>3. Same(reserve, repaid(settle))
    BY ReserveShaped, OperatorsKeep, MarkedSame
  <2> HIDE DEF repaid
  <2>4. Refreshing(repaid(settle), r)
    BY <2>3, ReserveShaped, InternalRefreshesAccrue DEF Same, SameAccrual
  <2>5. Noting(reserve, reserve')
    BY <2>2, <2>3, <2>4, SeizeNotes, Composition DEF Refreshing
  <2>6. QuietPositions
    <3>1. "stale" \in DOMAIN PositionRepaid(obligations[o], settle)
      BY RepaidShape DEF TypeOK, ObligationStates
    <3> QED
      BY <2>1, <3>1, PositionMarked
  <2> QED
    BY <1>2, <2>5, <2>6 DEF LiquidateWithinReserve, Quiet
<1> QED
  BY <1>1, <1>2

LEMMA FeesQuiet ==
  ASSUME TypeOK, NEW referrer, RedeemFees \/ WithdrawReferrerFees(referrer)
  PROVE  Quiet
<1>1. PICK r : Same(reserve, r) /\ reserve' = MarkStale(r)
  <2>1. CASE RedeemFees
    BY <2>1, ReserveShaped, FieldsKept DEF RedeemFees, Commit
  <2>2. CASE WithdrawReferrerFees(referrer)
    BY <2>2, ReserveShaped, FieldsKept DEF WithdrawReferrerFees, Commit
  <2> QED
    BY <2>1, <2>2
<1>2. Same(reserve, reserve')
  BY <1>1, MarkedSame
<1> QED
  BY <1>2, Composition, PositionsLeft DEF RedeemFees, WithdrawReferrerFees, Quiet

LEMMA FlashLoansQuiet ==
  ASSUME TypeOK, NEW amount, NEW referrer,
         FlashBorrowReserveLiquidity(amount) \/ FlashRepayReserveLiquidity(referrer)
  PROVE  Quiet
<1>1. CASE FlashBorrowReserveLiquidity(amount)
  <2>1. PICK r \in InternalRefreshes(reserve) :
          reserve' = MarkStale(LiquidityBorrowed(r, FromNum(amount)))
    BY <1>1 DEF FlashBorrowReserveLiquidity, Commit
  <2>2. Shaped(r)
    BY ReserveShaped, InternalRefreshesAccrue DEF Refreshing
  <2>3. Same(r, reserve')
    BY <2>1, <2>2, OperatorsKeep, MarkedSame
  <2>4. Noting(reserve, reserve')
    BY <2>3, RefreshedFirst
  <2> QED
    BY <1>1, <2>4, PositionsLeft DEF FlashBorrowReserveLiquidity, Quiet
<1>2. CASE FlashRepayReserveLiquidity(referrer)
  <2> DEFINE r == LiquidityRepaid(reserve, flashLoan, FromNum(flashLoan))
             s == LimitTimestampsRefreshed(r, clock.timestamp)
  <2>1. Same(reserve, r)
    BY ReserveShaped, OperatorsKeep
  <2>2. \/ reserve' = MarkStale(s)
        \/ \E fee : reserve' = ReferrerPaid(MarkStale(s), fee)
    BY <1>2 DEF FlashRepayReserveLiquidity, Commit
  <2> HIDE DEF r
  <2>3. Noting(r, s) /\ SameAccrual(r, s)
    BY <2>1, TimestampsNote DEF Same
  <2> HIDE DEF s
  <2>4. Noting(reserve, s)
    BY <2>1, <2>3, Composition
  <2>5. Same(s, MarkStale(s))
    BY <2>3, OperatorsKeep DEF Noting
  <2>6. Same(s, reserve')
    BY <2>2, <2>5, OperatorsKeep, Composition DEF Same
  <2>7. Noting(reserve, reserve')
    BY <2>4, <2>6, Composition
  <2> QED
    BY <1>2, <2>7, PositionsLeft DEF FlashRepayReserveLiquidity, Quiet
<1> QED
  BY <1>1, <1>2

LEMMA SocializeLossQuiet ==
  ASSUME TypeOK, NEW o \in Obligations, NEW amount, SocializeLoss(o, amount)
  PROVE  Quiet
<1> DEFINE forgiven == Smaller(FromNum(amount), obligations[o].borrowed)
           r == [reserve EXCEPT !.borrowed = @ - forgiven]
<1>1. /\ reserve' = MarkStale(r) \/ reserve' = [MarkStale(r) EXCEPT !.version = "deprecated"]
      /\ obligations' = [obligations EXCEPT ![o] =
           [PositionRepaid(obligations[o], forgiven) EXCEPT !.stale = TRUE]]
  BY DEF SocializeLoss, Commit
<1>2. Same(reserve, MarkStale(r))
  BY ReserveShaped, FieldsKept, MarkedSame
<1> HIDE DEF r
<1>3. Same(reserve, reserve')
  <2>1. CASE reserve' = MarkStale(r)
    BY <1>2, <2>1
  <2>2. CASE reserve' = [MarkStale(r) EXCEPT !.version = "deprecated"]
    <3>1. Same(MarkStale(r), reserve')
      BY <1>2, <2>2, FieldsKept DEF Same
    <3> QED
      BY <1>2, <3>1, Composition
  <2> QED
    BY <1>1, <2>1, <2>2
<1>4. QuietPositions
  <2>1. "stale" \in DOMAIN PositionRepaid(obligations[o], forgiven)
    BY RepaidShape DEF TypeOK, ObligationStates
  <2> QED
    BY <1>1, <2>1, PositionMarked
<1> QED
  BY <1>3, <1>4, Composition DEF SocializeLoss, Quiet

LEMMA SettingsQuiet ==
  ASSUME TypeOK,
         \/ UpdateReserveConfig
         \/ UpdateWithdrawalCap
         \/ UpdateEntireReserveConfig
  PROVE  Quiet
<1>1. PICK r \in InternalRefreshes(reserve) :
        \E s : Same(r, s) /\ reserve' = MarkStale(s)
  <2>1. \A r \in InternalRefreshes(reserve) : Shaped(r)
    BY ReserveShaped, InternalRefreshesAccrue DEF Refreshing
  <2>2. CASE UpdateReserveConfig
    BY <2>1, <2>2, FieldsKept DEF UpdateReserveConfig, Commit
  <2>3. CASE UpdateWithdrawalCap
    BY <2>1, <2>3, FieldsKept DEF UpdateWithdrawalCap, Commit
  <2>4. CASE UpdateEntireReserveConfig
    BY <2>1, <2>4, FieldsKept DEF UpdateEntireReserveConfig, Commit
  <2> QED
    BY <2>2, <2>3, <2>4
<1>2. Noting(reserve, reserve')
  BY <1>1, MarkedSame, RefreshedFirst
<1>3. clock' = clock /\ obligations' = obligations
  BY DEF UpdateReserveConfig, UpdateWithdrawalCap, UpdateEntireReserveConfig
<1> QED
  BY <1>2, <1>3, PositionsLeft DEF Quiet

\* Steps that do not touch the reserve account.
LEMMA ElsewhereQuiet ==
  ASSUME TypeOK, NEW o \in Obligations,
         RefreshIdleObligation(o) \/ UseObligationElsewhere(o) \/ UpdateReferralFee
  PROVE  Quiet
<1>1. CASE RefreshIdleObligation(o)
  <2>1. QuietPositions
    BY <1>1 DEF RefreshIdleObligation, QuietPositions, HasDebt, TypeOK, ObligationStates
  <2> QED
    BY <1>1, <2>1, Untouched DEF RefreshIdleObligation, Quiet
<1>2. CASE UseObligationElsewhere(o)
  BY <1>2, Untouched, PositionLeftStale DEF UseObligationElsewhere, Quiet
<1>3. CASE UpdateReferralFee
  BY <1>3, Untouched, PositionsLeft DEF UpdateReferralFee, Quiet
<1> QED
  BY <1>1, <1>2, <1>3

\* The refresh of a position: the reserve is fresh, so it accrues up to an index
\* that no refresh in this slot can move.
LEMMA IndebtedRefreshAccrues ==
  ASSUME TypeOK, HInv, NEW o \in Obligations, RefreshIndebtedObligation(o)
  PROVE  HInv' /\ KeepsTimes(reserve, reserve')
<1>1. Same(reserve, reserve')
  <2> DEFINE r(share) == [reserve EXCEPT !.pendingReferrerFees = @ - share]
  <2>1. \E share : \/ reserve' = ReferrerFeeAdded(r(share), share)
                   \/ reserve' = [r(share) EXCEPT !.protocolFees = @ + share]
    BY DEF RefreshIndebtedObligation, Commit
  <2>2. \A share : Same(reserve, r(share))
    BY ReserveShaped, FieldsKept
  <2> HIDE DEF r
  <2>3. \A share, v : /\ Same(r(share), ReferrerFeeAdded(r(share), v))
                      /\ Same(r(share), [r(share) EXCEPT !.protocolFees = v])
    BY <2>2, FieldsKept, OperatorsKeep DEF Same
  <2>4. PICK share : \/ reserve' = ReferrerFeeAdded(r(share), share)
                     \/ reserve' = [r(share) EXCEPT !.protocolFees = @ + share]
    BY <2>1
  <2>5. Same(r(share), reserve')
    BY <2>3, <2>4
  <2> QED
    BY <2>2, <2>5, Composition
<1>2. /\ clock' = clock
      /\ reserve.slot \in Nat /\ clock.slot \in Nat
      /\ reserve.slot = clock.slot
  BY DEF RefreshIndebtedObligation, Fresh, IsStale, HInv, TypeOK, Reserves
<1>3. /\ obligations'[o].rate = reserve.cumulativeBorrowRate
      /\ obligations'[o].slot = clock.slot
  <2> DEFINE p == Accrued(obligations[o], reserve.cumulativeBorrowRate)
  <2>1. /\ {"rate", "slot", "stale", "priceStatus"} \subseteq DOMAIN p
        /\ p.rate = reserve.cumulativeBorrowRate
    BY DEF Accrued, TypeOK, ObligationStates
  <2>2. \E statuses : obligations' = [obligations EXCEPT ![o] =
          [p EXCEPT !.slot = clock.slot, !.stale = FALSE, !.priceStatus = statuses]]
    BY DEF RefreshIndebtedObligation
  <2> HIDE DEF p
  <2> QED
    BY <2>1, <2>2 DEF TypeOK
<1>4. \A q \in Obligations : q # o => obligations'[q] = obligations[q]
  BY DEF RefreshIndebtedObligation, TypeOK
<1> QED
  BY <1>1, <1>2, <1>3, <1>4 DEF HInv, HasDebt, PositionAccrued, Same, SameAccrual,
                                SameTimes, KeepsTimes

LEMMA TickKeeps ==
  ASSUME TypeOK, HInv, Tick
  PROVE  HInv' /\ KeepsTimes(reserve, reserve')
<1>1. /\ reserve' = reserve /\ obligations' = obligations
      /\ clock'.slot = clock.slot + 1
  BY DEF Tick
<1> QED
  BY <1>1 DEF TypeOK, Reserves, HInv, HasDebt, PositionAccrued, KeepsTimes

-------------------------------------------------------------------------------
(* The theorems. *)

LEMMA HistoryInit == Init => HInv
<1> SUFFICES ASSUME Init PROVE HInv
  OBVIOUS
<1>1. reserve.slot = 0 /\ clock.slot = 0
  BY DEF Init, NewReserve
<1>2. \A o \in Obligations : ~HasDebt(o)
  BY DEF Init, HasDebt, NewObligation
<1> QED
  BY <1>1, <1>2 DEF HInv

LEMMA HistoryNext ==
  TypeOK /\ TypeOK' /\ HInv /\ [Next]_vars => HInv' /\ KeepsTimes(reserve, reserve')
<1> SUFFICES ASSUME TypeOK, TypeOK', HInv, [Next]_vars
             PROVE  HInv' /\ KeepsTimes(reserve, reserve')
  OBVIOUS
<1>1. CASE RefreshReserve
  BY <1>1, RefreshReserveQuiet, QuietStep
<1>2. CASE SupplierNext
  BY <1>2, DepositsQuiet, RedemptionsQuiet, QuietStep DEF SupplierNext
<1>3. CASE ObligationNext
  <2> SUFFICES ASSUME NEW o \in Obligations,
                 \/ RefreshObligation(o)
                 \/ UseObligationElsewhere(o)
                 \/ DepositObligationCollateral(o)
                 \/ WithdrawObligationCollateral(o)
                 \/ BorrowMaxObligationLiquidity(o)
                 \/ LiquidateDebt(o)
                 \/ \E amount \in Amounts :
                      \/ BorrowObligationLiquidity(o, amount)
                      \/ RepayObligationLiquidity(o, amount)
                      \/ LiquidateCollateral(o, amount)
                      \/ LiquidateWithinReserve(o, amount)
                      \/ SocializeLoss(o, amount)
               PROVE  HInv' /\ KeepsTimes(reserve, reserve')
    BY <1>3 DEF ObligationNext
  <2>1. CASE RefreshObligation(o)
    BY <2>1, ElsewhereQuiet, QuietStep, IndebtedRefreshAccrues DEF RefreshObligation
  <2>2. CASE UseObligationElsewhere(o)
    BY <2>2, ElsewhereQuiet, QuietStep
  <2>3. CASE DepositObligationCollateral(o) \/ WithdrawObligationCollateral(o)
    BY <2>3, DepositsQuiet, RedemptionsQuiet, QuietStep
  <2>4. CASE BorrowMaxObligationLiquidity(o) \/ LiquidateDebt(o)
    BY <2>4, BorrowsQuiet, RepaymentsQuiet, QuietStep
  <2>5. ASSUME NEW amount \in Amounts,
               \/ BorrowObligationLiquidity(o, amount)
               \/ RepayObligationLiquidity(o, amount)
               \/ LiquidateCollateral(o, amount)
               \/ LiquidateWithinReserve(o, amount)
               \/ SocializeLoss(o, amount)
        PROVE  HInv' /\ KeepsTimes(reserve, reserve')
    BY <2>5, BorrowsQuiet, RepaymentsQuiet, SeizuresQuiet, SocializeLossQuiet, QuietStep
  <2> QED
    BY <2>1, <2>2, <2>3, <2>4, <2>5
<1>4. CASE FeeNext
  BY <1>4, FeesQuiet, QuietStep DEF FeeNext
<1>5. CASE FlashLoanNext
  BY <1>5, FlashLoansQuiet, QuietStep DEF FlashLoanNext
<1>6. CASE AdminNext
  <2>1. CASE UpdateReferralFee
    <3>1. Quiet
      BY <2>1, Untouched, PositionsLeft DEF UpdateReferralFee, Quiet
    <3> QED
      BY <3>1, QuietStep
  <2> QED
    BY <1>6, <2>1, SettingsQuiet, QuietStep DEF AdminNext
<1>7. CASE Tick
  BY <1>7, TickKeeps
<1>8. CASE UNCHANGED vars
  BY <1>8 DEF vars, HInv, HasDebt, PositionAccrued, KeepsTimes
<1> QED
  BY <1>1, <1>2, <1>3, <1>4, <1>5, <1>6, <1>7, <1>8 DEF Next

\* In every reachable state the two invariants hold.
THEOREM HistoryInvariance == Spec => [](TypeOK /\ HInv)
<1>1. Spec => []TypeOK
  BY TypeCorrectness
<1> QED
  BY <1>1, HistoryInit, HistoryNext, PTL DEF Spec

\* A position that passes the staleness check of a borrow (last_update.is_stale)
\* has accrued all interest up to the reserve's index.
THEOREM FreshDebtAccrued == Spec => []FreshDebtIsCurrent
<1>1. TypeOK /\ HInv => FreshDebtIsCurrent
  BY DEF TypeOK, ObligationStates, Reserves, HInv, FreshDebtIsCurrent, Fresh, IsStale,
         PositionAccrued
<1> QED
  BY <1>1, HistoryInvariance, PTL

\* No step restarts the time of a limit that stays crossed
\* (refresh_reserve_limit_timestamps, which several handlers call).
THEOREM CrossingTimesKept == Spec => CrossingTimeKept
<1> DEFINE Kept ==
      /\ reserve.depositLimitCrossedAt # 0 /\ reserve'.depositLimitCrossedAt # 0
           => reserve'.depositLimitCrossedAt = reserve.depositLimitCrossedAt
      /\ reserve.borrowLimitCrossedAt # 0 /\ reserve'.borrowLimitCrossedAt # 0
           => reserve'.borrowLimitCrossedAt = reserve.borrowLimitCrossedAt
<1>1. TypeOK /\ HInv /\ (TypeOK /\ HInv)' /\ [Next]_vars => [Kept]_vars
  BY HistoryNext DEF KeepsTimes
<1> QED
  BY <1>1, HistoryInvariance, PTL DEF Spec, CrossingTimeKept

\* A deprecated reserve moves no tokens, cTokens or debts, even by the handlers
\* that do not check its version: it is stale for ever.
THEOREM DeprecatedStaysFrozen == Spec => DeprecatedIsFrozen
<1> DEFINE Frozen ==
      ~IsCurrent =>
        /\ circulating' = circulating
        /\ \A o \in Obligations : obligations'[o].borrowed = obligations[o].borrowed
        /\ flashLoan' # 0 \/ flashLoan = 0 => vault' = vault
<1>1. IInv /\ [Next]_vars => [Frozen]_vars
  <2> SUFFICES ASSUME IInv, Next, ~IsCurrent PROVE Frozen
    OBVIOUS
  <2>1. \A flags : ~Fresh(reserve, flags)
    BY DEF IInv, DeprecatedIsStale, Fresh, IsStale
  <2>2. ~OpenForDeposits /\ \A o : ~CanBorrow(o) /\ ~CanLiquidate(o)
    BY DEF OpenForDeposits, CanBorrow, CanLiquidate
  <2>3. ~RefreshReserve
    BY DEF RefreshReserve
  <2>4. ~SupplierNext
    BY <2>2 DEF SupplierNext, DepositReserveLiquidity, RedeemReserveCollateral,
                DepositReserveLiquidityAndObligationCollateral,
                WithdrawObligationCollateralAndRedeemReserveCollateral
  <2>5. ASSUME NEW o \in Obligations,
               RefreshIdleObligation(o) \/ UseObligationElsewhere(o)
        PROVE  Frozen
    BY <2>5 DEF RefreshIdleObligation, UseObligationElsewhere, IInv, TypeOK, ObligationStates
  <2>6. CASE ObligationNext
    BY <2>1, <2>2, <2>5, <2>6
       DEF ObligationNext, RefreshObligation, RefreshIndebtedObligation,
           DepositObligationCollateral, WithdrawObligationCollateral,
           BorrowMaxObligationLiquidity, BorrowObligationLiquidity,
           RepayObligationLiquidity, LiquidateDebt, LiquidateCollateral,
           LiquidateWithinReserve, SocializeLoss
  <2>7. ~FeeNext
    BY <2>1 DEF FeeNext, RedeemFees, WithdrawReferrerFees
  <2>8. CASE FlashLoanNext
    BY <2>8 DEF FlashLoanNext, FlashBorrowReserveLiquidity, FlashRepayReserveLiquidity
  <2>9. CASE AdminNext \/ Tick
    BY <2>9 DEF AdminNext, UpdateReserveConfig, UpdateWithdrawalCap,
                UpdateEntireReserveConfig, UpdateReferralFee, Tick
  <2> QED
    BY <2>3, <2>4, <2>6, <2>7, <2>8, <2>9 DEF Next
<1> QED
  BY <1>1, Invariance, PTL DEF Spec, DeprecatedIsFrozen

-------------------------------------------------------------------------------
(* What is owed to the referrers.                                             *)

Owing(r) == "referrerFees" \in DOMAIN r
SameFees(r, s) == Owing(s) /\ s.referrerFees = r.referrerFees

LEMMA ReserveOwing == ASSUME TypeOK PROVE Owing(reserve) /\ SameFees(reserve, reserve)
BY DEF TypeOK, Reserves, Owing, SameFees

LEMMA FeesTransitive ==
  \A r, s, t : SameFees(r, s) /\ SameFees(s, t) => SameFees(r, t)
BY DEF SameFees

\* No method of the account but those of fees touches what it owes them.
LEMMA MethodsKeepFees ==
  ASSUME NEW r, Owing(r)
  PROVE  /\ SameFees(r, MarkStale(r))
         /\ \A a : SameFees(r, LiquidityBorrowed(r, a))
         /\ \A a, b : SameFees(r, LiquidityRepaid(r, a, b))
         /\ \A now : SameFees(r, LimitTimestampsRefreshed(r, now))
         /\ \A f, rate : SameFees(r, Compounded(r, f, rate))
<1>1. SameFees(r, MarkStale(r)) BY DEF Owing, SameFees, MarkStale
<1>2. \A a : SameFees(r, LiquidityBorrowed(r, a)) BY DEF Owing, SameFees, LiquidityBorrowed
<1>3. \A a, b : SameFees(r, LiquidityRepaid(r, a, b)) BY DEF Owing, SameFees, LiquidityRepaid
<1>4. \A now : SameFees(r, LimitTimestampsRefreshed(r, now))
  BY DEF Owing, SameFees, LimitTimestampsRefreshed
<1>5. \A f, rate : SameFees(r, Compounded(r, f, rate)) BY DEF Owing, SameFees, Compounded
<1> QED BY <1>1, <1>2, <1>3, <1>4, <1>5

LEMMA RefreshesKeepFees ==
  ASSUME NEW r, Owing(r), NEW statuses, NEW s \in Refreshes(r, statuses)
  PROVE  SameFees(r, s)
<1>1. PICK f \in CompoundingFactors, status \in statuses :
        s = Refreshed(r, clock.slot, f, status, referralRate)
  BY DEF Refreshes
<1> DEFINE t == IF clock.slot > r.slot THEN Compounded(r, f, referralRate) ELSE r
<1>2. SameFees(r, t) BY MethodsKeepFees DEF SameFees, Owing
<1>3. s = [t EXCEPT !.slot = clock.slot, !.stale = FALSE, !.priceStatus = status]
  BY <1>1 DEF Refreshed
<1> HIDE DEF t
<1> QED BY <1>2, <1>3 DEF SameFees, Owing

LEMMA InternalRefreshesKeepFees ==
  ASSUME NEW r, Owing(r), NEW s \in InternalRefreshes(r)
  PROVE  SameFees(r, s)
BY RefreshesKeepFees DEF InternalRefreshes

\* Fields that handlers set themselves, before or after they mark the account stale.
LEMMA FieldsKeepFees ==
  ASSUME NEW r, Owing(r), NEW v, NEW w, NEW x
  PROVE  /\ SameFees(r, [r EXCEPT !.borrowed = v])
         /\ SameFees(r, [r EXCEPT !.version = v])
         /\ SameFees(r, [r EXCEPT !.config = v])
         /\ SameFees(r, [r EXCEPT !.depositCap = v])
         /\ SameFees(r, [r EXCEPT !.debtCap = v])
         /\ SameFees(r, [r EXCEPT !.protocolFees = v])
         /\ SameFees(r, [r EXCEPT !.pendingReferrerFees = v])
         /\ SameFees(r, [r EXCEPT !.available = v, !.protocolFees = w])
         /\ SameFees(r, [r EXCEPT !.available = v, !.mintTotalSupply = w])
         /\ SameFees(r, [r EXCEPT !.available = v, !.mintTotalSupply = w, !.depositCap = x])
         /\ SameFees(r, [r EXCEPT !.config = v, !.depositCap = w, !.debtCap = x])
BY DEF Owing, SameFees

LEMMA MarkedKeepsFees ==
  ASSUME NEW r, NEW s, SameFees(r, s)
  PROVE  SameFees(r, MarkStale(s))
BY MethodsKeepFees, FeesTransitive DEF SameFees

LEMMA DepositedKeepsFees ==
  ASSUME NEW r, Owing(r), NEW amount
  PROVE  SameFees(r, Deposited(r, amount))
BY FieldsKeepFees, MarkedKeepsFees DEF Deposited

LEMMA RedeemedKeepsFees ==
  ASSUME NEW r, Owing(r), NEW collateral
  PROVE  /\ SameFees(r, Redeemed(r, collateral))
         /\ SameFees(r, RedeemedWithinCap(r, collateral))
<1> DEFINE s == [r EXCEPT !.available = @ - LiquidityRedeemed(r, collateral),
                          !.mintTotalSupply = @ - collateral]
           t == LimitTimestampsRefreshed(s, clock.timestamp)
<1>1. SameFees(r, s) BY FieldsKeepFees
<1> HIDE DEF s
<1>2. SameFees(r, t) BY <1>1, MethodsKeepFees, FeesTransitive DEF SameFees
<1> HIDE DEF t
<1>3. SameFees(r, Redeemed(r, collateral))
  BY <1>2, MarkedKeepsFees DEF Redeemed, s, t
<1>4. SameFees(Redeemed(r, collateral), RedeemedWithinCap(r, collateral))
  BY <1>3, FieldsKeepFees DEF RedeemedWithinCap, SameFees
<1> QED BY <1>3, <1>4, FeesTransitive

LEMMA SeizeKeepsFees ==
  ASSUME NEW r, Owing(r), NEW collateral, Seize(r, collateral)
  PROVE  SameFees(r, reserve')
<1>1. reserve' = r \/ reserve' = Redeemed(r, RedeemableOf(r, collateral))
  BY DEF Seize, Commit
<1> QED BY <1>1, RedeemedKeepsFees DEF SameFees, Owing

FeesIdle == SameFees(reserve, reserve') /\ unclaimed' = unclaimed

LEMMA SupplierIdle ==
  ASSUME TypeOK, SupplierNext
  PROVE  FeesIdle
<1>1. Owing(reserve) BY ReserveOwing
<1>2. PICK amount \in Amounts :
        \/ DepositReserveLiquidity(amount)
        \/ RedeemReserveCollateral(amount)
        \/ \E o \in Obligations :
             \/ DepositReserveLiquidityAndObligationCollateral(o, amount)
             \/ WithdrawObligationCollateralAndRedeemReserveCollateral(o, amount)
  BY DEF SupplierNext
<1>3. CASE DepositReserveLiquidity(amount)
  <2>1. PICK r \in InternalRefreshes(reserve) : reserve' = Deposited(r, amount)
    BY <1>3 DEF DepositReserveLiquidity, Commit
  <2>2. SameFees(reserve, r) BY <1>1, InternalRefreshesKeepFees
  <2>3. SameFees(r, reserve') BY <2>1, <2>2, DepositedKeepsFees DEF SameFees
  <2> QED BY <1>3, <2>2, <2>3, FeesTransitive DEF FeesIdle, DepositReserveLiquidity
<1>4. CASE RedeemReserveCollateral(amount)
  <2>1. PICK r \in InternalRefreshes(reserve) : reserve' = RedeemedWithinCap(r, amount)
    BY <1>4 DEF RedeemReserveCollateral, Commit
  <2>2. SameFees(reserve, r) BY <1>1, InternalRefreshesKeepFees
  <2>3. SameFees(r, reserve') BY <2>1, <2>2, RedeemedKeepsFees DEF SameFees
  <2> QED BY <1>4, <2>2, <2>3, FeesTransitive DEF FeesIdle, RedeemReserveCollateral
<1>5. ASSUME NEW o \in Obligations, DepositReserveLiquidityAndObligationCollateral(o, amount)
      PROVE  FeesIdle
  <2> DEFINE d == Deposited(reserve, amount)
  <2>1. PICK r \in InternalRefreshes(d) : reserve' = MarkStale(r)
    BY <1>5 DEF DepositReserveLiquidityAndObligationCollateral, Commit
  <2>2. SameFees(reserve, d) BY <1>1, DepositedKeepsFees
  <2> HIDE DEF d
  <2>3. SameFees(d, r) BY <2>2, InternalRefreshesKeepFees DEF SameFees
  <2>4. SameFees(reserve, reserve') BY <2>1, <2>2, <2>3, FeesTransitive, MarkedKeepsFees
  <2> QED BY <1>5, <2>4 DEF FeesIdle, DepositReserveLiquidityAndObligationCollateral
<1>6. ASSUME NEW o \in Obligations,
             WithdrawObligationCollateralAndRedeemReserveCollateral(o, amount)
      PROVE  FeesIdle
  BY <1>1, <1>6, RedeemedKeepsFees
     DEF FeesIdle, WithdrawObligationCollateralAndRedeemReserveCollateral, Commit
<1> QED BY <1>2, <1>3, <1>4, <1>5, <1>6

LEMMA PositionsIdle ==
  ASSUME TypeOK, NEW o \in Obligations, NEW amount,
         \/ RefreshIdleObligation(o)
         \/ UseObligationElsewhere(o)
         \/ DepositObligationCollateral(o)
         \/ WithdrawObligationCollateral(o)
         \/ LiquidateDebt(o)
         \/ RepayObligationLiquidity(o, amount)
         \/ LiquidateCollateral(o, amount)
         \/ LiquidateWithinReserve(o, amount)
         \/ SocializeLoss(o, amount)
  PROVE  FeesIdle
<1>1. Owing(reserve) BY ReserveOwing
<1>2. CASE RefreshIdleObligation(o) \/ UseObligationElsewhere(o) \/ WithdrawObligationCollateral(o)
  BY <1>2, ReserveOwing DEF FeesIdle, RefreshIdleObligation, UseObligationElsewhere, WithdrawObligationCollateral
<1>3. CASE DepositObligationCollateral(o)
  BY <1>1, <1>3, MethodsKeepFees DEF FeesIdle, DepositObligationCollateral, Commit
<1>4. ASSUME NEW p, NEW r, NEW settle, SettleDebt(o, p, r, settle), SameFees(reserve, r)
      PROVE  SameFees(reserve, reserve')
  <2>1. SameFees(r, LiquidityRepaid(r, ToCeil(settle), settle))
    BY <1>4, MethodsKeepFees DEF SameFees
  <2> QED BY <1>4, <2>1, FeesTransitive, MarkedKeepsFees DEF SettleDebt, Commit
<1>5. CASE LiquidateDebt(o)
  BY <1>4, <1>5, ReserveOwing DEF FeesIdle, LiquidateDebt
<1>6. CASE RepayObligationLiquidity(o, amount)
  <2> DEFINE capped(settle) == [reserve EXCEPT
                !.debtCap = SubFromAccum(@, ToCeil(settle), clock.timestamp)]
  <2>1. \E p, settle : SettleDebt(o, p, capped(settle), settle)
    BY <1>6 DEF RepayObligationLiquidity
  <2>2. \A settle : SameFees(reserve, capped(settle)) BY <1>1, FieldsKeepFees
  <2> HIDE DEF capped
  <2>3. SameFees(reserve, reserve') BY <1>4, <2>1, <2>2
  <2> QED BY <1>6, <2>3 DEF FeesIdle, RepayObligationLiquidity
<1>7. CASE LiquidateCollateral(o, amount)
  <2>1. PICK r \in InternalRefreshes(reserve) : Seize(r, amount)
    BY <1>7 DEF LiquidateCollateral
  <2>2. SameFees(reserve, r) BY <1>1, InternalRefreshesKeepFees
  <2>3. SameFees(r, reserve') BY <2>1, <2>2, SeizeKeepsFees DEF SameFees
  <2> QED BY <1>7, <2>2, <2>3, FeesTransitive DEF FeesIdle, LiquidateCollateral
<1>8. CASE LiquidateWithinReserve(o, amount)
  <2> DEFINE repaid(settle) == MarkStale(LiquidityRepaid(reserve, ToCeil(settle), settle))
  <2>1. PICK settle \in 1..obligations[o].borrowed :
          \E r \in InternalRefreshes(repaid(settle)) : Seize(r, amount)
    BY <1>8 DEF LiquidateWithinReserve
  <2>2. SameFees(reserve, repaid(settle)) BY <1>1, MethodsKeepFees, MarkedKeepsFees
  <2> HIDE DEF repaid
  <2>3. PICK r \in InternalRefreshes(repaid(settle)) : Seize(r, amount) BY <2>1
  <2>4. SameFees(repaid(settle), r) BY <2>2, InternalRefreshesKeepFees DEF SameFees
  <2>5. SameFees(r, reserve') BY <2>3, <2>4, SeizeKeepsFees DEF SameFees
  <2>6. SameFees(reserve, reserve') BY <2>2, <2>4, <2>5, FeesTransitive
  <2> QED BY <1>8, <2>6 DEF FeesIdle, LiquidateWithinReserve
<1>9. CASE SocializeLoss(o, amount)
  <2> DEFINE forgiven == Smaller(FromNum(amount), obligations[o].borrowed)
             r == [reserve EXCEPT !.borrowed = @ - forgiven]
             s == MarkStale(r)
  <2>1. reserve' = s \/ reserve' = [s EXCEPT !.version = "deprecated"]
    BY <1>9 DEF SocializeLoss, Commit
  <2>2. SameFees(reserve, s) BY <1>1, FieldsKeepFees, MarkedKeepsFees
  <2> HIDE DEF s
  <2>3. SameFees(s, [s EXCEPT !.version = "deprecated"])
    BY <2>2, FieldsKeepFees DEF SameFees
  <2>4. SameFees(reserve, reserve') BY <2>1, <2>2, <2>3, FeesTransitive
  <2> QED BY <1>9, <2>4 DEF FeesIdle, SocializeLoss
<1> QED BY <1>2, <1>3, <1>5, <1>6, <1>7, <1>8, <1>9

LEMMA OthersIdle ==
  ASSUME TypeOK,
         \/ RefreshReserve
         \/ RedeemFees
         \/ \E amount \in Amounts : FlashBorrowReserveLiquidity(amount)
         \/ AdminNext
         \/ Tick
         \/ UNCHANGED vars
  PROVE  FeesIdle
<1>1. Owing(reserve) BY ReserveOwing
<1>2. CASE RefreshReserve
  <2>1. PICK r \in Refreshes(reserve, {reserve.priceStatus, {}} \cup PriceStatuses) :
          reserve' = LimitTimestampsRefreshed(r, clock.timestamp)
    BY <1>2 DEF RefreshReserve, Commit
  <2>2. SameFees(reserve, r) BY <1>1, RefreshesKeepFees
  <2>3. SameFees(r, reserve') BY <2>1, <2>2, MethodsKeepFees DEF SameFees
  <2> QED BY <1>2, <2>2, <2>3, FeesTransitive DEF FeesIdle, RefreshReserve
<1>3. CASE RedeemFees
  <2>1. PICK r : SameFees(reserve, r) /\ reserve' = MarkStale(r)
    BY <1>1, <1>3, FieldsKeepFees DEF RedeemFees, Commit
  <2> QED BY <1>3, <2>1, MarkedKeepsFees DEF FeesIdle, RedeemFees
<1>4. ASSUME NEW amount \in Amounts, FlashBorrowReserveLiquidity(amount)
      PROVE  FeesIdle
  <2>1. PICK r \in InternalRefreshes(reserve) :
          reserve' = MarkStale(LiquidityBorrowed(r, FromNum(amount)))
    BY <1>4 DEF FlashBorrowReserveLiquidity, Commit
  <2>2. SameFees(reserve, r) BY <1>1, InternalRefreshesKeepFees
  <2>3. SameFees(r, reserve') BY <2>1, <2>2, MethodsKeepFees, MarkedKeepsFees DEF SameFees
  <2> QED BY <1>4, <2>2, <2>3, FeesTransitive DEF FeesIdle, FlashBorrowReserveLiquidity
<1>5. CASE UpdateReserveConfig \/ UpdateWithdrawalCap \/ UpdateEntireReserveConfig
  <2>1. \A r \in InternalRefreshes(reserve) : SameFees(reserve, r) /\ Owing(r)
    BY <1>1, InternalRefreshesKeepFees DEF SameFees
  <2>2. PICK r \in InternalRefreshes(reserve) :
          \E s : SameFees(r, s) /\ reserve' = MarkStale(s)
    <3>1. CASE UpdateReserveConfig
      BY <2>1, <3>1, FieldsKeepFees DEF UpdateReserveConfig, Commit
    <3>2. CASE UpdateWithdrawalCap
      BY <2>1, <3>2, FieldsKeepFees DEF UpdateWithdrawalCap, Commit
    <3>3. CASE UpdateEntireReserveConfig
      BY <2>1, <3>3, FieldsKeepFees DEF UpdateEntireReserveConfig, Commit
    <3> QED BY <1>5, <3>1, <3>2, <3>3
  <2>3. SameFees(reserve, reserve') BY <2>1, <2>2, FeesTransitive, MarkedKeepsFees
  <2> QED
    BY <1>5, <2>3
       DEF FeesIdle, UpdateReserveConfig, UpdateWithdrawalCap, UpdateEntireReserveConfig
<1>6. CASE UpdateReferralFee \/ Tick \/ UNCHANGED vars
  BY <1>6, ReserveOwing DEF FeesIdle, UpdateReferralFee, Tick, vars
<1> QED BY <1>2, <1>3, <1>4, <1>5, <1>6 DEF AdminNext

-------------------------------------------------------------------------------
(* The three places that credit a referrer, and the one that pays.            *)

FeesMoved(referrer, fee) ==
  /\ reserve'.referrerFees = reserve.referrerFees + fee
  /\ unclaimed' = ReferrerCredited(referrer, fee)

LEMMA CoveredIsSum ==
  /\ ReferrersCovered <=> reserve.referrerFees = SumFunctionOnSet(unclaimed, Referrers)
  /\ ReferrersCovered' <=> reserve'.referrerFees = SumFunctionOnSet(unclaimed', Referrers)
BY DEF ReferrersCovered, MapThenSumSet, SumFunctionOnSet, FoldFunctionOnSet, MapThenFoldSet

\* Both sides of ReferrersCovered move by the same amount.
LEMMA MovedStays ==
  ASSUME TypeOK, TypeOK', ReferrersCovered, NEW referrer \in Referrers, NEW fee \in Int,
         FeesMoved(referrer, fee)
  PROVE  ReferrersCovered'
<1>1. /\ unclaimed \in [Referrers -> Nat] /\ unclaimed' \in [Referrers -> Nat]
      /\ reserve.referrerFees \in Nat
      /\ referrer # NoReferrer
      /\ IsFiniteSet(Referrers)
  BY ReserveAssumption DEF TypeOK, Reserves
<1>2. /\ unclaimed'[referrer] = unclaimed[referrer] + fee
      /\ \A x \in Referrers \ {referrer} : unclaimed[x] = unclaimed'[x]
      /\ unclaimed[referrer] \in Nat
  BY <1>1 DEF FeesMoved, ReferrerCredited
<1>3. SumFunctionOnSet(unclaimed', Referrers)
        = SumFunctionOnSet(unclaimed, Referrers) - unclaimed[referrer] + unclaimed'[referrer]
  BY <1>1, <1>2, SumUpdate
<1>4. SumFunctionOnSet(unclaimed, Referrers) = reserve.referrerFees BY CoveredIsSum
<1>5. SumFunctionOnSet(unclaimed', Referrers) = reserve'.referrerFees
  BY <1>1, <1>2, <1>3, <1>4 DEF FeesMoved
<1> QED BY <1>5, CoveredIsSum

LEMMA IdleStays ==
  ASSUME FeesIdle, ReferrersCovered
  PROVE  ReferrersCovered'
BY CoveredIsSum DEF FeesIdle, SameFees

LEMMA IndebtedRefreshCovers ==
  ASSUME IInv, TypeOK', ReferrersCovered, NEW o \in Obligations, RefreshIndebtedObligation(o)
  PROVE  ReferrersCovered'
<1> DEFINE before   == obligations[o].borrowed
           position == Accrued(obligations[o], reserve.cumulativeBorrowRate)
           share(f) == IF reserve.absoluteReferralRate = 0 THEN 0
                       ELSE ReferralShare(reserve, before, position.borrowed, f)
           r(f) == [reserve EXCEPT !.pendingReferrerFees = @ - share(f)]
<1>1. /\ TypeOK /\ reserve \in Reserves /\ Owing(reserve)
      /\ reserve.cumulativeBorrowRate \in Nat
      /\ obligations[o] \in ObligationStates
  BY ReserveOwing DEF IInv, TypeOK, Reserves
<1>2. position \in ObligationStates
  BY <1>1, AccruedType DEF RefreshIndebtedObligation, HasDebt
<1>3. before \in Nat /\ position.borrowed \in Nat
  BY <1>1, <1>2 DEF ObligationStates
<1> HIDE DEF position
<1>4. PICK fixed \in FixedFactors(clock.slot - obligations[o].slot) :
        /\ ReferralComputable(reserve, before, position.borrowed, fixed)
        /\ IF HasReferrer(o) /\ referralRate > 0
           THEN /\ Commit(ReferrerFeeAdded(r(fixed), share(fixed)))
                /\ unclaimed' = ReferrerCredited(ReferrerOf[o], share(fixed))
           ELSE /\ Commit([r(fixed) EXCEPT !.protocolFees = @ + share(fixed)])
                /\ UNCHANGED unclaimed
  BY DEF RefreshIndebtedObligation, position
<1>5. fixed \in Nat BY ReserveAssumption, OneAssumption DEF FixedFactors
<1>6. share(fixed) \in Int BY <1>1, <1>3, <1>4, <1>5, ReferralShareType
<1> HIDE DEF share
<1>7. SameFees(reserve, r(fixed)) BY <1>1, FieldsKeepFees
<1> HIDE DEF r
<1>8. CASE HasReferrer(o) /\ referralRate > 0
  <2>1. ReferrerOf[o] \in Referrers
    BY <1>8, ReserveAssumption DEF HasReferrer
  <2>2. FeesMoved(ReferrerOf[o], share(fixed))
    BY <1>4, <1>7, <1>8 DEF FeesMoved, Commit, ReferrerFeeAdded, SameFees, Owing
  <2> QED BY <1>1, <1>6, <2>1, <2>2, MovedStays
<1>9. CASE ~(HasReferrer(o) /\ referralRate > 0)
  <2>1. /\ reserve' = [r(fixed) EXCEPT !.protocolFees = @ + share(fixed)]
        /\ unclaimed' = unclaimed
    BY <1>4, <1>9 DEF Commit
  <2>2. SameFees(r(fixed), reserve') BY <1>7, <2>1 DEF SameFees, Owing
  <2>3. FeesIdle BY <1>7, <2>1, <2>2, FeesTransitive DEF FeesIdle
  <2> QED BY <2>3, IdleStays
<1> QED BY <1>8, <1>9

LEMMA BorrowCovers ==
  ASSUME TypeOK, TypeOK', ReferrersCovered, NEW o \in Obligations, NEW debt, NEW received,
         NEW fees, fees.referrer \in Nat, Borrow(o, debt, received, fees)
  PROVE  ReferrersCovered'
<1> DEFINE capped == [reserve EXCEPT
                        !.debtCap = AddToAccum(@, ToCeil(debt), clock.timestamp)]
           borrowed == MarkStale(LiquidityBorrowed(capped, debt))
           credited == HasReferrer(o) /\ referralRate > 0
           fee == FromNum(fees.referrer)
<1>1. /\ reserve' = IF credited THEN ReferrerPaid(borrowed, fees.referrer) ELSE borrowed
      /\ unclaimed' = IF credited THEN ReferrerCredited(ReferrerOf[o], fee) ELSE unclaimed
  BY DEF Borrow, Commit
<1>2. SameFees(reserve, capped) BY ReserveOwing, FieldsKeepFees
<1> HIDE DEF capped
<1>3. SameFees(reserve, borrowed)
  <2>1. SameFees(capped, LiquidityBorrowed(capped, debt))
    BY <1>2, MethodsKeepFees DEF SameFees
  <2> QED BY <1>2, <2>1, FeesTransitive, MarkedKeepsFees
<1> HIDE DEF borrowed
<1>4. CASE credited
  <2>1. ReferrerOf[o] \in Referrers BY <1>4, ReserveAssumption DEF HasReferrer
  <2>2. FeesMoved(ReferrerOf[o], fee)
    BY <1>1, <1>3, <1>4 DEF FeesMoved, ReferrerPaid, ReferrerFeeAdded, SameFees, Owing
  <2>3. fee \in Int BY FromNumType
  <2> QED BY <2>1, <2>2, <2>3, MovedStays
<1>5. CASE ~credited
  BY <1>1, <1>3, <1>5, IdleStays DEF FeesIdle
<1> QED BY <1>4, <1>5

LEMMA BorrowsCover ==
  ASSUME TypeOK, TypeOK', ReferrersCovered, NEW o \in Obligations,
         \/ BorrowMaxObligationLiquidity(o)
         \/ \E amount \in Amounts : BorrowObligationLiquidity(o, amount)
  PROVE  ReferrersCovered'
<1>1. ASSUME NEW amount \in Amounts, BorrowObligationLiquidity(o, amount)
      PROVE  ReferrersCovered'
  <2> DEFINE fees == BorrowFees(reserve, FromNum(amount), TRUE, o)
  <2>1. \E debt : Borrow(o, debt, amount, fees) BY <1>1 DEF BorrowObligationLiquidity
  <2>2. FromNum(amount) \in Nat BY ReserveAssumption, FromNumType
  <2>3. fees.referrer \in Nat BY <2>2, BorrowFeesType
  <2> HIDE DEF fees
  <2> QED BY <2>1, <2>3, BorrowCovers
<1>2. CASE BorrowMaxObligationLiquidity(o)
  <2> DEFINE debtOf(power) == Smaller(Smaller(power, RemainingCapacity(reserve)),
                                      FromNum(reserve.available))
  <2>1. PICK power \in BorrowingPowers :
          \E received : Borrow(o, debtOf(power), received,
                               BorrowFees(reserve, debtOf(power), FALSE, o))
    BY <1>2 DEF BorrowMaxObligationLiquidity
  <2>2. debtOf(power) \in Nat
    <3>1. /\ power \in Nat
          /\ reserve.available \in Nat /\ reserve.borrowed \in Nat
          /\ reserve.config.borrowLimit \in Nat
      BY ReserveAssumption DEF TypeOK, Reserves, ReserveConfigs
    <3>2. FromNum(reserve.available) \in Nat /\ FromNum(reserve.config.borrowLimit) \in Nat
      BY <3>1, FromNumType
    <3>3. RemainingCapacity(reserve) \in Nat BY <3>1, <3>2 DEF RemainingCapacity, Larger
    <3> QED BY <3>1, <3>2, <3>3 DEF Smaller
  <2> HIDE DEF debtOf
  <2>3. BorrowFees(reserve, debtOf(power), FALSE, o).referrer \in Nat
    BY <2>2, BorrowFeesType
  <2> QED BY <2>1, <2>3, BorrowCovers
<1> QED BY <1>1, <1>2

LEMMA FlashRepayCovers ==
  ASSUME TypeOK, TypeOK', ReferrersCovered, NEW referrer \in Referrers \cup {NoReferrer},
         FlashRepayReserveLiquidity(referrer)
  PROVE  ReferrersCovered'
<1> DEFINE rate == reserve.config.flashLoanFee
           fees == Fees(FromNum(flashLoan), rate, TRUE, referralRate, referrer # NoReferrer)
           paidBack == LiquidityRepaid(reserve, flashLoan, FromNum(flashLoan))
           timed == LimitTimestampsRefreshed(paidBack, clock.timestamp)
           repaid == MarkStale(timed)
           credited == referrer # NoReferrer /\ referralRate > 0
           fee == FromNum(fees.referrer)
<1>1. /\ reserve' = IF credited THEN ReferrerPaid(repaid, fees.referrer) ELSE repaid
      /\ unclaimed' = IF credited THEN ReferrerCredited(referrer, fee) ELSE unclaimed
  BY DEF FlashRepayReserveLiquidity, Commit
<1>2. fees.referrer \in Nat
  <2>1. /\ FromNum(flashLoan) \in Nat
        /\ referralRate \in 0..One /\ referralRate \in Nat
        /\ rate \in Nat \cup {FlashLoansDisabled}
    BY OneAssumption, FromNumType DEF TypeOK, Reserves, ReserveConfigs
  <2>2. rate \in Nat BY <2>1 DEF FlashRepayReserveLiquidity
  <2>3. (referrer # NoReferrer) \in BOOLEAN /\ TRUE \in BOOLEAN OBVIOUS
  <2> HIDE DEF rate
  <2> QED BY <2>1, <2>2, <2>3, FeesFacts
<1> HIDE DEF fees
<1>3. SameFees(reserve, paidBack) BY ReserveOwing, MethodsKeepFees
<1> HIDE DEF paidBack
<1>4. SameFees(reserve, timed) BY <1>3, MethodsKeepFees, FeesTransitive DEF SameFees
<1> HIDE DEF timed
<1>5. SameFees(reserve, repaid) BY <1>4, MarkedKeepsFees
<1> HIDE DEF repaid
<1>6. CASE credited
  <2>1. FeesMoved(referrer, fee)
    BY <1>1, <1>5, <1>6 DEF FeesMoved, ReferrerPaid, ReferrerFeeAdded, SameFees, Owing
  <2>2. fee \in Int BY <1>2, FromNumType
  <2>3. referrer \in Referrers BY <1>6
  <2> QED BY <2>1, <2>2, <2>3, MovedStays
<1>7. CASE ~credited
  BY <1>1, <1>5, <1>7, IdleStays DEF FeesIdle
<1> QED BY <1>6, <1>7

LEMMA WithdrawalCovers ==
  ASSUME TypeOK, TypeOK', ReferrersCovered, NEW referrer \in Referrers,
         WithdrawReferrerFees(referrer)
  PROVE  ReferrersCovered'
<1> DEFINE claim  == Smaller(unclaimed[referrer], reserve.referrerFees)
           amount == Smaller(ToFloor(claim), reserve.available)
           paid == FromNum(amount)
           s == [reserve EXCEPT !.available = @ - amount, !.referrerFees = @ - paid]
<1>1. /\ reserve.available \in Nat /\ reserve.referrerFees \in Nat /\ Owing(reserve)
      /\ unclaimed \in [Referrers -> Nat] /\ referrer # NoReferrer
  BY ReserveOwing, ReserveAssumption DEF TypeOK, Reserves
<1>2. /\ reserve' = MarkStale(s)
      /\ unclaimed' = [unclaimed EXCEPT ![referrer] = @ - paid]
  BY DEF WithdrawReferrerFees, Commit
<1>3. paid \in Int
  <2>1. claim \in Nat BY <1>1 DEF Smaller
  <2> HIDE DEF claim
  <2>2. ToFloor(claim) \in Nat BY <2>1, FloorCeil
  <2>3. amount \in Nat BY <1>1, <2>2 DEF Smaller
  <2> HIDE DEF amount
  <2> QED BY <2>3, FromNumType
<1> HIDE DEF paid
<1>4. reserve'.referrerFees = reserve.referrerFees - paid
  BY <1>1, <1>2 DEF MarkStale, Owing
<1>5. FeesMoved(referrer, -paid)
  BY <1>1, <1>2, <1>3, <1>4 DEF FeesMoved, ReferrerCredited
<1>6. -paid \in Int BY <1>3
<1> QED BY <1>5, <1>6, MovedStays

LEMMA CoveredInit == Init => ReferrersCovered
<1> SUFFICES ASSUME Init PROVE ReferrersCovered OBVIOUS
<1>1. /\ reserve.referrerFees = 0
      /\ unclaimed = [r \in Referrers |-> 0]
      /\ IsFiniteSet(Referrers)
  BY ReserveAssumption DEF Init, NewReserve
<1>2. \A x \in Referrers : unclaimed[x] = 0 BY <1>1
<1>3. SumFunctionOnSet(unclaimed, Referrers) = 0 BY <1>1, <1>2, SumZero
<1> QED BY <1>1, <1>3, CoveredIsSum

LEMMA CoveredNext == IInv /\ IInv' /\ ReferrersCovered /\ [Next]_vars => ReferrersCovered'
<1> SUFFICES ASSUME IInv, TypeOK, TypeOK', ReferrersCovered, [Next]_vars
             PROVE  ReferrersCovered'
  BY DEF IInv
<1>1. CASE RefreshReserve \/ AdminNext \/ Tick \/ UNCHANGED vars
  BY <1>1, OthersIdle, IdleStays
<1>2. CASE SupplierNext BY <1>2, SupplierIdle, IdleStays
<1>3. CASE ObligationNext
  <2>1. PICK o \in Obligations :
          \/ RefreshObligation(o)
          \/ UseObligationElsewhere(o)
          \/ DepositObligationCollateral(o)
          \/ WithdrawObligationCollateral(o)
          \/ BorrowMaxObligationLiquidity(o)
          \/ LiquidateDebt(o)
          \/ \E amount \in Amounts :
               \/ BorrowObligationLiquidity(o, amount)
               \/ RepayObligationLiquidity(o, amount)
               \/ LiquidateCollateral(o, amount)
               \/ LiquidateWithinReserve(o, amount)
               \/ SocializeLoss(o, amount)
    BY <1>3 DEF ObligationNext
  <2>2. CASE RefreshIndebtedObligation(o) BY <2>2, IndebtedRefreshCovers
  <2>3. CASE \/ BorrowMaxObligationLiquidity(o)
             \/ \E amount \in Amounts : BorrowObligationLiquidity(o, amount)
    BY <2>3, BorrowsCover
  <2>4. CASE ~\/ RefreshIndebtedObligation(o)
              \/ BorrowMaxObligationLiquidity(o)
              \/ \E amount \in Amounts : BorrowObligationLiquidity(o, amount)
    BY <2>1, <2>4, PositionsIdle, IdleStays DEF RefreshObligation
  <2> QED BY <2>2, <2>3, <2>4
<1>4. CASE FeeNext
  BY <1>4, OthersIdle, IdleStays, WithdrawalCovers DEF FeeNext
<1>5. CASE FlashLoanNext
  BY <1>5, OthersIdle, IdleStays, FlashRepayCovers DEF FlashLoanNext
<1> QED BY <1>1, <1>2, <1>3, <1>4, <1>5 DEF Next

\* What the reserve holds for referrers (accumulated_referrer_fees_sf) is exactly what
\* they may claim together, for any number of referrers and obligations: the fees of
\* borrows, flash loans and interest are written to both sides by different functions.
THEOREM ReferrersAreCovered == Spec => []ReferrersCovered
<1>1. Spec => []IInv BY Invariance
<1> QED BY <1>1, CoveredInit, CoveredNext, PTL DEF Spec
=============================================================================
