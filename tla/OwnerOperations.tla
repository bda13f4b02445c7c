---------------------------- MODULE OwnerOperations ----------------------------
(***************************************************************************)
(* What the owner of an obligation may do with it: deposit and withdraw    *)
(* collateral, borrow and repay, the two instructions that combine them,   *)
(* and the request for an elevation group (lending_operations.rs).         *)
(***************************************************************************)
EXTENDS ObligationOrders

-------------------------------------------------------------------------------
(* deposit_obligation_collateral                                              *)

DepositMade(o, r, n) == MarkedStale([o EXCEPT !.deposits[r] = @ + n])

PostDeposit(o, rs, r, n) ==
  LET value == ValueOf(FromNum(n), rs, r)
      deposited == o.health.deposited + value
  IN /\ deposited # 0
     /\ NotDusty(o.health.values[r] + value)
     /\ o.health.deposited # 0 => Ltv(o.health.debt, deposited) <= LoanToValueOf(o.health)

CanDeposit(o, rs, r, n) ==
  /\ n # 0
  /\ IsFresh(rs[r], NoChecks) /\ IsFresh(o, NoChecks)
  /\ ~(r \in GroupOnly /\ ~InGroup(o) /\ o.health.debt > 0)
  /\ FitsGroup(o, r)
  /\ InGroup(o) => r # GroupDebt[o.group]
  /\ ThresholdOf(o, r) = 0 => ~IsMarked(o)
  /\ OrdersSupportedBy(DepositMade(o, r, n)) /\ TiersAllowed(DepositMade(o, r, n))
  /\ PostDeposit(o, rs, r, n)

-------------------------------------------------------------------------------
(* borrow_obligation_liquidity                                                *)

\* calculate_borrow without fees: what the owner asks for or, for MaxU64, what the
\* obligation allows and the room the reserve has (its limit and its liquidity).
BorrowAmount(o, rs, r, n, room) ==
  IF n = MaxU64
  THEN Smaller(room, FDiv(FDiv(o.health.allowed - o.health.debt, rs[r].price),
                          FromPercent(FactorOf(o, r))))
  ELSE FromNum(n)

\* post_borrow_obligation_invariants
PostBorrow(o, rs, r, amount) ==
  LET value == ValueOf(amount, rs, r)
  IN /\ NotDusty(o.health.debtValues[r] + value)
     /\ Ltv(o.health.debt + Weighted(o, r, value), o.health.deposited)
          <= UnhealthyLtv(o.health)
     /\ o.health.borrowed + value < o.health.deposited

\* Mutant: borrowing forgets to mark the obligation stale.
Borrowed_LeftFresh(o, r, amount) == [o EXCEPT !.debts[r] = @ + amount, !.hasDebt = TRUE]

Borrowed(o, r, amount) ==
  MarkedStale([o EXCEPT !.debts[r] = @ + amount, !.hasDebt = TRUE])

CanBorrow(o, rs, r, n, room) ==
  LET amount == BorrowAmount(o, rs, r, n, room)
  IN /\ n # 0
     /\ IsFresh(rs[r], AllChecks)
     /\ ~IsMarked(o)
     /\ ~o.health.obsolete
     /\ IsFresh(o, AllChecks)
     /\ Deposits(o) # {} /\ o.health.deposited # 0
     /\ o.health.allowed > o.health.debt
     /\ FitsGroup(o, r) /\ (InGroup(o) => r = GroupDebt[o.group])
     /\ ~o.health.disabled
     /\ room > 0 /\ amount <= room /\ ToFloor(amount) > 0
     /\ n # MaxU64 =>
          Weighted(o, r, ValueOf(amount, rs, r)) <= o.health.allowed - o.health.debt
     /\ OrdersSupportedBy(Borrowed(o, r, amount)) /\ TiersAllowed(Borrowed(o, r, amount))
     /\ PostBorrow(o, rs, r, amount)

-------------------------------------------------------------------------------
(* withdraw_obligation_collateral, with either LtvMaxWithdrawalCheck          *)

Checks == {"maxLtv", "liquidationThreshold"}

\* max_withdraw_value
MaxWithdrawValue(o, r, check) ==
  LET strict == check = "liquidationThreshold"
      highest == IF strict THEN Larger(o.health.unhealthy - 1, 0) ELSE o.health.allowed
      pct == IF strict THEN ThresholdOf(o, r) ELSE LtvOf(o, r)
  IN IF highest <= o.health.debt THEN 0
     ELSE IF pct = 0 THEN o.health.values[r]
     ELSE ((highest - o.health.debt) * 100) \div pct

WithdrawAmount(o, r, n, check) ==
  IF n = MaxU64 /\ Borrows(o) # {}
  THEN LET value == Smaller(MaxWithdrawValue(o, r, check), o.health.values[r])
       IN Smaller(o.deposits[r], ToFloor(FDiv(value, o.health.values[r]) * o.deposits[r]))
  ELSE Smaller(n, o.deposits[r])

\* With debts, an amount asked for is within what may be withdrawn.
MayWithdraw(o, r, n, check) ==
  LET most == MaxWithdrawValue(o, r, check)
      ratio == MulDivCeil(FromNum(Smaller(n, o.deposits[r])), One, FromNum(o.deposits[r]))
      value == FMul(o.health.values[r], ratio)
  IN /\ o.health.deposited # 0
     /\ most # 0
     /\ IF n = MaxU64 THEN o.health.values[r] # 0
        ELSE IF check = "liquidationThreshold" THEN value < most ELSE value <= most

\* post_withdraw_obligation_invariants
PostWithdraw(o, rs, r, n) ==
  LET value == ValueOf(FromNum(n), rs, r)
      left == o.health.deposited - value
      backed == FMul(value, FromPercent(ThresholdOf(o, r)))
  IN /\ left >= 0
     /\ n < o.deposits[r] /\ o.health.values[r] # 0 =>
          value <= o.health.values[r] /\ NotDusty(o.health.values[r] - value)
     /\ IF left = 0 THEN o.health.debt = 0
        ELSE /\ o.health.borrowed < left
             /\ backed <= o.health.unhealthy
             /\ \/ Ltv(o.health.debt, left) = 0
                \/ Ltv(o.health.debt, left) < Ltv(o.health.unhealthy - backed, left)

CanWithdraw(o, rs, r, n, check) ==
  LET level == IF Borrows(o) = {} THEN NoChecks ELSE AllChecks
      amount == WithdrawAmount(o, r, n, check)
  IN /\ n # 0
     /\ IsFresh(rs[r], level) /\ IsFresh(o, level)
     /\ r \in Deposits(o)
     /\ o.health.obsolete => r \in Obsolete
     /\ Borrows(o) # {} => MayWithdraw(o, r, n, check)
     /\ amount # 0
     /\ PostWithdraw(o, rs, r, amount)

\* The account of an obligation without positions is closed.
Closed(o) == IF Deposits(o) = {} /\ Borrows(o) = {} THEN NewObligation ELSE o

Withdrawn(o, r, n) == Closed(MarkedStale([o EXCEPT !.deposits[r] = @ - n]))

-------------------------------------------------------------------------------
(* repay_obligation_liquidity                                                 *)

SettleAmount(o, r, n) == IF n = MaxU64 THEN o.debts[r] ELSE Smaller(FromNum(n), o.debts[r])

WithHasDebt(o) == [o EXCEPT !.hasDebt = Borrows(o) # {}]

\* Mutant: the values of before the repayment stay valid.
Repaid_LeftFresh(o, r, settle) == WithHasDebt([o EXCEPT !.debts[r] = @ - settle])

Repaid(o, r, settle) == MarkedStale(WithHasDebt([o EXCEPT !.debts[r] = @ - settle]))

\* post_repay_obligation_invariants
PostRepay(o, rs, r, settle) ==
  LET value == ValueOf(settle, rs, r)
      left == o.health.debt - Weighted(o, r, value)
  IN /\ left >= 0
     /\ settle < o.debts[r] /\ o.health.debtValues[r] # 0 =>
          value <= o.health.debtValues[r] /\ NotDusty(o.health.debtValues[r] - value)
     /\ o.health.deposited > 0 => Ltv(left, o.health.deposited) <= LoanToValueOf(o.health)

CanRepay(o, rs, r, n) ==
  LET settle == SettleAmount(o, r, n)
  IN /\ n # 0
     /\ IsFresh(rs[r], NoChecks) /\ IsFresh(o, NoChecks)
     /\ r \in Borrows(o)
     /\ OrdersSupportedBy(Repaid(o, r, settle))
     /\ PostRepay(o, rs, r, settle)

-------------------------------------------------------------------------------
(* The handlers that combine two operations.  Both compare the loan to value  *)
(* they leave with the one before, and both give the reserves they refresh    *)
(* themselves, without a price: they stay at the one they had.                *)

\* post_repay_and_withdraw_obligation_enforcements and its twin of deposits
Enforced(o, w, initialLtv) ==
  LET h == o.health
  IN /\ h.debt > 0 => h.lowestLtv # 0 /\ h.lowestLtv >= LoanToValue[w]
     /\ IF h.deposited = 0 THEN h.debt = 0
        ELSE LoanToValueOf(h) <= initialLtv /\ LoanToValueOf(h) < UnhealthyLtv(h)

WithFresh(rs, r, fresh) == [rs EXCEPT ![r].fresh = fresh]

\* The withdrawal from o and the refresh after it, unless the account is closed.
CanWithdrawWithin(o, rs, w, m, initialLtv) ==
  LET amount == WithdrawAmount(o, w, m, "liquidationThreshold")
      left == Withdrawn(o, w, amount)
  IN /\ CanWithdraw(o, rs, w, m, "liquidationThreshold")
     /\ left # NewObligation =>
          /\ PositionsUsable(left, rs)
          /\ Enforced(Refreshed(left, rs), w, initialLtv)

WithdrawnWithin(o, rs, w, m) ==
  LET left == Withdrawn(o, w, WithdrawAmount(o, w, m, "liquidationThreshold"))
  IN IF left = NewObligation THEN left ELSE MarkedStale(Refreshed(left, rs))

\* repay_and_withdraw_and_redeem.  The repaid reserve is not refreshed when its debt
\* is gone, unless it is the one withdrawn from.
RepayReserves(o, rs, r, n, w) ==
  WithFresh(rs, r, SettleAmount(o, r, n) < o.debts[r] \/ r = w)

CanRepayAndWithdraw(o, rs, r, n, w, m) ==
  LET repaid == Repaid(o, r, SettleAmount(o, r, n))
      after == RepayReserves(o, rs, r, n, w)
  IN /\ CanRepay(o, rs, r, n)
     /\ o.health.deposited # 0
     /\ PositionsUsable(repaid, after)
     /\ CanWithdrawWithin(Refreshed(repaid, after), after, w, m, LoanToValueOf(o.health))

RepaidAndWithdrawn(o, rs, r, n, w, m) ==
  LET repaid == Repaid(o, r, SettleAmount(o, r, n))
      after == RepayReserves(o, rs, r, n, w)
  IN WithdrawnWithin(Refreshed(repaid, after), after, w, m)

\* deposit_and_withdraw
CanDepositAndWithdraw(o, rs, r, n, w, m) ==
  LET deposited == DepositMade(o, r, n)
  IN /\ CanDeposit(o, rs, r, n)
     /\ o.health.deposited # 0
     /\ PositionsUsable(deposited, rs)
     /\ CanWithdrawWithin(Refreshed(deposited, rs), rs, w, m, LoanToValueOf(o.health))

DepositedAndWithdrawn(o, rs, r, n, w, m) ==
  WithdrawnWithin(Refreshed(DepositMade(o, r, n), rs), rs, w, m)

-------------------------------------------------------------------------------
(* request_elevation_group                                                    *)

\* Mutant: the obligation keeps its values.
GroupChanged_LeftFresh(o, g) == [o EXCEPT !.group = g, !.hasDebt = @ \/ Borrows(o) # {}]

GroupChanged(o, g) ==
  MarkedStale([o EXCEPT !.group = g, !.hasDebt = @ \/ Borrows(o) # {}])

\* Mutant: the debt and the limit are those from before the change of the group.
CanRequestGroup_CheckedBefore(o, rs, g) ==
  /\ IsFresh(o, AllChecks) /\ Deposits(o) # {} /\ o.health.deposited # 0 /\ o.group # g
  /\ PositionsUsable(o, rs)
  /\ g # NoGroup => /\ Deposits(o) \subseteq GroupMembers[g] \ {GroupDebt[g]}
                    /\ Borrows(o) \subseteq {GroupDebt[g]}
  /\ o.health.debt <= o.health.allowed

CanRequestGroup(o, rs, g) ==
  LET moved == [o EXCEPT !.group = g]
      h == HealthOf(moved, rs)
      allowed == BackedBy(moved, rs, [r \in Reserves |-> LtvOf(moved, r)])
  IN /\ IsFresh(o, AllChecks)
     /\ Deposits(o) # {} /\ o.health.deposited # 0
     /\ o.group # g
     /\ PositionsUsable(o, rs)
     /\ InGroup(moved) => /\ Deposits(o) \subseteq GroupMembers[g] \ {GroupDebt[g]}
                          /\ Borrows(o) \subseteq {GroupDebt[g]}
     /\ h.debt <= allowed
     /\ IsMarked(o) => /\ h.deposited # 0
                       /\ LoanToValueOf(h) <= LoanToValueOf(o.health)
===============================================================================
