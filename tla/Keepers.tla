-------------------------------- MODULE Keepers --------------------------------
(***************************************************************************)
(* Lending with liquidators who keep at it.                                *)
(*                                                                         *)
(* A liquidation is a transaction that refreshes the reserves and the      *)
(* obligation and then liquidates, in one slot (the layout that            *)
(* utils/refresh_ix_utils.rs demands).  Liquidating pays a bonus, so it is *)
(* fair to assume that it is done where it can be.  Of time it is assumed  *)
(* that it passes, of the oracles that they still report the price they    *)
(* reported last, of owners and of the risk council nothing.               *)
(***************************************************************************)
EXTENDS Lending

\* The obligation's reserves with the price they have, which their oracle confirms; one
\* that never had a price or is deprecated is not refreshed with one.
Confirmable ==
  {r \in Deposits(obligation) \cup Borrows(obligation) :
     reserves[r].usable /\ reserves[r].price > 0}

Confirmed(level) ==
  [r \in Reserves |-> IF r \in Confirmable
                      THEN [reserves[r] EXCEPT !.level = level, !.fresh = TRUE]
                      ELSE reserves[r]]

Current(level) == Refreshed(Accrued(obligation, owed), Confirmed(level))

LiquidatorTransaction(level, ages, debt, coll, n) ==
  /\ \A r \in Confirmable : ages[r] \in ReportAges[r] /\ AgePasses(r, ages[r])
  /\ pricesSeen' = Prices
  /\ priceAge' = [r \in Reserves |-> IF r \in Confirmable THEN ages[r] ELSE priceAge[r]]
  /\ owed' = 0
  /\ \E o \in {Current(level)}, rs \in {Confirmed(level)} :
       /\ PositionsUsable(o, rs) /\ rs[debt].usable /\ rs[coll].usable
       /\ CanLiquidate(o, rs, debt, coll, n)
       /\ obligation' = Liquidated(o, rs, debt, coll, n)
       /\ reserves' = [r \in Reserves |-> [rs[r] EXCEPT !.fresh = @ /\ r \notin {debt, coll}]]

KeeperNext ==
  \E debt \in Borrows(obligation), coll \in Deposits(obligation) :
    \E level \in ReportLevels \ {NoChecks}, n \in LiquidationAmounts :
      \E ages \in [Reserves -> UNION {ReportAges[r] : r \in Reserves}] :
        LiquidatorTransaction(level, ages, debt, coll, n)

FairNext == Next \/ KeeperNext

FairSpec ==
  /\ Init /\ [][FairNext]_vars
  /\ WF_vars(\E secs \in Lengths, interest \in Interests : NewSlot(secs, interest))
  /\ WF_vars(KeeperNext)

-------------------------------------------------------------------------------
\* A step that leaves the prices and the council's target alone and adds no risk.
IsQuiet ==
  /\ Prices' = Prices /\ obligation'.target = obligation.target
  /\ \A r \in Reserves : obligation'.debts[r] <= obligation.debts[r]
  /\ \/ obligation'.deposits = obligation.deposits
     \/ obligation'.debts # obligation.debts

IsPriced == \A r \in Deposits(obligation) \cup Borrows(obligation) : reserves[r].price > 0

\* The collateral is gone, or no one may liquidate what is left.
IsResolved ==
  \A h \in {HealthOf(obligation, reserves)} : h.deposited = 0 \/ h.debt = 0 \/ ~IsUnhealthy(h)

IsAtTarget ==
  \A h \in {HealthOf(obligation, reserves)} :
    h.deposited = 0 \/ LoanToValueOf(h) <= FromPercent(obligation.target)

\* Once prices and the risk stay as they are, an unhealthy obligation is liquidated,
\* by as many liquidations as the close factor takes, until it is healthy or all its
\* collateral is gone: partial liquidations with their bonus do not go on forever, and
\* none leaves a rest that is unhealthy and that nobody can liquidate.
LiquidationResolves == <>[][IsQuiet]_vars => []<>(IsPriced => IsResolved)

\* Once prices and the risk stay as they are, an obligation that stays marked for
\* deleveraging comes down to the loan to value the risk council asked for, or has no
\* collateral left (mark_obligation_for_deleveraging and the margin call period of
\* check_individual_autodeleverage_obligation).
CallIsMet == <>[][IsQuiet]_vars => []<>(IsPriced /\ IsMarked(obligation) => IsAtTarget)
===============================================================================
