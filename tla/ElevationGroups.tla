--------------------------- MODULE ElevationGroups ---------------------------
(***************************************************************************)
(* Elevation groups.  An obligation in a group borrows from the group's    *)
(* one debt reserve, on better terms, against collateral of the group's    *)
(* reserves.  Every reserve limits what is borrowed against it in each     *)
(* group, and what is borrowed from it outside of groups.  It cannot sum   *)
(* that up: it keeps debt trackers, and each position of an obligation     *)
(* keeps what it contributed, so that a refresh can replace it.            *)
(*                                                                         *)
(* The state is what lending_operations.rs reads and writes of it: an      *)
(* obligation is a record of its group, its last_update, its positions and *)
(* their trackers; a reserve is a record of its two kinds of trackers.     *)
(* Reserves are taken as refreshed in the slot, which anyone can do.  Of   *)
(* the interest of a debt only its bounds matter, of the health of an      *)
(* obligation that it makes handlers fail.                                 *)
(***************************************************************************)
EXTENDS FixedPoint, FiniteSets, Functions

CONSTANTS
  Obligations, Reserves,
  Groups, NoGroup,      \* ids of groups; ELEVATION_GROUP_NONE
  DebtReserve,          \* of each group
  MembersOf,            \* of each group, the reserves whose config names it
  MaxCollateral,        \* of each group: max_reserves_as_collateral
  GroupOnly,            \* reserves with disable_usage_as_coll_outside_emode
  LimitOutside,         \* of each reserve: borrow_limit_outside_elevation_group
  LimitAgainst,         \* of each reserve and group: the limit against it
  MaxDeposits,          \* positions of an obligation, 8 in the program
  MaxBorrows,           \* 5 in the program
  Dust,                 \* debts up to this may have a market value of 0
  Shares,               \* amounts of cTokens
  Tokens,               \* amounts of tokens
  Sums,                 \* amounts of tokens, fractions
  Interests,            \* what a debt may grow in some slots, fractions
  MaxShares, MaxDebt    \* bounds of a position

ASSUME ElevationGroupsAssumption ==
  /\ IsFiniteSet(Obligations) /\ IsFiniteSet(Reserves) /\ NoGroup \notin Groups
  /\ DebtReserve \in [Groups -> Reserves]
  /\ MembersOf \in [Groups -> SUBSET Reserves]
  /\ MaxCollateral \in [Groups -> Nat]
  /\ GroupOnly \subseteq Reserves
  /\ LimitOutside \in [Reserves -> Nat]
  /\ LimitAgainst \in [Reserves -> [Groups -> Nat]]
  /\ MaxDeposits \in Nat /\ MaxBorrows \in Nat /\ Dust \in Nat
  /\ Shares \subseteq Nat \ {0}
  /\ Tokens \subseteq Nat \ {0}
  /\ Sums \subseteq Nat \ {0}
  /\ Interests \subseteq Nat
  /\ MaxShares \in Nat /\ MaxDebt \in Nat

VARIABLES
  obligations,
  reserves

vars == <<obligations, reserves>>

\* deposits and debts are 0 where the obligation has no position; onShares is the
\* tracker of a deposit, onDebt that of a borrow.  updated: last_update is of this
\* slot and not stale, of this slot and stale, or of an earlier slot; disabled:
\* borrowing_disabled.
ObligationRecords ==
  [group : Groups \cup {NoGroup}, updated : {"fresh", "stale", "earlier"},
   disabled : BOOLEAN,
   deposits : [Reserves -> Nat], onShares : [Reserves -> Nat],
   debts : [Reserves -> Nat], onDebt : [Reserves -> Nat]]

\* borrowed_amount_outside_elevation_group,
\* borrowed_amounts_against_this_reserve_in_elevation_groups
ReserveRecords == [outside : Nat, against : [Groups -> Nat]]

TypeOK ==
  /\ obligations \in [Obligations -> ObligationRecords]
  /\ reserves \in [Reserves -> ReserveRecords]

Zeros == [r \in Reserves |-> 0]

\* init_obligation; also an obligation that was closed and may be initialised again.
NewObligation ==
  [group |-> NoGroup, updated |-> "stale", disabled |-> FALSE,
   deposits |-> Zeros, onShares |-> Zeros, debts |-> Zeros, onDebt |-> Zeros]

Init ==
  /\ obligations = [o \in Obligations |-> NewObligation]
  /\ reserves = [r \in Reserves |-> [outside |-> 0, against |-> [g \in Groups |-> 0]]]

-------------------------------------------------------------------------------
(* What an instruction sees: one obligation and the reserves.  The operators  *)
(* below take such a pair, [o, rs], and give the one that the code leaves.    *)

Deposits(o) == {r \in Reserves : o.deposits[r] > 0}
Borrows(o) == {r \in Reserves : o.debts[r] > 0}

IsFresh(o) == o.updated = "fresh"
MarkedStale(s) == [s EXCEPT !.o.updated = "stale"]

InGroup(o) == o.group # NoGroup

SaturatingSub(a, b) == IF a > b THEN a - b ELSE 0

\* The trackers of some reserves, less or more an amount of each.
AgainstLess(rs, members, g, less) ==
  [r \in Reserves |->
    IF r \in members THEN [rs[r] EXCEPT !.against[g] = SaturatingSub(@, less[r])] ELSE rs[r]]

AgainstMore(rs, members, g, more) ==
  [r \in Reserves |->
    IF r \in members THEN [rs[r] EXCEPT !.against[g] = @ + more] ELSE rs[r]]

\* The trackers of the borrowed reserves, with what a position counts replaced.
OutsideReplaced(rs, members, old, new) ==
  [r \in Reserves |->
    IF r \in members
    THEN [rs[r] EXCEPT !.outside = SaturatingSub(@, old[r]) + new[r]]
    ELSE rs[r]]

\* An obligation's trackers of some positions, set.
Set(trackers, members, values) ==
  [r \in Reserves |-> IF r \in members THEN values[r] ELSE trackers[r]]

Ceils(debts) == [r \in Reserves |-> ToCeil(debts[r])]

-------------------------------------------------------------------------------
(* Refreshing. *)

\* What refresh_obligation_borrows demands in a group: only its debt reserve.
BorrowsFit(o, g) ==
  g # NoGroup => \A r \in Borrows(o) : r \in MembersOf[g] /\ r = DebtReserve[g]

\* What refresh_obligation_deposits demands in a group.
DepositsFit(o, g) ==
  g # NoGroup => \A r \in Deposits(o) : r \in MembersOf[g] /\ r # DebtReserve[g]

\* MaxReservesAsCollateralCheck::Perform
CollateralCounted(o, g) ==
  g # NoGroup => Cardinality(Deposits(o)) <= MaxCollateral[g]

\* Mutant: a refresh outside of groups leaves the trackers as they are.
BorrowsRefreshed_NotTracked(s, g) == s

\* refresh_obligation_borrows of an obligation whose debts have grown.
BorrowsRefreshed(s, g) ==
  IF g # NoGroup THEN s
  ELSE LET borrows == Borrows(s.o)
           ceils == Ceils(s.o.debts)
       IN  [o |-> [s.o EXCEPT !.onDebt = Set(@, borrows, ceils)],
            rs |-> OutsideReplaced(s.rs, borrows, s.o.onDebt, ceils)]

\* What is borrowed in a group: of its debt reserve, as nothing else can be.
BorrowedInGroup(o, g) == ToCeil(o.debts[DebtReserve[g]])

\* refresh_obligation_deposits
DepositsRefreshed(s, g) ==
  LET deposits == Deposits(s.o)
      disabled == g = NoGroup /\ deposits \cap GroupOnly # {}
  IN  IF g = NoGroup THEN [s EXCEPT !.o.disabled = disabled]
      ELSE LET borrowed == BorrowedInGroup(s.o, g) IN
           [o |-> [s.o EXCEPT !.disabled = disabled,
                              !.onShares = Set(@, deposits, [r \in Reserves |-> borrowed])],
            rs |-> AgainstMore(AgainstLess(s.rs, deposits, g, s.o.onShares),
                               deposits, g, borrowed)]

\* Accrued debts, of an obligation not yet refreshed in the slot: the index of a
\* reserve moves once per slot.
Accrued(o) ==
  IF o.updated # "earlier" THEN {o.debts}
  ELSE {[r \in Reserves |-> IF r \in Borrows(o) THEN o.debts[r] + interest[r] ELSE 0] :
          interest \in [Borrows(o) -> Interests]}

\* The conditions on which refresh_obligation does not fail.
RefreshAllowed(o) == BorrowsFit(o, o.group) /\ DepositsFit(o, o.group)

\* refresh_obligation
Refreshed(s, debts) ==
  LET accrued == [s EXCEPT !.o.debts = debts]
      g == s.o.group
  IN  [DepositsRefreshed(BorrowsRefreshed(accrued, g), g)
         EXCEPT !.o.updated = "fresh"]

-------------------------------------------------------------------------------
(* Changes of positions. *)

\* update_elevation_group_debt_trackers_on_borrow, when it does not fail
TrackersOnBorrow(s, r, amount) ==
  LET g == s.o.group
      deposits == Deposits(s.o)
  IN  IF InGroup(s.o)
      THEN [o |-> [s.o EXCEPT !.onShares =
                     [d \in Reserves |-> IF d \in deposits THEN @[d] + amount ELSE @[d]]],
            rs |-> AgainstMore(s.rs, deposits, g, amount)]
      ELSE [o |-> [s.o EXCEPT !.onDebt[r] = @ + amount],
            rs |-> [s.rs EXCEPT ![r].outside = @ + amount]]

LimitsAllowBorrow(s, r, amount) ==
  LET g == s.o.group IN
  IF InGroup(s.o)
  THEN /\ r = DebtReserve[g]
       /\ \A d \in Deposits(s.o) : s.rs[d].against[g] + amount <= LimitAgainst[d][g]
  ELSE s.rs[r].outside + amount <= LimitOutside[r]

\* update_elevation_group_debt_trackers_on_repay
TrackersOnRepay(s, r, amount) ==
  LET g == s.o.group
      deposits == Deposits(s.o)
  IN  IF InGroup(s.o)
      THEN [o |-> [s.o EXCEPT !.onShares =
                     [d \in Reserves |->
                       IF d \in deposits THEN SaturatingSub(@[d], amount) ELSE @[d]]],
            rs |-> AgainstLess(s.rs, deposits, g, [d \in Reserves |-> amount])]
      ELSE [o |-> [s.o EXCEPT !.onDebt[r] = SaturatingSub(@, amount)],
            rs |-> [s.rs EXCEPT ![r].outside = SaturatingSub(@, amount)]]

\* Obligation::repay; a position without debt is reset.
DebtReduced(s, r, settled) ==
  [s EXCEPT !.o.debts[r] = @ - settled,
            !.o.onDebt[r] = IF settled = s.o.debts[r] THEN 0 ELSE @]

\* What repayments, liquidations and socializations do to a debt.
Settled(s, r, settled) ==
  DebtReduced(TrackersOnRepay(s, r, ToCeil(settled)), r, settled)

\* Mutant: a full withdrawal leaves the reserve's tracker as it is.
Withdrawn_KeepsTracker(s, r, amount) ==
  LET less == [s EXCEPT !.o.deposits[r] = @ - amount] IN
  IF amount < s.o.deposits[r] THEN less ELSE [less EXCEPT !.o.onShares[r] = 0]

\* Obligation::withdraw, and for a full withdrawal the reset of the position and
\* update_elevation_group_debt_trackers_on_full_withdraw.
Withdrawn(s, r, amount) ==
  LET g == s.o.group
      tracked == s.o.onShares[r]
      less == [s EXCEPT !.o.deposits[r] = @ - amount]
  IN  IF amount < s.o.deposits[r] THEN less
      ELSE LET reset == [less EXCEPT !.o.onShares[r] = 0] IN
           IF InGroup(s.o)
           THEN [reset EXCEPT !.rs[r].against[g] = SaturatingSub(@, tracked)]
           ELSE reset

\* Mutant: the debt reserve of the group may be deposited.
DepositAllowed_DebtReserve(o, r) ==
  /\ IsFresh(o)
  /\ r \in GroupOnly /\ ~InGroup(o) => \A d \in Reserves : o.debts[d] <= Dust
  /\ InGroup(o) => r \in MembersOf[o.group]
  /\ r \notin Deposits(o) => Cardinality(Deposits(o)) < MaxDeposits

\* deposit_obligation_collateral fails unless this holds of the obligation.
DepositAllowed(o, r) ==
  /\ IsFresh(o)
  /\ r \in GroupOnly /\ ~InGroup(o) => \A d \in Reserves : o.debts[d] <= Dust
  /\ InGroup(o) => r \in MembersOf[o.group]
  /\ r \notin Deposits(o) =>
       /\ Cardinality(Deposits(o)) < MaxDeposits
       /\ InGroup(o) => r # DebtReserve[o.group] /\ Cardinality(Borrows(o)) <= 1

\* The check of a new deposit: is there room for it in the group?
RoomForCollateral(o, r) ==
  InGroup(o) /\ r \notin Deposits(o)
    => Cardinality(Deposits(o)) + 1 <= MaxCollateral[o.group]

\* get_borrowed_amount_if_single_token
BorrowedIfSingle(o) ==
  IF Borrows(o) = {} THEN 0 ELSE ToCeil(o.debts[CHOOSE r \in Borrows(o) : TRUE])

\* Mutant: a new deposit does not take on the debt of the group.
Deposited_Untracked(s, r, amount) ==
  [s EXCEPT !.o.deposits[r] = @ + amount, !.o.updated = "stale"]

\* deposit_obligation_collateral
Deposited(s, r, amount) ==
  LET g == s.o.group
      borrowed == BorrowedIfSingle(s.o)
      more == [s EXCEPT !.o.deposits[r] = @ + amount, !.o.updated = "stale"]
  IN  IF InGroup(s.o) /\ r \notin Deposits(s.o)
      THEN [more EXCEPT !.o.onShares[r] = borrowed, !.rs[r].against[g] = @ + borrowed]
      ELSE more

-------------------------------------------------------------------------------
(* Handlers. *)

View(id) == [o |-> obligations[id], rs |-> reserves]

Commit(id, s) ==
  /\ obligations' = [obligations EXCEPT ![id] = s.o]
  /\ reserves' = s.rs

\* refresh_obligation
RefreshObligation(id) ==
  LET s == View(id) IN
  /\ RefreshAllowed(s.o)
  /\ CollateralCounted(s.o, s.o.group)
  /\ \E debts \in Accrued(s.o) :
       /\ \A r \in Reserves : debts[r] <= MaxDebt
       /\ Commit(id, Refreshed(s, debts))

\* deposit_obligation_collateral
DepositCollateral(id, r, amount) ==
  LET s == View(id) IN
  /\ DepositAllowed(s.o, r)
  /\ RoomForCollateral(s.o, r)
  /\ s.o.deposits[r] + amount <= MaxShares
  /\ Commit(id, Deposited(s, r, amount))

\* A withdrawal closes an obligation without positions.
Closes(o) == Deposits(o) = {} /\ Borrows(o) = {}

\* withdraw_obligation_collateral
WithdrawCollateral(id, r, amount) ==
  LET s == View(id)
      after == Withdrawn(s, r, amount)
  IN
  /\ IsFresh(s.o)
  /\ amount <= s.o.deposits[r]
  /\ IF Closes(after.o) THEN Commit(id, [after EXCEPT !.o = NewObligation])
     ELSE Commit(id, MarkedStale(after))

\* deposit_and_withdraw: the number of collateral reserves is only checked at the
\* end, so that one may be exchanged for another.
DepositAndWithdraw(id, r, amount, w, withdrawn) ==
  LET s == View(id)
      deposited == Deposited(s, r, amount)
      refreshed == Refreshed(deposited, deposited.o.debts)
      after == Withdrawn(refreshed, w, withdrawn)
  IN
  /\ DepositAllowed(s.o, r)
  /\ s.o.deposits[r] + amount <= MaxShares
  /\ RefreshAllowed(deposited.o)
  /\ withdrawn <= refreshed.o.deposits[w]
  /\ IF Closes(after.o) THEN Commit(id, [after EXCEPT !.o = NewObligation])
     ELSE /\ RefreshAllowed(after.o)
          /\ CollateralCounted(after.o, after.o.group)
          /\ Commit(id, MarkedStale(Refreshed(after, after.o.debts)))

\* borrow_obligation_liquidity
BorrowLiquidity(id, r, amount) ==
  LET s == View(id)
      borrowed == [s EXCEPT !.o.debts[r] = @ + amount]
  IN
  /\ IsFresh(s.o)
  /\ Deposits(s.o) # {}
  /\ InGroup(s.o) => r \in MembersOf[s.o.group]
  /\ ~InGroup(s.o) => ~s.o.disabled
  /\ r \notin Borrows(s.o) => Cardinality(Borrows(s.o)) < MaxBorrows
  /\ LimitsAllowBorrow(s, r, ToCeil(amount))
  /\ borrowed.o.debts[r] <= MaxDebt
  /\ Commit(id, MarkedStale(TrackersOnBorrow(borrowed, r, ToCeil(amount))))

\* Mutant: the amount is not limited to the debt.
RepayLiquidity_Unlimited(id, r, amount) ==
  LET s == View(id) IN
  /\ IsFresh(s.o)
  /\ r \in Borrows(s.o)
  /\ Commit(id, MarkedStale(Settled(s, r, FromNum(amount))))

\* repay_obligation_liquidity
RepayLiquidity(id, r, amount) ==
  LET s == View(id) IN
  /\ IsFresh(s.o)
  /\ r \in Borrows(s.o)
  /\ Commit(id, MarkedStale(Settled(s, r, Smaller(FromNum(amount), s.o.debts[r]))))

\* liquidate_obligation
Liquidate(id, r, settled, w, withdrawn) ==
  LET s == View(id) IN
  /\ IsFresh(s.o)
  /\ settled <= s.o.debts[r]
  /\ withdrawn <= s.o.deposits[w]
  /\ Commit(id, MarkedStale(Withdrawn(Settled(s, r, settled), w, withdrawn)))

\* socialize_loss
SocializeLoss(id, r, amount) ==
  LET s == View(id) IN
  /\ IsFresh(s.o)
  /\ Deposits(s.o) = {}
  /\ r \in Borrows(s.o)
  /\ Commit(id, MarkedStale(Settled(s, r, Smaller(FromNum(amount), s.o.debts[r]))))

\* reset_elevation_group_debts
TrackersReset(s) ==
  LET deposits == Deposits(s.o)
      borrows == Borrows(s.o)
  IN  IF InGroup(s.o)
      THEN [o |-> [s.o EXCEPT !.onShares = Set(@, deposits, Zeros)],
            rs |-> AgainstLess(s.rs, deposits, s.o.group, s.o.onShares)]
      ELSE [o |-> [s.o EXCEPT !.onDebt = Set(@, borrows, Zeros)],
            rs |-> OutsideReplaced(s.rs, borrows, s.o.onDebt, Zeros)]

\* Mutant: borrowing_disabled is not looked at.
WithinLimits_Disabled(s) ==
  LET g == s.o.group IN
  IF InGroup(s.o)
  THEN \A r \in Deposits(s.o) : s.rs[r].against[g] <= LimitAgainst[r][g]
  ELSE \A r \in Borrows(s.o) : s.rs[r].outside <= LimitOutside[r]

\* check_elevation_group_borrow_limit_constraints
WithinLimits(s) ==
  LET g == s.o.group IN
  IF InGroup(s.o)
  THEN \A r \in Deposits(s.o) : s.rs[r].against[g] <= LimitAgainst[r][g]
  ELSE /\ \A r \in Borrows(s.o) : s.rs[r].outside <= LimitOutside[r]
       /\ Borrows(s.o) # {} => ~s.o.disabled

\* request_elevation_group
RequestElevationGroup(id, g) ==
  LET s == View(id)
      refreshed == DepositsRefreshed(BorrowsRefreshed(TrackersReset(s), g), g)
      after == [refreshed EXCEPT !.o.group = g]
  IN
  /\ IsFresh(s.o)
  /\ Deposits(s.o) # {}
  /\ s.o.group # g
  /\ g # NoGroup => MaxCollateral[g] > 0
  /\ BorrowsFit(s.o, g)
  /\ DepositsFit(s.o, g)
  /\ CollateralCounted(s.o, g)
  /\ WithinLimits(after)
  /\ Commit(id, MarkedStale(after))

\* Time passes: no obligation is of this slot any more.
NextSlot ==
  /\ obligations' = [id \in Obligations |-> [obligations[id] EXCEPT !.updated = "earlier"]]
  /\ UNCHANGED reserves

Next ==
  \/ \E id \in Obligations :
       \/ RefreshObligation(id)
       \/ \E g \in Groups \cup {NoGroup} : RequestElevationGroup(id, g)
       \/ \E r \in Reserves :
            \/ \E amount \in Shares :
                 \/ DepositCollateral(id, r, amount)
                 \/ WithdrawCollateral(id, r, amount)
                 \/ \E w \in Reserves, withdrawn \in Shares :
                      DepositAndWithdraw(id, r, amount, w, withdrawn)
            \/ \E amount \in Tokens : RepayLiquidity(id, r, amount) \/ SocializeLoss(id, r, amount)
            \/ \E amount \in Sums :
                 \/ BorrowLiquidity(id, r, amount)
                 \/ \E w \in Reserves, withdrawn \in Shares :
                      Liquidate(id, r, amount, w, withdrawn)
  \/ NextSlot

Spec == Init /\ [][Next]_vars

-------------------------------------------------------------------------------
(* Properties. *)

\* The trackers of an obligation are what it owes in whole tokens, rounded up, or
\* off by at most a number: in a group for each deposit the debt of the group, and
\* outside for each borrow its debt.  No other tracker counts anything.
Tracked(o, off) ==
  LET within(tracker, debt) == tracker - debt \in -off..off
      counted == IF InGroup(o) THEN Deposits(o) ELSE {}
      owed == IF InGroup(o) THEN {} ELSE Borrows(o)
  IN  /\ \A r \in counted : within(o.onShares[r], ToCeil(o.debts[DebtReserve[o.group]]))
      /\ \A r \in owed : within(o.onDebt[r], ToCeil(o.debts[r]))
      /\ \A r \in Reserves \ counted : o.onShares[r] = 0
      /\ \A r \in Reserves \ owed : o.onDebt[r] = 0

\* What an obligation read after a refresh counts is what it owes; repayments rely
\* on it, as they take tokens off the trackers without looking at the debt.
FreshTrackersExact ==
  \A id \in Obligations : IsFresh(obligations[id]) => Tracked(obligations[id], 0)

\* At any time a position is at most a token off: the sum of two roundings.
TrackersOffByOne == \A id \in Obligations : Tracked(obligations[id], 1)

\* A reserve counts exactly what the positions of all obligations count: no
\* handler forgets one, counts it twice, or leaves it behind in a group that the
\* obligation has left, and no subtraction ever saturates.
TrackersAddUp ==
  \A r \in Reserves :
    /\ reserves[r].outside = SumFunction([id \in Obligations |-> obligations[id].onDebt[r]])
    /\ \A g \in Groups :
         reserves[r].against[g] =
           SumFunctionOnSet([id \in Obligations |-> obligations[id].onShares[r]],
                            {id \in Obligations : obligations[id].group = g})

\* The obligations that owe what a reserve counts: outside of groups those that borrow
\* from it, in a group those that have it as collateral.
OwingOutside(r) ==
  {id \in Obligations : ~InGroup(obligations[id]) /\ r \in Borrows(obligations[id])}
OwingAgainst(r, g) ==
  {id \in Obligations : obligations[id].group = g /\ r \in Deposits(obligations[id])}

\* What the limits outside of groups and against a collateral are compared with is what
\* the obligations really owe, in whole tokens and as of their last refresh, but for one
\* token per obligation: no error builds up however long they borrow, repay in fractions,
\* exchange their collateral and move between groups, as no total is ever recomputed.
TotalsNearDebts ==
  LET debtsOf(d) == [id \in Obligations |-> ToCeil(obligations[id].debts[d])]
      near(total, owing, d) ==
        total - SumFunctionOnSet(debtsOf(d), owing) \in -Cardinality(owing)..Cardinality(owing)
  IN  \A r \in Reserves :
        /\ near(reserves[r].outside, OwingOutside(r), r)
        /\ \A g \in Groups :
             near(reserves[r].against[g], OwingAgainst(r, g), DebtReserve[g])

\* Every obligation can be refreshed at any time.  One that cannot be refreshed can
\* neither be repaid nor liquidated.
Refreshable ==
  \A id \in Obligations :
    LET o == obligations[id] IN RefreshAllowed(o) /\ CollateralCounted(o, o.group)

\* An obligation outside of groups takes on debt, or takes debt out of a group, only
\* if none of its collateral is for groups only, however deposits, refreshes and
\* borrows follow each other.  (Interest on dust is not such a step.)
GroupOnlyBacksNoNewDebt ==
  [][\A id \in Obligations :
       LET o == obligations[id]
           p == obligations'[id]
           borrows == p.updated = "stale" /\ \E r \in Reserves : p.debts[r] > o.debts[r]
           leaves == InGroup(o) /\ Borrows(p) # {}
       IN  ~InGroup(p) /\ (borrows \/ leaves) => Deposits(p) \cap GroupOnly = {}]_vars
===============================================================================
