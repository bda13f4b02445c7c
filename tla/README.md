# Kamino Lending: a verification project

TLA+ specifications of the Kamino lending program (`src/programs/klend`, Rust on
Solana), the TLC configurations that check them on small instances, and proofs
checked by TLAPS of the results that hold for every instance.  Paths below are
relative to `src/programs/klend/src` unless they start with `docs/`.

## The system

A *lending market* holds *reserves*, one per token.  Suppliers deposit liquidity
into a reserve for cTokens, whose exchange rate grows with the interest that
borrowers pay.  A user's *obligation* holds cTokens of up to 8 reserves as
collateral and debts to up to 5.  An obligation whose loan-to-value exceeds its
limit is liquidated; debt that no collateral backs is socialized on the suppliers.

Every handler is one Solana instruction.  It runs alone and atomically: an error
anywhere undoes all of it.  A transaction is a sequence of instructions with the
same property.  Concurrency is therefore the order of instructions, which nobody
controls, and the passing of slots between them.  Nothing runs by itself: interest
is accrued, prices are loaded and values are recomputed only by *refresh*
instructions, and each handler demands that what it reads was refreshed in the
current slot and has not been touched since.  That staleness protocol, the
roundings of the fixed-point arithmetic, the double bookkeeping of tokens (vault
and account, mint and account, reserve and referrer) and the long sequences of
legal instructions are what is hard here and what the properties are about.

### Inventory

| Component | State | Operations | Interacts with | Correct when |
|---|---|---|---|---|
| Reserve accounting (`state/reserve.rs`, `state/last_update.rs`) | available liquidity, debt, fees owed, cToken supply, interest index, limit timestamps, staleness | deposit, redeem, borrow, repay, compound, forgive, pay fees | every handler | cTokens backed, exchange rate monotone, vault = account, solvent |
| Handlers (`handlers/*`, `lending_market/lending_operations.rs`, `lending_checks.rs`) | none | 40 instructions | all accounts | checks before effects, every copy of a total updated |
| Fixed-point arithmetic (`utils/fraction.rs`) | none | conversions, products, quotients | reserve, obligation, liquidation | rounding is never in the caller's favour |
| Withdrawal caps (`lending_market/withdrawal_cap_operations.rs`) | counter, interval start | add, subtract, reset | reserve handlers, configuration | net outflow of an interval within capacity |
| Borrow rate curve (`utils/borrow_rate_curve.rs`) | 11 points | build, validate, evaluate | interest | continuous, monotone, total on [0, 1] |
| Obligation (`state/obligation.rs`) | deposits, borrows, their values, last_update | refresh, deposit, withdraw, borrow, repay | reserves, elevation groups, orders | fresh values are right; every user operation leaves it healthy |
| Elevation groups (`lending_market/lending_operations.rs`, `state/lending_market.rs`) | debt trackers per group and per reserve | request, update on borrow, repay, deposit, withdraw | obligation, reserve | trackers never below the debts they bound |
| Liquidation (`state/liquidation_operations.rs`) | none | eligibility, amounts, bonus, deleveraging | obligation, reserves, orders | healthy obligations untouched; amounts within position |
| Orders (`state/order_operations.rs`) | up to 2 orders of an obligation | set, check, execute, remove | obligation, liquidation | no active order that the obligation cannot support |
| Flash loans (`lending_market/flash_ixs.rs`) | instructions sysvar | match borrow and repay | reserve | a loan is repaid within its transaction |
| Refresh layout (`utils/refresh_ix_utils.rs`) | instructions sysvar | demand preceding and following refreshes | handlers, farms | what a handler reads was refreshed just before |
| Prices (`utils/prices/*`, `state/token_info.rs`) | price and status of a reserve | load, check | refresh | a status flag is set only for a price that passed |
| Referrals (`state/referral.rs`) | fees owed to each referrer | credit, withdraw | reserve | the reserve holds what it owes |
| Configuration and ownership | market, reserve and global config | update, two-step owner change, emergency mode | handlers | only valid configs, only the owner |
| Farms, token transfers, account loading | external | CPI, plumbing | handlers | (outside) |

`PROJECT.json` lists each component with what is modelled of it, and the hazards
of the code at their lines.

## Modules

| Module | Models | Form |
|---|---|---|
| `FixedPoint` | `utils/fraction.rs` | operators; a fraction is its scaled value, `One` its denominator |
| `WithdrawalCaps` | `lending_market/withdrawal_cap_operations.rs` | each operation as a success predicate and a function |
| `ReserveAccount` | `state/reserve.rs`, `state/last_update.rs` | a reserve is a record; methods are operators on it |
| `Reserve` | the handlers that move the liquidity, debt, cTokens and fees of a reserve | state machine, one action per handler |
| `CapWindow` | one withdrawal cap under arbitrary flows and settings | state machine with the history of the flows |
| `FlashLoan` | `lending_market/flash_ixs.rs`, `lending_market/ix_utils.rs` | state machine: a transaction and its instructions |
| `SharePool` | (abstract) what a reserve promises its suppliers | state machine that `Reserve` implements |
| `FlashLoanPromise` | (abstract) what flash loans promise a reserve | state machine that `FlashLoan` implements |
| `ElevationGroups` | the debt trackers of elevation groups in `lending_operations.rs` and `state/obligation.rs` | state machine over several obligations and reserves |
| `Position` | values, LTV, staleness and shared checks of an obligation in `lending_operations.rs`, `state/obligation.rs` | operators on an obligation and its reserves |
| `ObligationOrders` | `state/order_operations.rs`: orders, their conditions and distances | operators |
| `OwnerOperations` | deposit, borrow, withdraw, repay, the two combinations and the group request, with their checks before and after | each operation as a success predicate and the obligation it leaves |
| `Liquidation` | `state/liquidation_operations.rs`: reasons, bonuses, order of positions, amounts, fee | operators, as above |
| `Lending` | the life of one obligation over several reserves | state machine, one action per handler |
| `Keepers` | the liquidator's transaction and the fairness under which it is sent | `Lending` with one more action and a fair specification |
| `MCReserve`, `MCFlashLoan`, `MCCapWindow`, `MCElevationGroups`, `MCLending` | (instances) | constants for TLC and groups of handlers |
| `ReserveAccountProofs` | (proofs) | lemmas on rounding, interest, fees and the exchange rate |
| `ReserveProofs` | (proofs) | the inductive invariant of `Reserve` and its theorems |
| `ReserveHistoryProofs` | (proofs) | what a step of `Reserve` may never do: staleness, deprecation, limit crossings; what it owes its referrers |
| `FlashLoanProofs` | (proofs) | settlement and the refinement of `FlashLoanPromise` |
| `ElevationGroupsProofs` | (proofs) | the inductive invariant of `ElevationGroups` and its theorems |
| `SumProofs` | (proofs) | sums and folds over finite sets |
| `CapWindowProofs` | (proofs) | what a cap lets out of any window of time |
| `LendingProofs` | (proofs) | the inductive invariant of `Lending` and `Keepers` and their theorems |

### `Reserve`

State: `clock` (slot and timestamp), `reserve` (the account), `referralRate` (the
market's), `vault` (tokens of the supply vault), `circulating` (cTokens users hold,
in wallets or as collateral), `obligations` (each one's debt to this reserve, the
index it was accrued to, its last_update), `unclaimed` (fees owed to each
referrer) and `flashLoan` (a loan under way).

An action is a whole handler.  An error return is a conjunct: where the code fails
(`err!`, a checked subtraction, a panic on overflow) the action is disabled, which
is what the revert of an instruction does.  A handler that refreshes the reserve
first (`InternalRefreshes`) does so inside the action.  `Commit` is the end of a
handler: the new account must fit its integers.

Of the rest of the program the module keeps what decides the reserve's accounts:

- the health of an obligation only ever makes a handler fail, or caps the amount of
  a maximal borrow (`BorrowingPowers`) or of a liquidation (any amount up to the
  position); so the module allows more than the code, and what it shows holds of
  the code;
- prices appear as status flags; a refresh yields any of `PriceStatuses`, keeps the
  saved ones or drops them for their age;
- interest multiplies the debt by any factor of `CompoundingFactors`, a pair of the
  factor of the whole rate and of the host's fixed part of it.  The factors are at
  least 1 and the whole is at least the part (`ReserveAssumption`): rates are
  unsigned and the fixed rate is added to the curve's;
- a token donated to the vault from outside changes nothing that the code compares
  but by the same constant, so `vault` is net of donations.

`refresh_reserves_batch`, `repay_and_withdraw_and_redeem` and `deposit_and_withdraw`
run the operations of several actions in one instruction; on one reserve each is a
sequence of steps of the module.  Flash loans of amount zero, which the code
admits, are left out: with `flashLoan = 0` for none they would be stutters.

What all of this is for is `SharePool`: a pool of assets that belong to its shares.
`Reserve` implements it (`KeepsShares`), with the total supply for its assets,
`mint_total_supply` for its shares, `circulating` for those that suppliers hold, and
open until the reserve is deprecated.  A deposit is a `Join` and a redemption, alone
or at the end of a liquidation within one reserve, a `Leave`; both may accrue interest
first, as the handlers do.  Borrows, repayments, fees, flash loans and refreshes are
a `Gain` or a stutter; `SocializeLoss` is `Lose`.  The abstract actions say what a
supplier may count on: the price of a share on the way in and on the way out is its
worth, but for less than one token of rounding, which goes to the pool.

### `FlashLoan`

State: `tx` (the instructions of the transaction under way), `next` (which runs
next), `owed` (lent and not repaid, of each reserve) and `before` (to what an error
returns).  An instruction says which program runs at the top level, which flash
loan handler its data names, its account list, its amount and the borrow it points
at; one of another program may carry the same data as klend's (an imitation).
`FlashBorrow` and `FlashRepay` are the two handlers with their introspection,
`BorrowChecks` and `RepayChecks`; `OtherInstruction` is anything else, `Commit` and
`Abort` end the transaction.  What the handlers do to a reserve is in `Reserve`,
which takes for granted that a loan is repaid by a later step, as a whole:
`FlashLoanPromise` is that promise, and `FlashLoan` implements it.

### `CapWindow`

State: `cap`, `now`, and histories the program does not keep: the flows `out` and
`in` of each second, and `settled`, the time from which intervals run under the
current setting.  `Outflow` and `Inflow` are what redemptions, borrows, deposits and
repayments do to a cap; `Reconfigure` is the update of one cap in
`update_reserve_config`, `Overwrite` the update of the entire config, which writes
the counter and the start of the interval too, even a start in the future.

### `ElevationGroups`

An obligation may join an *elevation group*: it then borrows only from the group's
debt reserve, against collateral of the group's members.  Every reserve bounds what
is borrowed against it in each group and what is borrowed from it outside of groups.
It cannot sum that up, so it keeps *debt trackers*, and each position of an obligation
keeps what it contributed to them; a refresh replaces that by what is owed now.

State: `obligations` (each a record of its group, whether its last_update is of this
slot and not stale, of this slot and stale, or of an earlier one, its
`borrowing_disabled`, its deposits and debts by reserve, and the trackers of both) and
`reserves` (each a record of what it counts outside of groups and in each group).
The operators act on what an instruction sees, a pair of one obligation and the
reserves (`View`), in the order of the calls in the code; an action checks its guards
and writes the pair back (`Commit`).

What it keeps of the rest of the program: health only makes handlers fail, so
liquidations and withdrawals may be of any amount; interest is any of `Interests`,
once per slot; debts up to `Dust` may be valued at zero, which is all that the check of
a deposit looks at; the settings of the groups are constants.  A withdrawal that
empties an obligation closes it.  `DepositAndWithdraw` is an action of its own, since
it counts the collateral only at its end; `repay_and_withdraw_and_redeem` is a
repayment, a refresh and a withdrawal.

### `Lending`

Everything an obligation may do depends on what it is worth, and that is stored: a
refresh multiplies its positions with the prices saved in their reserves and keeps the
results.  A handler decides on these values and on the price its own reserve has now,
and leaves both accounts stale.

State: `obligation` (its group, deposits and debts by reserve, whether it is fresh and
by which price checks, the values it keeps, its orders, whether it was marked for
deleveraging, since when and to which target), `reserves` (price, checks passed, fresh,
usable or deprecated, since when a limit is crossed), `priceAge` (of the timestamp that the
oracle gave the saved price), `owed` (interest of each debt since the obligation's last
refresh) and `pricesSeen`, a history of the prices
at that refresh, which only properties read.

Each operation of the code is a pair of operators, `Can...` (it does not fail) and the
obligation it leaves (`Borrowed`, `Withdrawn`, `Liquidated`, ...), so that a handler that
combines operations composes them: `RepayAndWithdraw` repays, refreshes and withdraws,
with the LTV checks of the combination (`Enforced`).  The code subtracts and divides
with overflow checks; where that fails the predicate is false.  The actions are those of
the owner (`OwnerNext`), of liquidators (`LiquidatorNext`: one action, whose reason is the
first of the four the code looks at), of the risk council (`CouncilNext`: the mark for
deleveraging and socialized losses) and of the market (`MarketNext`: slots passing,
refreshes with and without a price, limits crossed by others, a reserve deprecated by
somebody else's loss).

`Keepers` adds the transaction that a liquidator sends: it refreshes the reserves and the
obligation and liquidates in one slot, the layout that `utils/refresh_ix_utils.rs` demands.

Simplifications:

- a deposit is counted in the liquidity it redeems for; the exchange rate, fees, caps
  and liquidity are `Reserve`'s, the trackers and totals of groups `ElevationGroups`'.
  What they leave to borrow is an input (`Rooms`);
- timestamps are ages, counted to `MaxAge`, at which every period in the instance
  is over.  A price is saved with its oracle's timestamp, of any age in `ReportAges`, below
  zero where it is ahead of the clock.  The two comparisons with the maximum age are the
  code's: a price just reported may be as old as that (`AgePasses`, `check_price_age`), a
  saved one must be younger (`SavedLevel`, `is_saved_price_age_valid`);
- the values kept by an obligation that is stale are forgotten (`NoHealth`): every handler
  that reads them fails unless it is fresh;
- interest of a slot is any of `Interests`, the same for each debt;
- a closed account is a new one (`NewObligation`): its owner may initialise it again;
- switches that only refuse an instruction are left out: the number of a group's
  collateral reserves (which `ElevationGroups` has), `allow_new_loans`, the emergency
  mode and the market's other switches, the status Hidden;
- `max_allowed_ltv_override`, an argument that only staging builds accept, is left out;
- other obligations wipe out only the reserves in `FragileReserves`.

## Runs

All bounds are small widths, so that overflow is reached and handled: an account
that does not fit is an instruction that fails.  `One = 2` makes every rounding
case (exact, half) occur.

| Run | Question | Bounds |
|---|---|---|
| `ReserveDebt` | Every handler, one borrower, interest, bad debt, flash loans: types, backing of cTokens, solvency, the exchange rate, the pool of shares, staleness, deprecation | tokens to 3, debt to 2.5 tokens, 1 slot, amounts 1 and 3; the initial deposit of 1 lets a loss wipe the reserve out |
| `ReserveFees` | Fees and their payment, with the referral rate switched between 0 and 100% | tokens to 6, debt to 5 tokens, initial deposit 5, 2 slots; borrow handlers, flash loans, fee payments |
| `ReserveSettings` | The owner changes config and caps between users' instructions | an open and a closed config, a tight cap, tokens to 3 |
| `FlashLoan` | Every transaction of flash loan instructions, matching or not, of imitations and others | transactions of up to 4 instructions, amounts 1 and 2, two reserves: enough for two borrows and two repayments in any order |
| `CapWindow` | What a cap says of the outflow of any window of time, while it is reconfigured | 5 seconds, 5 operations of 1 or 2 tokens, intervals of 0 to 3 seconds, counters of -4 to 3 |
| `GroupPositions` | One obligation that joins, leaves and changes groups: its trackers when fresh, its refresh, collateral for groups only | 3 reserves, 2 groups, `One = 4`, debts to 3 tokens in quarters, shares to 2 |
| `GroupTotals` | Two obligations: do the trackers of the reserves add up, how far are those of a position, and the totals, from what is owed? | as above, with `One = 2`, debts to 1.5 tokens, one share; symmetric in the obligations |
| `Positions` | Are the values of a fresh obligation right, does an owner ever leave one that can be liquidated, can an unhealthy one always be, is a healthy one left alone, does a liquidation help, what does a deprecated reserve do to it? | 2 reserves, each collateral and debt, one with a borrow factor of 125%, one group of both; deposits to 3 tokens, debts to 2, prices 0.5 and 1 of one reserve, `One = 10000`; about 154,000 states |
| `Orders` | Are orders executable whatever liquidations and repayments leave, next to deleveraging, margin calls and refreshes without a price; is a price recent that passes for one; who is liquidated for which cause; does a margin call run on? | a stop loss on the loan to value and one on the price ratio; prices 0.2 and 1 of a collateral, reported a second ahead of the clock or exactly as old as the maximum of one second, prices that pass no check; periods of one second of 2; about 1,040,000 states |
| `Keepers` | Do liquidations come to an end, and to a good one? | debts to 1.5 tokens, interest of half a token in a slot or none, prices 0.5 and 1, close factor 50%, a target of 30% |
| `BorrowLimit` | (violation) documentation: a borrow stays within the borrow limit | as `ReserveFees`, limit 2 |
| `Socialization` | (violation) documentation: the reserve stays solvent after a socialization | as `ReserveDebt`, with tokens to 2, amounts 1 and 2 |

`CHECK_DEADLOCK FALSE` in the runs of `Reserve` and `CapWindow`: the model really
stops at its last slot (`MaxSlot`), when all accounts are stale and nothing is left
to do but to wait, or at its last second (`MaxTime`).  The runs of `FlashLoan`,
`ElevationGroups` and `Lending` check deadlock.

What they show:

- `VaultBacksAvailable`: the transfers and the bookkeeping of every handler agree, so
  `post_transfer_vault_balance_liquidity_reserve_checks` never fails;
- `SharesBacked`: `mint_total_supply` is what users hold plus the initial deposit;
- `Solvent`: as long as the reserve is not deprecated, what the cTokens own is
  positive: the fallback of the exchange rate to 1:1 is never taken and
  `total_supply` never panics;
- `ExchangeRateNeverFalls`: only a socialized loss makes a cToken worth less;
- `KeepsShares`: the reserve implements `SharePool`: besides, nobody pays or leaves a token
  more than the worth of their cTokens, a redemption takes no more cTokens than users
  hold, and only a loss of all that there is closes the reserve;
- `DeprecatedIsStale`, `DeprecatedIsFrozen`: a wiped-out reserve stays closed, also to
  the handlers that do not check its version.  The price: fees the protocol and the
  referrers have not collected by then remain in it;
- `FreshDebtIsCurrent`: an obligation that passes the staleness checks has its
  interest accrued up to the reserve's index, on which borrowing relies;
- `ReferrersCovered`: the reserve owes the referrers exactly what they may claim;
- `CrossingTimeKept`: the time since when a limit is crossed, which prices
  auto-deleveraging, does not restart while it is crossed;
- `LoansAreSettled`, `NeverOverpaid`, `KeepsPromise`: the borrow looks ahead and the
  repayment looks back, each with checks of its own; no transaction passes both with
  a loan open, with one repayment for two loans, or with one that was not taken;
- `CounterIsNetOutflow`: within an interval the counter of a cap is outflow less
  inflow, so deposits and repayments make room for redemptions and borrows;
- `WindowBounded`: the code has fixed intervals, not sliding ones.  In any window of
  an interval's length up to twice the capacity may leave (at the end of one
  interval and at the beginning of the next), and what flowed in besides.
- `FreshTrackersExact`: what a refreshed obligation counts is what it owes, rounded up;
- `TrackersOffByOne`: between refreshes a tracker is at most one token off.  The bound
  is tight: paying 1.5 of 2 tokens takes 2 off the tracker and leaves a debt of 0.5;
- `TrackersAddUp`: the reserves count exactly what the positions count.  No saturating
  subtraction ever saturates, and no handler leaves anything behind in a group that an
  obligation has left;
- `TotalsNearDebts`: so what a reserve compares with its limits is what is owed, but for one
  token per obligation, although no total is ever recomputed;
- `Refreshable`: no sequence of handlers brings an obligation into a state in which
  `refresh_obligation` fails, in which it could neither be repaid nor liquidated.  This
  depends on the owner leaving a group's debt reserve, members and number of
  collateral reserves alone while obligations are in it;
- `GroupOnlyBacksNoNewDebt`: `borrowing_disabled` is a copy from the last refresh, but
  every deposit that makes it wrong also makes the obligation stale.
- `FreshMeansValued`: the values of an obligation that passes the staleness checks are those
  of the positions it has, whatever the handlers combine;
- `OwnerStaysSound`: borrowing, withdrawing and changing the group are judged by an
  estimate from the stored values, never by a valuation of the result; valued anew, the
  result cannot be liquidated.  This is of reserves whose loan to value is below their
  threshold: the code admits equal ones, and then the largest borrow is at the threshold;
- `OwnerStaysCovered`: the same for all that the code admits: the debt left is within the
  liquidation limit but for a few units of the last digit (`IsCovered`);
- `HealthyAreSpared`: a liquidation judges by the values kept in the obligation; still nobody
  is liquidated whose debt, valued anew at the prices of the last refresh, is within the
  limit, but after the period of a margin call or of a crossed limit, or by an order.  In
  `Positions` what could break it is a handler that leaves the obligation fresh, in `Orders`
  a cause that is taken too early;
- `LiquidationPossible`: the rules of which debt and which collateral come first, the
  minima, the roundings and the least fee always leave a pair that can be liquidated;
- `LiquidationHelps`: a liquidation never raises the loan to value of an obligation below
  99%, the bonus of any of the four reasons included, but where a debt worth less than
  the least collateral is rounded up to it (`IsDust`);
- `DeprecationFreezes`: positions in a deprecated reserve can never again be changed;
- `OrdersSupported`: withdrawals and liquidations do not check orders; still no order is
  left that means a debt or a collateral which is no longer the only one;
- `OrdersEvaluated`: no division by zero in evaluating the orders, which would stop every
  liquidation that looks at them;
- `CheckedPriceIsRecent`: no fresh reserve whose price passes for a checked one has a price
  older than the maximum, by the oracle's timestamp, though a refresh without a price keeps
  the saved status.  A price of exactly the maximum age is reached;
- `MarginCallRunsOn`: no handler restarts the period of a margin call or changes its target
  while it runs; it ends by the council or with the account;
- `LiquidationResolves`, `CallIsMet`: partial liquidations come to an end, and so does
  deleveraging.

Findings, each a disagreement of the documentation with the code:

- `BorrowLimit`: `docs/instructions/user-borrow/borrow-obligation-liquidity.md:184`
  says a borrow must not exceed the reserve's limit; for an exact amount the code
  compares the limit before it adds the fees to the debt;
- `Socialization`: `docs/instructions/reserve-admin/socialize-loss.md:114` says the
  reserve must remain solvent; the code deprecates it instead.

The last two are liveness properties, of `FairSpec` in `Keepers`.  It assumes weak fairness
of two things.  Slots pass (`NewSlot`), which the chain provides.  And where a liquidation
would succeed it is sent (`KeeperNext`): anyone may send it and it pays a bonus.  That the
transaction refreshes what it liquidates makes weak fairness enough, as nothing that a
slot makes stale disables it.  Oracles are assumed to confirm, in that transaction, the
price they reported last, with a timestamp of any age that passes.  Nothing is assumed of owners or of the risk council; both
properties are conditional on their no longer adding risk and on prices staying as they
are from some time on (`<>[][IsQuiet]_vars`), without which an obligation may be made
unhealthy again and again.

## Proofs

For every value of the constants that satisfies the modules' assumptions (any
number of obligations and referrers, any widths, any set of amounts, rates, factors
and configs; transactions of any length and any instructions; any number of reserves,
groups and orders with any settings and any positive prices), where settings are those that
the code accepts: `LoanToValue` is at most `LiquidationThreshold`
(`lending_market/lending_operations.rs:3145`, `handlers/handler_update_lending_market.rs:182`),
sets of reserves, obligations and referrers are finite, and integers have at least the value 1:

| Theorem | Of | Module |
|---|---|---|
| `Invariance` | `[]IInv` | `ReserveProofs` |
| `TypeCorrectness` | `[]TypeOK` | |
| `VaultIsAccounted` | `[]VaultBacksAvailable` | |
| `SharesAreBacked` | `[]SharesBacked` | |
| `Solvency` | `[]Solvent` | |
| `DeprecatedStaysStale` | `[]DeprecatedIsStale` | |
| `ExchangeRateMonotone` | `ExchangeRateNeverFalls` | |
| `PoolRefinement` | `KeepsShares` | |
| `RoundTripNeverPays` | a deposit and the redemption of its cTokens | |
| `HistoryInvariance` | `[]HInv` | `ReserveHistoryProofs` |
| `FreshDebtAccrued` | `[]FreshDebtIsCurrent` | |
| `CrossingTimesKept` | `CrossingTimeKept` | |
| `DeprecatedStaysFrozen` | `DeprecatedIsFrozen` | |
| `ReferrersAreCovered` | `[]ReferrersCovered` | |
| `Settlement` | `[]LoansAreSettled` | `FlashLoanProofs` |
| `NoOverpayment` | `[]NeverOverpaid` | |
| `Refinement` | `KeepsPromise` | |
| `Invariance` | `[]IInv` | `ElevationGroupsProofs` |
| `TypeCorrectness` | `[]TypeOK` | |
| `TrackersExact` | `[]FreshTrackersExact` | |
| `TrackersBounded` | `[]TrackersOffByOne` | |
| `AlwaysRefreshable` | `[]Refreshable` | |
| `GroupOnlyCollateral` | `GroupOnlyBacksNoNewDebt` | |
| `TrackersAlwaysAddUp` | `[]TrackersAddUp` | |
| `TotalsStayNear` | `[]TotalsNearDebts` | |
| `CounterIsAlwaysNetOutflow` | `[]CounterIsNetOutflow` | `CapWindowProofs` |
| `WindowsAreBounded` | `[]WindowBounded` | |
| `Invariance` | `[]IInv` | `LendingProofs` |
| `TypeCorrectness` | `[]TypeOK` | |
| `OrdersStaySupported` | `[]OrdersSupported` | |
| `CheckedPricesRecent` | `[]CheckedPriceIsRecent` | |
| `DeprecationFreezesPositions` | `DeprecationFreezes` | |
| `FreshIsValued` | `[]FreshMeansValued` | |
| `OwnersStayCovered` | `OwnerStaysCovered` | |
| `OwnersStaySound` | `OwnerStaysSoundPastRounding` | |
| `OrdersStayEvaluable` | `[]OrdersEvaluatedPastRounding` | |
| `APairAlwaysRanksFirst` | `[]PriorityLeavesAPair` | |
| `SmallDebtsAreLiquidatable` | `[]SmallDebtsLiquidatable`, where `DustAmount = 1` | |
| `LiquidationsHelp` | `LiquidationHelpsPastRounding`, where `One >= 10000` | |
| `HealthyStaySpared` | `HealthyAreSpared` | |
| `MarginCallsRunOn` | `MarginCallRunsOn` | |
| `KeepersInvariance` | `[]IInv`, of `FairSpec` | |
| `KeepersAreSafe` | all of these but `LiquidationHelpsPastRounding`, `SmallDebtsLiquidatable` and `HealthyAreSpared`, of `FairSpec` | |

`ReserveProofs`.  The invariants only hold together.  That a redemption leaves
something behind needs the initial deposit, which nobody can redeem: with
`SharesBacked`, whatever a user redeems is fewer cTokens than `mint_total_supply`,
and rounding down pays at most their share (`RedemptionRoundsDown`), so `Solvent`
holds afterwards.  That handlers keep `TypeOK`, where amounts are natural numbers,
needs `VaultBacksAvailable` for the vault and the code's checks for the account.
`Solvent` across a socialization needs the comparison that deprecates the reserve,
and from then on `DeprecatedIsStale` disables what could touch it.  So `IInv` is
their conjunction, with one lemma per action (`<Action>Step`), each split into the
parts the action disturbs.  Each of these lemmas also proves that the action keeps
the exchange rate, from the same facts; `ExchangeRateMonotone` collects them.  The
lemmas on the account (`ReserveAccountProofs`) carry the arithmetic:
`MintingRoundsUp` (cTokens minted cost at least their worth), `CompoundedFacts`
(interest adds at least as much to the debt as to the fees), `FeesFacts` (a fee is
smaller than its amount).

`PoolRefinement` needs to know of each action which abstract one it is, so the same lemmas
show that the account only gains or that it trades (`StepOK`): cTokens are bought or
returned for a number of tokens at the worth of the account after the interest of this
very handler (`Buys`, `Returns`).  That no trade costs its supplier a whole token is
`MintingOverpaysLittle` and `RedemptionLosesLittle`; that those tokens are a number the
abstract pool may pay is `AvailableFits`, the last conjunct of `IInv`.  This one was not
inductive at first: in a liquidation within one reserve the repayment is added to the
available amount with an overflow check (`state/reserve.rs:516`) before the redemption
takes its part off it again, and the model had only checked the account that is left.  It
now has that guard.  `RoundTripNeverPays` is about two operations together, where the
rounding of the price paid, of the cTokens minted and of the liquidity redeemed meet.

`ReserveHistoryProofs`.  An obligation is fresh in a slot only if it was refreshed in
it, and the reserve's index moves only in the refresh of a later slot than its last
one.  `HInv` adds what makes this inductive: no account was updated in the future,
and a debt whose obligation was refreshed in the slot of the reserve's last refresh
has the reserve's index.  Actions are grouped by what they do to the account
(`Refreshing`, `Noting`, `Quiet`), so that each needs one short lemma that says to
which group it belongs.

What the referrers may claim (`ReferrersAreCovered`) is a sum over a set, and the sums of the
community modules fold the set in the order of `CHOOSE`.  The library's induction
theorems cannot be instantiated, so `SumProofs` inducts with a least counterexample of a
well-founded order instead (`SubsetInduction`), proves that the equation of the fold has
exactly one solution, and from it what is needed: `SumStep`, `SumRemove` (in any order)
and `SumUpdate` (changing one term changes the sum by the difference); `SumNear` bounds the
difference of two sums by the number of their terms.  `ReferrersCovered`
is inductive together with the invariant of `ReserveProofs`: four actions move both sides,
each by one term (`BorrowsCover`, `IndebtedRefreshCovers`, `FlashRepayCovers`,
`WithdrawalCovers`), all others keep both (`IdleStays`).

`FlashLoanProofs`.  Its `IInv` says that every borrow that has run passed its checks
and that what is owed is the one borrow whose repayment is still to run, if any.
`OneBorrow` (a borrow refuses later borrows) and the uniqueness of the repayment
make it inductive; `before` is then always nothing, so that `Abort` settles too.

`ElevationGroupsProofs`.  Off by one is not inductive by itself: two repayments would
each round.  It is because every handler that moves tokens demands a fresh obligation,
whose trackers are exact, and marks it stale.  So `IInv` says of every obligation that
it is off by at most one and refreshable, and of a fresh one that it is exact and its
`borrowing_disabled` right.  There is one lemma per operator on the pair (`...Facts`:
what it does to each field), one per action (`...Step`), and `Committed` reduces a step
to the one obligation that it changes.  `CeilOfDifference` and `CeilOfSum` are the
roundings.

`TrackersAddUp` speaks of sums over the obligations, of which a handler changes one.  What
the other obligations count at each reserve (`Others`, natural numbers) stays, so that a
handler has to keep one equation: a reserve counts the others and this obligation (`Adds`).
Each operator on the pair keeps it (`...Adds`).  Within a change of the group the deposits
are still counted in the old one, hence `AddsIn` for a given group, and an obligation that
counts nothing may be moved (`NothingCounted`).  That the code's subtractions never saturate
(`NothingSaturates`) is a consequence: what is taken off is at most what the obligation
itself counts, as its trackers are exact when a handler takes an amount off them.
`TotalsNearDebts` combines the sums with `TrackersOffByOne` (`AddUpIsNear`).

`CapWindowProofs`.  The counter is the net outflow since the interval began (`CounterIsNet`),
and a window as long as an interval touches at most two.  `WindowsBounded` says of every
window under the current setting that it let out twice the capacity and what came in, and
of those that reach into the current interval that they let out, before it began, the
capacity and what came in (`BoundedBefore`): the other half is the counter.  It takes in
addition that nothing flowed since the interval was over, so that the next one can begin
(`NothingSince`), that nothing has flowed in the future (`NothingAhead`) and that a start in
the future was written by an update of the config (`SettledByStart`).  Sums over windows are
cut at the beginning of an interval (`SumDisjoint`).

`LendingProofs`.  The invariant is a property of the obligation alone (`SoundRecord`: its
amounts are natural numbers, its `has_debt` is right, its orders are ones it can
execute), of the reserves alone (`ReservesInv`: a checked price is positive and recent, a
deprecated reserve is not fresh) and the types of the rest.  Deposits and debts stay
natural numbers only because every amount taken off is at most what is there, which for
withdrawals and liquidations depends on the roundings; and these are defined only
because prices are positive and fresh values are those of a refresh.  So there is one
lemma per operation (`...Facts`): from a sound obligation it leaves a sound one, in which
only the named positions differ (`Only`).  Handlers that combine operations compose these
lemmas, each action has one (`...Step`).  `Only` also gives `DeprecationFreezes`: an
operation needs the reserve of every position it changes usable, or all of them fresh,
which a deprecated one never is.

`FreshMeansValued` is part of the invariant: that an operation leaves the obligation stale is
one more conjunct of its lemma, and handlers that refresh in between recompute.

The code never values what a borrow, a withdrawal or a change of group leaves; it estimates.
Values and limits are sums over reserves (`HealthSums`, `LimitSum`), of which an operation
changes one term, and the estimate differs from the new sum by the roundings of that term and
of the weight of the debt.  So what a borrow (`LoanWithin`), a withdrawal (`WithdrawWithin`)
or a change of group (`GroupLimited`) leaves is within its limit for borrowing but for these
roundings (`WithinLimit`).  For the withdrawal the amount it may take is enough
(`TakenWithin`): its check after the estimate is not needed.  The combined handlers refresh
what they leave and compare (`WithinSound`).  `OwnerLimited` puts these together, and both
theorems follow.  `OwnersStayCovered`: the limit for borrowing is not above the one for
liquidations (`LimitCovers`), because `LoanToValue` is at most `LiquidationThreshold`, reserve
by reserve and in each group.  `OwnersStaySound`: limits further apart than the roundings are
also told apart after their division by the deposits (`LtvApart`, `MarginIsSound`).  Where the
limits are equal `OwnerStaysSound` itself is false, as the code compares with "at least" for
liquidations and with "at most" for borrows: no theorem can state it.
`OwnerStaysSoundPastRounding` is what is left: what the owner leaves can be liquidated at once
only if its two limits are so close that the roundings of the estimate reach from one to the
other (`HasMargin`).  This and the other two statements called `...PastRounding` are only
proved: where `OwnerStaysSound`, `OrdersEvaluated` and `LiquidationHelps` hold, as in the
instances of the runs, they follow from these.

`OrdersEvaluatedPastRounding`.  When orders are looked at the obligation is below its
liquidation point, so a threshold that is hit is below it too.  For the loan to value that is
exact.  For a price ratio the point is the ratio times the limit by the loan to value, both
rounded: with a ratio of at least 1 it still is not below the ratio (`PointPastRatio`), below
1 it may be, by the rounding of the product in units of the quotient.  With a threshold just
there, or a loan to value that rounds to zero, the division does fail in the code; an
owner who sets such an order makes the liquidation by order fail until a price moves.

`PriorityLeavesAPair`.  A liquidation wants the collateral with the lowest threshold and the
debt with the highest borrow factor, which a refresh takes from the positions worth at least
the two skip values; the liquidation then looks at one pair, and wants it to be worth
something.  If any position counts, the extreme is one of theirs (`LowestType`,
`HighestType`), and that position ranks first; if none does, the extreme is the bound it
started from (`U8Max`, 100), and any collateral that backs something, any debt that weighs
something does (`CollateralRanks`, `DebtRanks`).  The one way to exclude all pairs is a
position worth nothing that counts: a deposit whose value rounds to zero has the lowest
threshold, but nothing of it can be taken.  So the invariant is of obligations without such
positions, or skip values above zero (`CountsOnlyWorth`).

`SmallDebtsLiquidatable`.  A debt below `min_full_liquidation_value_threshold` is settled
whole, and what is withdrawn for it is at least one unit: `CollateralFor` raises a smaller
amount to `DUST_LAMPORT_THRESHOLD`, 1 in the program, which a deposit always has
(`SmallAmounts`).  The fee is at most what is withdrawn, its minimum of one unit included
(`FeeWithin`).  With a pair that ranks first nothing else stands in the way
(`SmallLiquidation`).  With a larger constant it would be false for a deposit below it.

`LiquidationHelpsPastRounding`.  Both values are sums of which a liquidation changes one
term (`BorrowedChanges`, `DepositedChanges`), and the loan to value does not rise when what
is taken, times one unit more than it, is at most what is settled (`FairShare`): the unit
stands for the rounding of the loan to value itself.  The bonus of every reason is at most
what the collateral has over the debt (`BonusWithin`), and below 99% that leaves more than
this unit (`ShareOfBonus`), if the scale has at least four digits (`FineScale`; the code's is
2^60).  All roundings of the amounts but one are then in the obligation's favour
(`PartWorth`, `TotalWithin`, `WithdrawnWorth`): the one is that of a debt scaled down to
what a collateral taken whole pays for (`CutDownWorth`), and its worth is the slack
(`WholeShare`), some units of the last digit.

`HealthyAreSpared`.  A liquidation needs a fresh obligation, so the values it looks at are
those of `FreshMeansValued`, at prices that are still the reserves' (`KnownHealth`): if the
reason it finds is not health, it is one of the others (`ReasonHasCause`).

`MarginCallRunsOn`.  Every operator on the obligation that an action is composed of carries the
call over (`CarriedOn`, `...Carries`), but for the closing of the account and what the council
does (`CallStays`, `CouncilRunsOn`).  That its age never falls when a slot passes needs one
more invariant, that it has been counted to `MaxAge` at most (`CallCounted`).

The attempt to prove the invariant of `Keepers` found an error of that module: its
transaction made all reserves fresh, deprecated ones and those without a price too.  Now it
refreshes the obligation's, where they can be (`Confirmable`), and the theorems of `Spec` hold
of `FairSpec` as well.

Only model-checked:

- `OrdersEvaluated`, the exact form, which is false for constants whose price ratios round
  onto a threshold (above); what is true of all of them is proved;
- `OwnerStaysSound`, which is false where `LoanToValue` equals `LiquidationThreshold`
  (above); `OwnerStaysSoundPastRounding` and `OwnerStaysCovered` are proved;
- `LiquidationHelps`, the exact form, of liquidations that take a collateral whole; of all
  others, and of these but for roundings, it is proved (above);
- `LiquidationPossible`, of debts above the minimum for a partial liquidation: it depends on
  constants the code hardly bounds (a close factor of zero leaves nothing to liquidate).
  That the rules of priority leave a pair, and all of it for small debts, is proved (above);
- the liveness properties `LiquidationResolves` and `CallIsMet`: liveness under fairness,
  with its `ENABLED`, is beyond the provers.

## Not modelled

- The borrow rate curve (`utils/borrow_rate_curve.rs`): a pure function that interpolates
  11 points.  It keeps no state, and what it does to the rest is to choose a rate: the
  models let interest be any of a set, so that what they show holds of any curve.
- The Taylor expansion of compounded interest (`approximate_compounded_interest`): a
  polynomial in a rate per slot of about 10^-9, whose error only shows at 128 bits.
  `Reserve` multiplies by any factor of a set instead.
- Parsing the accounts of the oracles (`utils/prices/*`): external layouts.  A check
  yields any price and any of the levels of status flags that handlers tell apart.
- The matching of accounts and of farm refreshes in `utils/refresh_ix_utils.rs`: a
  comparison of account lists; the order it demands is the transaction of `Keepers`.
- Changes of a market's group settings and of the health parameters of a reserve while
  obligations exist.  They are constants; with changing ones an obligation really can get
  stuck, or become liquidatable by the owner's decision (see the hazards).
- Validation of configurations and their dispatch (`lending_market/config_items.rs`,
  `update_reserve_config` mode by mode): what it guarantees is what the constants'
  assumptions say.
- Ownership of markets and of the global config, the registry of referrers and short
  URLs, withdrawal of the protocol's fees from the fee vault: a hand-over in two
  assignments, accounts created and deleted by the runtime, a transfer.  No property
  relates them to the rest.
- Farms and token transfers: calls into other programs.  `Reserve` moves the vault by the
  amounts that the handlers pass; tokens that take a fee on transfer are rejected by the
  token-2022 checks.
- Account loading, macros, seeds and constants: deserialisation, dispatch and layout.
- That nothing but instructions that fail is left out: an overflow of 128-bit
  intermediates is a failing instruction in the code; `Lending` bounds debts and
  deposits (`MaxDebt`, `MaxDeposit`) instead.
