----------------------------- MODULE ReserveProofs -----------------------------
(***************************************************************************)
(* Theorems about the reserve, for every configuration, every set of       *)
(* obligations and referrers, every amount and every scale of fractions.   *)
(*                                                                         *)
(* The inductive invariant IInv joins the invariants, which need each      *)
(* other: a redemption leaves the reserve solvent because mint_total_supply *)
(* exceeds what users hold (SharesBacked, with the initial deposit that    *)
(* nobody holds), and it can compute an exchange rate because the reserve  *)
(* was solvent.  Every action but a deposit, a redemption and a socialized *)
(* loss is a step of growth: it moves tokens and debts without minting or  *)
(* burning cTokens and takes nothing from the suppliers (Grows).  Deposits *)
(* and redemptions are trades (Trades), for which AvailableFits bounds the *)
(* tokens; a socialized loss loses (Loses).                                *)
(***************************************************************************)
EXTENDS Reserve, ReserveAccountProofs

Balances ==
  /\ TypeOK
  /\ VaultBacksAvailable
  /\ SharesBacked
  /\ Solvent
  /\ DeprecatedIsStale

\* What bounds the tokens of a single deposit or redemption.
AvailableFits == reserve.available <= MaxU64

IInv ==
  /\ TypeOK
  /\ VaultBacksAvailable
  /\ SharesBacked
  /\ Solvent
  /\ DeprecatedIsStale
  /\ AvailableFits

\* From r to s cTokens are bought for tokens, or returned for tokens, at their
\* worth in an account that has gained since r.
Buys(r, s, tokens) ==
  LET worth  == TotalSupply(s) - FromNum(tokens)
      bought == s.mintTotalSupply - r.mintTotalSupply
  IN  /\ worth >= TotalSupply(r)
      /\ bought >= 0
      /\ bought * worth <= FromNum(tokens) * r.mintTotalSupply
      /\ FromNum(tokens) * r.mintTotalSupply < bought * worth + One * r.mintTotalSupply

Returns(r, s, tokens) ==
  LET worth    == TotalSupply(s) + FromNum(tokens)
      returned == r.mintTotalSupply - s.mintTotalSupply
  IN  /\ worth >= TotalSupply(r)
      /\ returned >= 0
      /\ FromNum(tokens) * r.mintTotalSupply <= returned * worth
      /\ returned * worth < FromNum(tokens) * r.mintTotalSupply + One * r.mintTotalSupply

Trades(r, s) == \E tokens \in 0..MaxU64 : Buys(r, s, tokens) \/ Returns(r, s, tokens)

\* What each action but SocializeLoss is shown to establish.
StepOK ==
  /\ Balances'
  /\ reserve'.version = reserve.version
  /\ Grows(reserve, reserve') \/ (IsCurrent /\ Trades(reserve, reserve'))

\* The variables that an action changes besides reserve, vault and circulating.
OthersTyped ==
  /\ clock \in [slot : Nat, timestamp : Nat]
  /\ referralRate \in 0..One
  /\ obligations \in [Obligations -> ObligationStates]
  /\ unclaimed \in [Referrers -> Nat]
  /\ flashLoan \in Nat

-------------------------------------------------------------------------------
(* Lemmas the actions share. *)

LEMMA InitialReserve ==
  ASSUME NEW config \in Configs, NEW dep \in CapSettings, NEW debt \in CapSettings
  PROVE  LET r == NewReserve(config, dep, debt) IN
         /\ r \in Reserves
         /\ TotalSupply(r) > 0
         /\ r.available = InitialDeposit
         /\ r.mintTotalSupply = InitialDeposit
         /\ r.version = "current"
<1> DEFINE r == NewReserve(config, dep, debt)
<1>1. /\ InitialDeposit \in Nat \ {0}
      /\ One \in Nat \ {0}
      /\ MaxI64 \in Nat
      /\ config \in ReserveConfigs
  BY ReserveAssumption, OneAssumption, MaxI64Assumption, WidthAssumption
<1>2. ASSUME NEW setting \in CapSettings PROVE NewCap(setting, 0) \in Caps
  <2>1. setting \in [capacity : -MaxI64 - 1 .. MaxI64, interval : Nat] BY ReserveAssumption
  <2>2. 0 \in -MaxI64 - 1 .. MaxI64 BY <1>1
  <2> QED BY <2>1, <2>2 DEF NewCap, Caps
<1>3. {} \in SUBSET PriceFlags OBVIOUS
<1>4. r \in Reserves BY <1>1, <1>2, <1>3 DEF NewReserve, Reserves
<1>5. /\ r.available = InitialDeposit
      /\ r.mintTotalSupply = InitialDeposit
      /\ r.version = "current"
  BY DEF NewReserve
<1>6. TotalSupply(r) = InitialDeposit * One BY <1>1 DEF TotalSupply, NewReserve, FromNum
<1>7. InitialDeposit * One > 0 BY <1>1
<1> QED BY <1>4, <1>5, <1>6, <1>7

\* A step of growth keeps the invariant: it moves the vault with the reserve, and
\* leaves a deprecated reserve stale.
LEMMA GrowthStep ==
  ASSUME IInv, Grows(reserve, reserve'), vault' = reserve'.available,
         circulating' = circulating, IsCurrent \/ reserve'.stale, OthersTyped'
  PROVE  StepOK
<1>1. reserve \in Reserves BY DEF IInv, TypeOK
<1>2. /\ reserve' \in Reserves
      /\ reserve'.version = reserve.version
      /\ reserve'.mintTotalSupply = reserve.mintTotalSupply
      /\ TotalSupply(reserve') >= TotalSupply(reserve)
  BY DEF Grows
<1>3. TotalSupply(reserve) \in Int /\ TotalSupply(reserve') \in Int
  BY <1>1, <1>2, TotalSupplyType
<1>4. reserve'.available \in Nat BY <1>2 DEF Reserves
<1>5. TypeOK' BY <1>2, <1>4 DEF IInv, TypeOK, OthersTyped
<1>6. VaultBacksAvailable' BY DEF VaultBacksAvailable
<1>7. SharesBacked' BY <1>2 DEF IInv, SharesBacked
<1>8. Solvent'
  <2>1. TotalSupply(reserve)' = TotalSupply(reserve') BY DEF TotalSupply
  <2> QED BY <1>2, <1>3, <2>1 DEF IInv, Solvent, IsCurrent
<1>9. DeprecatedIsStale' BY <1>2 DEF DeprecatedIsStale, IsCurrent
<1> QED BY <1>2, <1>5, <1>6, <1>7, <1>8, <1>9 DEF Balances, StepOK

LEMMA RefreshesFacts ==
  ASSUME TypeOK, NEW r \in Reserves, NEW statuses, statuses \subseteq SUBSET PriceFlags,
         NEW s \in Refreshes(r, statuses)
  PROVE  /\ Grows(r, s)
         /\ s.available = r.available
<1>1. PICK f \in CompoundingFactors, status \in statuses :
        s = Refreshed(r, clock.slot, f, status, referralRate)
  BY DEF Refreshes
<1>2. f \in [compounded : Nat, fixed : Nat] /\ One <= f.fixed /\ f.fixed <= f.compounded
  BY ReserveAssumption
<1>3. clock.slot \in Nat /\ referralRate \in 0..One /\ status \in SUBSET PriceFlags
  BY DEF TypeOK
<1> QED BY <1>1, <1>2, <1>3, RefreshedFacts

LEMMA InternalRefreshesFacts ==
  ASSUME TypeOK, NEW r \in Reserves, NEW s \in InternalRefreshes(r)
  PROVE  /\ Grows(r, s)
         /\ s.available = r.available
<1>1. {r.priceStatus, {}} \subseteq SUBSET PriceFlags BY DEF Reserves
<1> QED BY <1>1, RefreshesFacts DEF InternalRefreshes

\* Interest is accrued once per slot.
LEMMA RefreshedAgain ==
  ASSUME TypeOK, NEW r \in Reserves, ~(clock.slot > r.slot), NEW s \in InternalRefreshes(r)
  PROVE  s \in Reserves /\ SameClaims(r, s)
<1>1. PICK f \in CompoundingFactors, status \in {r.priceStatus, {}} :
        s = Refreshed(r, clock.slot, f, status, referralRate)
  BY DEF InternalRefreshes, Refreshes
<1>2. s = [r EXCEPT !.slot = clock.slot, !.stale = FALSE, !.priceStatus = status]
  BY <1>1 DEF Refreshed
<1>3. s \in Reserves BY InternalRefreshesFacts DEF Grows
<1> QED BY <1>2, <1>3 DEF Reserves, SameClaims, TotalSupply

\* Marking the result of a step of growth stale, or noting crossed limits on it,
\* makes a step of growth.
LEMMA StaleGrowth ==
  ASSUME NEW r \in Reserves, NEW s, Grows(r, s)
  PROVE  /\ Grows(r, MarkStale(s))
         /\ MarkStale(s).available = s.available
         /\ MarkStale(s).stale
  BY MarkStaleFacts, TotalSupplyType DEF Grows, SameClaims

LEMMA TimestampedGrowth ==
  ASSUME NEW r \in Reserves, NEW s, Grows(r, s), NEW now \in Nat
  PROVE  /\ Grows(r, LimitTimestampsRefreshed(s, now))
         /\ LimitTimestampsRefreshed(s, now).available = s.available
         /\ LimitTimestampsRefreshed(s, now).stale = s.stale
  BY LimitTimestampsFacts, TotalSupplyType DEF Grows, SameClaims

LEMMA ObligationUpdated ==
  ASSUME TypeOK, NEW o \in Obligations
  PROVE  /\ [obligations EXCEPT ![o].stale = TRUE] \in [Obligations -> ObligationStates]
         /\ \A p \in ObligationStates :
              [obligations EXCEPT ![o] = p] \in [Obligations -> ObligationStates]
<1>1. obligations \in [Obligations -> ObligationStates] BY DEF TypeOK
<1>2. [obligations[o] EXCEPT !.stale = TRUE] \in ObligationStates
  BY <1>1 DEF ObligationStates
<1>3. ASSUME NEW p \in ObligationStates
      PROVE  [obligations EXCEPT ![o] = p] \in [Obligations -> ObligationStates]
  BY <1>1
<1> QED BY <1>2, <1>3

LEMMA PositionRepaidType ==
  ASSUME NEW p \in ObligationStates, NEW amount \in Nat, amount <= p.borrowed
  PROVE  [PositionRepaid(p, amount) EXCEPT !.stale = TRUE] \in ObligationStates
<1>1. p.borrowed - amount \in Nat BY DEF ObligationStates
<1>2. PositionRepaid(p, amount) \in ObligationStates
  BY <1>1 DEF PositionRepaid, ObligationStates
<1> QED BY <1>2 DEF ObligationStates

LEMMA AccruedType ==
  ASSUME NEW p \in ObligationStates, p.rate # 0, NEW rate \in Nat
  PROVE  Accrued(p, rate) \in ObligationStates
<1>1. p.borrowed * rate \in Nat /\ p.rate \in Nat \ {0} BY DEF ObligationStates
<1>2. MulDivFloor(p.borrowed, rate, p.rate) \in Nat BY <1>1, DivBounds DEF MulDivFloor
<1> QED BY <1>2 DEF Accrued, ObligationStates

LEMMA ReferrerCreditedType ==
  ASSUME TypeOK, NEW referrer \in Referrers \cup {NoReferrer}, NEW fee \in Nat
  PROVE  ReferrerCredited(referrer, fee) \in [Referrers -> Nat]
<1>1. unclaimed \in [Referrers -> Nat] BY DEF TypeOK
<1>2. CASE referrer = NoReferrer BY <1>1, <1>2 DEF ReferrerCredited
<1>3. CASE referrer # NoReferrer
  <2>1. unclaimed[referrer] + fee \in Nat BY <1>1, <1>3
  <2> QED BY <1>1, <1>3, <2>1 DEF ReferrerCredited
<1> QED BY <1>2, <1>3
-------------------------------------------------------------------------------
(* Minting and burning cTokens. *)

\* s is r after a deposit or a redemption: cTokens and liquidity change together,
\* at their worth but for the rounding, and the reserve stays solvent.
Exchanges(r, s) ==
  /\ s \in Reserves
  /\ s.version = r.version
  /\ Trades(r, s)
  /\ TotalSupply(r) > 0 => TotalSupply(s) > 0

LEMMA DepositedFacts ==
  ASSUME TypeOK, NEW r \in Reserves, TotalSupply(r) > 0, r.mintTotalSupply > 0,
         NEW amount \in Nat
  PROVE  /\ Deposited(r, amount) \in Reserves
         /\ Deposited(r, amount).available <= MaxU64 => Exchanges(r, Deposited(r, amount))
         /\ Deposited(r, amount).slot = r.slot
         /\ TotalSupply(Deposited(r, amount))
              = TotalSupply(r) + FromNum(LiquidityTaken(r, amount))
         /\ CollateralMinted(r, amount) * TotalSupply(r)
              <= FromNum(LiquidityTaken(r, amount)) * r.mintTotalSupply
         /\ LiquidityTaken(r, amount) \in Nat
         /\ CollateralMinted(r, amount) \in Nat
         /\ Deposited(r, amount).available = r.available + LiquidityTaken(r, amount)
         /\ Deposited(r, amount).mintTotalSupply
              = r.mintTotalSupply + CollateralMinted(r, amount)
         /\ Deposited(r, amount).stale
<1> DEFINE taken  == LiquidityTaken(r, amount)
           minted == CollateralMinted(r, amount)
           cap    == SubFromAccum(r.depositCap, taken, clock.timestamp)
           s      == Deposited(r, amount)
<1>1. /\ r.available \in Nat /\ r.mintTotalSupply \in Nat
      /\ r.depositCap \in Caps /\ clock.timestamp \in Nat
      /\ TotalSupply(r) \in Nat \ {0}
  BY TotalSupplyType DEF Reserves, TypeOK
<1>2. /\ ExchangeRate(r).collateral \in Nat \ {0}
      /\ ExchangeRate(r).liquidity \in Nat \ {0}
  BY <1>1, ExchangeRateType
<1>3. minted \in Nat BY <1>2, LiquidityToCollateralType DEF CollateralMinted
<1>4. /\ taken \in Nat
      /\ FromNum(taken) * ExchangeRate(r).collateral
            >= minted * ExchangeRate(r).liquidity
      /\ FromNum(taken) * ExchangeRate(r).collateral
            < minted * ExchangeRate(r).liquidity + One * ExchangeRate(r).collateral
  <2> HIDE DEF minted
  <2>1. taken = CollateralToLiquidityCeil(ExchangeRate(r), minted)
    BY DEF LiquidityTaken, minted
  <2> QED BY <1>2, <1>3, <2>1, MintingRoundsUp, MintingOverpaysLittle
<1> HIDE DEF taken, minted
<1>5. cap \in Caps BY <1>1, <1>4, CapTypes
<1>6. s = [r EXCEPT !.available = r.available + taken,
                    !.mintTotalSupply = r.mintTotalSupply + minted,
                    !.depositCap = cap, !.stale = TRUE]
  BY DEF Deposited, MarkStale, Reserves, taken, minted
<1> HIDE DEF cap, s
<1>7. s \in Reserves
  <2>1. r.available + taken \in Nat /\ r.mintTotalSupply + minted \in Nat
    BY <1>1, <1>3, <1>4
  <2> QED BY <1>5, <1>6, <2>1 DEF Reserves
<1>8. /\ s.available = r.available + taken
      /\ s.mintTotalSupply = r.mintTotalSupply + minted
      /\ s.version = r.version
      /\ s.slot = r.slot
      /\ s.stale
      /\ s.borrowed = r.borrowed
      /\ s.protocolFees = r.protocolFees
      /\ s.referrerFees = r.referrerFees
      /\ s.pendingReferrerFees = r.pendingReferrerFees
  BY <1>6 DEF Reserves
<1>9. FromNum(taken) \in Nat BY <1>4, FromNumType
<1>10. TotalSupply(s) = TotalSupply(r) + FromNum(taken)
  <2>1. FromNum(s.available) = FromNum(r.available) + FromNum(taken)
    BY <1>1, <1>4, <1>8, OneAssumption DEF FromNum
  <2>2. FromNum(r.available) \in Nat BY <1>1, FromNumType
  <2> QED BY <1>8, <1>9, <2>1, <2>2 DEF TotalSupply, Reserves
<1>11. /\ ExchangeRate(r).collateral = r.mintTotalSupply
       /\ ExchangeRate(r).liquidity = TotalSupply(r)
  BY <1>1 DEF ExchangeRate
<1>12. ASSUME s.available <= MaxU64 PROVE Trades(r, s)
  <2>1. /\ TotalSupply(s) - FromNum(taken) = TotalSupply(r)
        /\ s.mintTotalSupply - r.mintTotalSupply = minted
    BY <1>1, <1>3, <1>8, <1>9, <1>10
  <2>2. Buys(r, s, taken) BY <1>1, <1>3, <1>4, <1>11, <2>1 DEF Buys
  <2>3. taken \in 0..MaxU64 BY <1>1, <1>4, <1>8, <1>12, WidthAssumption
  <2> QED BY <2>2, <2>3 DEF Trades
<1>13. TotalSupply(s) > 0 BY <1>1, <1>9, <1>10
<1>14. minted * TotalSupply(r) <= FromNum(taken) * r.mintTotalSupply
  BY <1>1, <1>3, <1>4, <1>9, <1>11
<1> QED BY <1>3, <1>4, <1>7, <1>8, <1>10, <1>12, <1>13, <1>14
        DEF Exchanges, s, taken, minted

LEMMA RedeemedFacts ==
  ASSUME TypeOK, NEW r \in Reserves, TotalSupply(r) > 0, NEW collateral \in Nat,
         collateral < r.mintTotalSupply, LiquidityRedeemed(r, collateral) <= r.available,
         r.available <= MaxU64
  PROVE  /\ Exchanges(r, Redeemed(r, collateral))
         /\ LiquidityRedeemed(r, collateral) \in Nat
         /\ Redeemed(r, collateral).available
              = r.available - LiquidityRedeemed(r, collateral)
         /\ Redeemed(r, collateral).mintTotalSupply = r.mintTotalSupply - collateral
         /\ Redeemed(r, collateral).stale
<1> DEFINE liquidity == LiquidityRedeemed(r, collateral)
           s == [r EXCEPT !.available = r.available - liquidity,
                          !.mintTotalSupply = r.mintTotalSupply - collateral]
<1>1. /\ r.available \in Nat /\ r.mintTotalSupply \in Nat \ {0}
      /\ clock.timestamp \in Nat
      /\ TotalSupply(r) \in Nat \ {0}
  BY TotalSupplyType DEF Reserves, TypeOK
<1>2. /\ ExchangeRate(r).collateral = r.mintTotalSupply
      /\ ExchangeRate(r).liquidity = TotalSupply(r)
  BY <1>1 DEF ExchangeRate
<1>3. /\ liquidity \in Nat
      /\ FromNum(liquidity) * r.mintTotalSupply <= collateral * TotalSupply(r)
      /\ collateral * TotalSupply(r)
           < FromNum(liquidity) * r.mintTotalSupply + One * r.mintTotalSupply
  BY <1>1, <1>2, RedemptionRoundsDown, RedemptionLosesLittle DEF LiquidityRedeemed
<1>4. Redeemed(r, collateral) = MarkStale(LimitTimestampsRefreshed(s, clock.timestamp))
  BY DEF Redeemed, Reserves
<1> HIDE DEF liquidity
<1>5. s \in Reserves
  <2>1. r.available - liquidity \in Nat /\ r.mintTotalSupply - collateral \in Nat
    BY <1>1, <1>3 DEF liquidity
  <2> QED BY <2>1 DEF Reserves
<1>6. /\ s.available = r.available - liquidity
      /\ s.mintTotalSupply = r.mintTotalSupply - collateral
      /\ s.version = r.version
      /\ s.borrowed = r.borrowed
      /\ s.protocolFees = r.protocolFees
      /\ s.referrerFees = r.referrerFees
      /\ s.pendingReferrerFees = r.pendingReferrerFees
  BY DEF Reserves
<1> HIDE DEF s
<1>7. FromNum(liquidity) \in Nat BY <1>3, FromNumType
<1>8. TotalSupply(s) = TotalSupply(r) - FromNum(liquidity)
  <2>1. FromNum(s.available) = FromNum(r.available) - FromNum(liquidity)
    BY <1>1, <1>3, <1>6, OneAssumption DEF FromNum
  <2>2. FromNum(r.available) \in Nat BY <1>1, FromNumType
  <2> QED BY <1>6, <1>7, <2>1, <2>2 DEF TotalSupply, Reserves
<1>9. TotalSupply(s) > 0
  <2>1. ASSUME NEW t \in Nat, NEW m \in Nat, NEW l \in Nat, NEW c \in Nat,
               l * m <= c * t, c < m, t > 0
        PROVE  t - l > 0
    <3>1. c * t < m * t BY <2>1
    <3>2. l * m < t * m BY <2>1, <3>1
    <3>3. l < t BY <3>2, Z3
    <3> QED BY <2>1, <3>3
  <2> QED BY <1>1, <1>3, <1>7, <1>8, <2>1
<1>10. SameClaims(s, Redeemed(r, collateral)) /\ Redeemed(r, collateral) \in Reserves
       /\ Redeemed(r, collateral).stale
  <2> DEFINE t == LimitTimestampsRefreshed(s, clock.timestamp)
  <2>1. t \in Reserves /\ SameClaims(s, t) BY <1>1, <1>5, LimitTimestampsFacts
  <2> HIDE DEF t
  <2>2. MarkStale(t) \in Reserves /\ SameClaims(t, MarkStale(t)) /\ MarkStale(t).stale
    BY <2>1, MarkStaleFacts
  <2> QED BY <1>4, <2>1, <2>2 DEF SameClaims, t
<1>11. Trades(r, Redeemed(r, collateral))
  <2> DEFINE t == Redeemed(r, collateral)
  <2>1. TotalSupply(t) = TotalSupply(s) /\ t.mintTotalSupply = s.mintTotalSupply
    BY <1>10 DEF SameClaims
  <2> HIDE DEF t
  <2>2. /\ TotalSupply(t) + FromNum(liquidity) = TotalSupply(r)
        /\ r.mintTotalSupply - t.mintTotalSupply = collateral
    BY <1>1, <1>6, <1>7, <1>8, <2>1
  <2>3. Returns(r, t, liquidity) BY <1>1, <1>3, <2>2 DEF Returns
  <2>4. liquidity \in 0..MaxU64 BY <1>1, <1>3, WidthAssumption DEF liquidity
  <2> QED BY <2>3, <2>4 DEF Trades, t
<1> QED BY <1>3, <1>6, <1>9, <1>10, <1>11 DEF Exchanges, SameClaims, liquidity

LEMMA GrowthThenExchange ==
  ASSUME NEW r \in Reserves, NEW s, NEW t, Grows(r, s), Exchanges(s, t)
  PROVE  Exchanges(r, t)
<1>1. /\ TotalSupply(r) \in Int /\ TotalSupply(s) \in Int /\ TotalSupply(t) \in Int
      /\ TotalSupply(s) >= TotalSupply(r)
      /\ s.mintTotalSupply = r.mintTotalSupply
  BY TotalSupplyType DEF Grows, Exchanges
<1>2. PICK tokens \in 0..MaxU64 : Buys(s, t, tokens) \/ Returns(s, t, tokens)
  BY DEF Exchanges, Trades
<1>3. FromNum(tokens) \in Nat BY <1>2, WidthAssumption, FromNumType
<1>4. CASE Buys(s, t, tokens)
  <2>1. TotalSupply(t) - FromNum(tokens) >= TotalSupply(r) BY <1>1, <1>3, <1>4 DEF Buys
  <2> QED BY <1>1, <1>4, <2>1 DEF Buys, Trades, Grows, Exchanges
<1>5. CASE Returns(s, t, tokens)
  <2>1. TotalSupply(t) + FromNum(tokens) >= TotalSupply(r) BY <1>1, <1>3, <1>5 DEF Returns
  <2> QED BY <1>1, <1>5, <2>1 DEF Returns, Trades, Grows, Exchanges
<1> QED BY <1>2, <1>4, <1>5

LEMMA ExchangeThenSame ==
  ASSUME NEW r \in Reserves, NEW s, NEW t \in Reserves, Exchanges(r, s), SameClaims(s, t)
  PROVE  Exchanges(r, t)
  BY DEF Exchanges, SameClaims, Trades, Buys, Returns

LEMMA ExchangeStep ==
  ASSUME IInv, IsCurrent, Exchanges(reserve, reserve'), vault' = reserve'.available,
         circulating' \in Nat,
         reserve'.mintTotalSupply = InitialDeposit + circulating',
         OthersTyped'
  PROVE  StepOK
<1>1. reserve' \in Reserves /\ reserve'.version = reserve.version BY DEF Exchanges
<1>2. reserve'.available \in Nat BY <1>1 DEF Reserves
<1>3. TypeOK' BY <1>1, <1>2 DEF TypeOK, OthersTyped
<1>4. VaultBacksAvailable' BY DEF VaultBacksAvailable
<1>5. SharesBacked' BY DEF SharesBacked
<1>6. Solvent'
  <2>1. TotalSupply(reserve)' = TotalSupply(reserve') BY DEF TotalSupply
  <2> QED BY <1>1, <2>1 DEF IInv, Solvent, IsCurrent, Exchanges
<1>7. DeprecatedIsStale' BY <1>1 DEF DeprecatedIsStale, IsCurrent
<1> QED BY <1>1, <1>3, <1>4, <1>5, <1>6, <1>7 DEF Balances, StepOK, Exchanges

\* The same for an account r refreshed within the instruction: what a reader may
\* assume of it before the exchange.
LEMMA RefreshedWithin ==
  ASSUME IInv, NEW r \in InternalRefreshes(reserve)
  PROVE  /\ Grows(reserve, r)
         /\ r \in Reserves
         /\ r.available = vault
         /\ r.mintTotalSupply = InitialDeposit + circulating
         /\ r.available <= MaxU64
         /\ IsCurrent => TotalSupply(r) > 0
<1>1. reserve \in Reserves BY DEF IInv, TypeOK
<1>2. Grows(reserve, r) /\ r.available = reserve.available
  BY <1>1, InternalRefreshesFacts DEF IInv
<1>3. TotalSupply(r) \in Int /\ TotalSupply(reserve) \in Int
  BY <1>1, <1>2, TotalSupplyType DEF Grows
<1> QED BY <1>2, <1>3 DEF IInv, Grows, VaultBacksAvailable, SharesBacked, Solvent,
                      AvailableFits

-------------------------------------------------------------------------------
(* Refreshing. *)

LEMMA RefreshReserveStep ==
  ASSUME IInv, RefreshReserve
  PROVE  StepOK
<1>1. reserve \in Reserves /\ clock.timestamp \in Nat BY DEF IInv, TypeOK
<1>2. PICK r \in Refreshes(reserve, {reserve.priceStatus, {}} \cup PriceStatuses) :
        reserve' = LimitTimestampsRefreshed(r, clock.timestamp)
  BY DEF RefreshReserve, Commit
<1>3. {reserve.priceStatus, {}} \cup PriceStatuses \subseteq SUBSET PriceFlags
  BY <1>1, ReserveAssumption DEF Reserves
<1>4. Grows(reserve, r) /\ r.available = reserve.available
  BY <1>1, <1>3, RefreshesFacts DEF IInv
<1>5. Grows(reserve, reserve') /\ reserve'.available = reserve.available
  BY <1>1, <1>2, <1>4, TimestampedGrowth
<1>6. IsCurrent /\ vault' = vault /\ circulating' = circulating BY DEF RefreshReserve
<1>7. OthersTyped' BY DEF RefreshReserve, OthersTyped, IInv, TypeOK
<1> QED BY <1>5, <1>6, <1>7, GrowthStep DEF IInv, VaultBacksAvailable

\* A step that changes neither the reserve nor the vault.
LEMMA UntouchedStep ==
  ASSUME IInv, UNCHANGED <<reserve, vault, circulating>>, OthersTyped'
  PROVE  StepOK
<1>1. reserve \in Reserves BY DEF IInv, TypeOK
<1>2. Grows(reserve, reserve') BY <1>1, TotalSupplyType DEF Grows
<1>3. IsCurrent \/ reserve'.stale BY DEF IInv, DeprecatedIsStale
<1> QED BY <1>2, <1>3, GrowthStep DEF IInv, VaultBacksAvailable

LEMMA RefreshIdleObligationStep ==
  ASSUME IInv, NEW o \in Obligations, RefreshIdleObligation(o)
  PROVE  StepOK
<1>1. obligations \in [Obligations -> ObligationStates] /\ clock.slot \in Nat
  BY DEF IInv, TypeOK
<1>2. PICK status \in PriceStatuses :
        obligations' = [obligations EXCEPT
          ![o].slot = clock.slot, ![o].stale = FALSE, ![o].priceStatus = status]
  BY DEF RefreshIdleObligation
<1>3. status \in SUBSET PriceFlags BY ReserveAssumption
<1>4. obligations' \in [Obligations -> ObligationStates]
  BY <1>1, <1>2, <1>3 DEF ObligationStates
<1>5. OthersTyped' BY <1>4 DEF RefreshIdleObligation, OthersTyped, IInv, TypeOK
<1> QED BY <1>5, UntouchedStep DEF RefreshIdleObligation

LEMMA UseObligationElsewhereStep ==
  ASSUME IInv, NEW o \in Obligations, UseObligationElsewhere(o)
  PROVE  StepOK
<1>1. obligations' \in [Obligations -> ObligationStates]
  BY ObligationUpdated DEF UseObligationElsewhere, IInv
<1>2. OthersTyped' BY <1>1 DEF UseObligationElsewhere, OthersTyped, IInv, TypeOK
<1> QED BY <1>2, UntouchedStep DEF UseObligationElsewhere
\* The share that a refreshed obligation moves out of the pending fees.
LEMMA ReferralShareType ==
  ASSUME NEW r \in Reserves, NEW before \in Nat, NEW after \in Nat, NEW fixed \in Nat,
         r.absoluteReferralRate # 0, ReferralComputable(r, before, after, fixed)
  PROVE  /\ ReferralShare(r, before, after, fixed) \in Nat
         /\ ReferralShare(r, before, after, fixed) <= r.pendingReferrerFees
<1>1. r.absoluteReferralRate \in Nat /\ r.pendingReferrerFees \in Nat BY DEF Reserves
<1>2. FMul(before, fixed) \in Nat /\ FMul(before, fixed) <= after
  BY FMulBounds DEF ReferralComputable
<1> DEFINE variable == after - before - (FMul(before, fixed) - before)
<1>3. variable \in Nat BY <1>2
<1>4. FMul(variable, r.absoluteReferralRate) \in Nat BY <1>1, <1>3, FMulBounds
<1> QED BY <1>1, <1>4 DEF ReferralShare, Smaller

LEMMA RefreshIndebtedObligationStep ==
  ASSUME IInv, NEW o \in Obligations, RefreshIndebtedObligation(o)
  PROVE  StepOK
<1> DEFINE before   == obligations[o].borrowed
           position == Accrued(obligations[o], reserve.cumulativeBorrowRate)
           share(f) == IF reserve.absoluteReferralRate = 0 THEN 0
                       ELSE ReferralShare(reserve, before, position.borrowed, f)
           r(f) == [reserve EXCEPT !.pendingReferrerFees = @ - share(f)]
<1>1. /\ reserve \in Reserves
      /\ reserve.cumulativeBorrowRate \in Nat
      /\ obligations[o] \in ObligationStates
      /\ clock.slot \in Nat
      /\ referralRate \in Nat
  BY OneAssumption DEF IInv, TypeOK, Reserves
<1>2. position \in ObligationStates
  BY <1>1, AccruedType DEF RefreshIndebtedObligation, HasDebt
<1> HIDE DEF position
<1>3. PICK fixed \in FixedFactors(clock.slot - obligations[o].slot) :
        /\ ReferralComputable(reserve, before, position.borrowed, fixed)
        /\ IF HasReferrer(o) /\ referralRate > 0
           THEN /\ Commit(ReferrerFeeAdded(r(fixed), share(fixed)))
                /\ unclaimed' = ReferrerCredited(ReferrerOf[o], share(fixed))
           ELSE /\ Commit([r(fixed) EXCEPT !.protocolFees = @ + share(fixed)])
                /\ UNCHANGED unclaimed
  BY DEF RefreshIndebtedObligation, position
<1>4. fixed \in Nat BY ReserveAssumption, OneAssumption DEF FixedFactors
<1>5. share(fixed) \in Nat /\ share(fixed) <= reserve.pendingReferrerFees
  <2>1. before \in Nat /\ position.borrowed \in Nat BY <1>1, <1>2 DEF ObligationStates
  <2>2. reserve.pendingReferrerFees \in Nat BY <1>1 DEF Reserves
  <2> QED BY <1>1, <1>3, <1>4, <2>1, <2>2, ReferralShareType
<1> HIDE DEF share
<1>6. Grows(reserve, reserve') /\ reserve'.available = reserve.available
  <2> DEFINE sh == share(fixed)
  <2>1. /\ reserve.pendingReferrerFees - sh \in Nat
        /\ reserve.referrerFees + sh \in Nat
        /\ reserve.protocolFees + sh \in Nat
        /\ reserve.pendingReferrerFees \in Nat
        /\ reserve.referrerFees \in Nat
        /\ reserve.protocolFees \in Nat
        /\ reserve.borrowed \in Nat
        /\ FromNum(reserve.available) \in Nat
    BY <1>1, <1>5, FromNumType DEF Reserves
  <2>2. \/ reserve' = [reserve EXCEPT !.pendingReferrerFees = reserve.pendingReferrerFees - sh,
                                      !.referrerFees = reserve.referrerFees + sh]
        \/ reserve' = [reserve EXCEPT !.pendingReferrerFees = reserve.pendingReferrerFees - sh,
                                      !.protocolFees = reserve.protocolFees + sh]
    BY <1>1, <1>3 DEF Commit, ReferrerFeeAdded, Reserves
  <2> HIDE DEF sh
  <2>3. reserve' \in Reserves BY <1>1, <2>1, <2>2 DEF Reserves
  <2>4. /\ reserve'.version = reserve.version
        /\ reserve'.mintTotalSupply = reserve.mintTotalSupply
        /\ reserve'.available = reserve.available
        /\ reserve'.borrowed = reserve.borrowed
        /\ reserve'.pendingReferrerFees = reserve.pendingReferrerFees - sh
        /\ \/ /\ reserve'.referrerFees = reserve.referrerFees + sh
              /\ reserve'.protocolFees = reserve.protocolFees
           \/ /\ reserve'.referrerFees = reserve.referrerFees
              /\ reserve'.protocolFees = reserve.protocolFees + sh
    BY <1>1, <2>2 DEF Reserves
  <2>5. sh \in Nat BY <1>5 DEF sh
  <2>6. TotalSupply(reserve') = TotalSupply(reserve)
    BY <2>1, <2>4, <2>5 DEF TotalSupply
  <2> QED BY <1>1, <2>3, <2>4, <2>6, TotalSupplyType DEF Grows
<1>7. OthersTyped'
  <2>1. PICK otherReserves \in PriceStatuses :
          obligations' = [obligations EXCEPT ![o] =
            [position EXCEPT !.slot = clock.slot, !.stale = FALSE,
               !.priceStatus = otherReserves \cap reserve.priceStatus]]
    BY DEF RefreshIndebtedObligation, position
  <2>2. otherReserves \cap reserve.priceStatus \in SUBSET PriceFlags
    BY <1>1 DEF Reserves
  <2>3. [position EXCEPT !.slot = clock.slot, !.stale = FALSE,
               !.priceStatus = otherReserves \cap reserve.priceStatus] \in ObligationStates
    BY <1>1, <1>2, <2>2 DEF ObligationStates
  <2>4. obligations' \in [Obligations -> ObligationStates]
    BY <2>1, <2>3, ObligationUpdated DEF IInv
  <2>5. unclaimed' \in [Referrers -> Nat]
    <3>1. ReferrerOf[o] \in Referrers \cup {NoReferrer} BY ReserveAssumption
    <3>2. ReferrerCredited(ReferrerOf[o], share(fixed)) \in [Referrers -> Nat]
      BY <1>5, <3>1, ReferrerCreditedType DEF IInv
    <3>3. unclaimed \in [Referrers -> Nat] BY DEF IInv, TypeOK
    <3> QED BY <1>3, <3>2, <3>3
  <2> QED BY <2>4, <2>5 DEF RefreshIndebtedObligation, OthersTyped, IInv, TypeOK
<1>8. IsCurrent /\ vault' = vault /\ circulating' = circulating
  BY DEF RefreshIndebtedObligation
<1> QED BY <1>6, <1>7, <1>8, GrowthStep DEF IInv, VaultBacksAvailable

-------------------------------------------------------------------------------
(* Suppliers. *)

LEMMA DepositReserveLiquidityStep ==
  ASSUME IInv, NEW amount \in Amounts, DepositReserveLiquidity(amount)
  PROVE  StepOK
<1>1. amount \in Nat BY ReserveAssumption
<1>2. PICK r \in InternalRefreshes(reserve) :
        /\ reserve' = Deposited(r, amount)
        /\ Deposited(r, amount).available <= MaxU64
        /\ vault' = vault + LiquidityTaken(r, amount)
        /\ circulating' = circulating + CollateralMinted(r, amount)
  BY DEF DepositReserveLiquidity, Commit, Representable
<1>3. IsCurrent BY DEF DepositReserveLiquidity, OpenForDeposits
<1>4. /\ Grows(reserve, r) /\ r \in Reserves
      /\ r.available = vault
      /\ r.mintTotalSupply = InitialDeposit + circulating
      /\ TotalSupply(r) > 0
  BY <1>3, RefreshedWithin
<1>5. circulating \in Nat /\ InitialDeposit \in Nat \ {0} /\ reserve \in Reserves
  BY ReserveAssumption, WidthAssumption DEF IInv, TypeOK
<1>6. /\ Exchanges(r, reserve')
      /\ CollateralMinted(r, amount) \in Nat
      /\ reserve'.available = r.available + LiquidityTaken(r, amount)
      /\ reserve'.mintTotalSupply = r.mintTotalSupply + CollateralMinted(r, amount)
  BY <1>1, <1>2, <1>4, <1>5, DepositedFacts DEF IInv
<1>7. Exchanges(reserve, reserve') BY <1>4, <1>5, <1>6, GrowthThenExchange
<1>8. vault' = reserve'.available BY <1>2, <1>4, <1>6
<1>9. /\ circulating' \in Nat
      /\ reserve'.mintTotalSupply = InitialDeposit + circulating'
  BY <1>2, <1>4, <1>5, <1>6
<1>10. OthersTyped' BY DEF DepositReserveLiquidity, OthersTyped, IInv, TypeOK
<1> QED BY <1>3, <1>7, <1>8, <1>9, <1>10, ExchangeStep

LEMMA DepositReserveLiquidityAndObligationCollateralStep ==
  ASSUME IInv, NEW o \in Obligations, NEW amount \in Amounts,
         DepositReserveLiquidityAndObligationCollateral(o, amount)
  PROVE  StepOK
<1> DEFINE deposited == Deposited(reserve, amount)
<1>1. amount \in Nat /\ reserve \in Reserves BY ReserveAssumption DEF IInv, TypeOK
<1>2. PICK r \in InternalRefreshes(deposited) :
        reserve' = MarkStale(r) /\ MarkStale(r).available <= MaxU64
  BY DEF DepositReserveLiquidityAndObligationCollateral, Commit, Representable
<1>3. IsCurrent BY DEF DepositReserveLiquidityAndObligationCollateral, OpenForDeposits
<1>4. /\ circulating \in Nat /\ InitialDeposit \in Nat \ {0}
      /\ reserve.mintTotalSupply = InitialDeposit + circulating
      /\ TotalSupply(reserve) > 0
      /\ vault = reserve.available
  BY <1>3, ReserveAssumption, WidthAssumption
     DEF IInv, TypeOK, SharesBacked, Solvent, VaultBacksAvailable
<1>5. ~(clock.slot > reserve.slot)
  BY DEF DepositReserveLiquidityAndObligationCollateral, CanDeposit, Fresh, IsStale
<1>6. r \in Reserves /\ SameClaims(deposited, r)
  <2>1. deposited \in Reserves /\ deposited.slot = reserve.slot
    BY <1>1, <1>4, DepositedFacts DEF IInv
  <2> HIDE DEF deposited
  <2> QED BY <1>2, <1>5, <2>1, RefreshedAgain DEF IInv
<1>7. reserve' \in Reserves /\ SameClaims(deposited, reserve')
  BY <1>2, <1>6, MarkStaleFacts DEF SameClaims
<1>8. /\ Exchanges(reserve, reserve')
      /\ CollateralMinted(reserve, amount) \in Nat
      /\ reserve'.available = reserve.available + LiquidityTaken(reserve, amount)
      /\ reserve'.mintTotalSupply
           = reserve.mintTotalSupply + CollateralMinted(reserve, amount)
  <2>1. deposited.available <= MaxU64 BY <1>2, <1>6, MarkStaleFacts DEF SameClaims
  <2>2. /\ Exchanges(reserve, deposited)
        /\ CollateralMinted(reserve, amount) \in Nat
        /\ deposited.available = reserve.available + LiquidityTaken(reserve, amount)
        /\ deposited.mintTotalSupply
             = reserve.mintTotalSupply + CollateralMinted(reserve, amount)
    BY <1>1, <1>4, <2>1, DepositedFacts DEF IInv
  <2> HIDE DEF deposited
  <2>3. Exchanges(reserve, reserve') BY <1>1, <1>7, <2>2, ExchangeThenSame
  <2> QED BY <1>7, <2>2, <2>3 DEF SameClaims
<1> HIDE DEF deposited
<1>9. /\ vault' = vault + LiquidityTaken(reserve, amount)
      /\ circulating' = circulating + CollateralMinted(reserve, amount)
  BY DEF DepositReserveLiquidityAndObligationCollateral
<1>10. vault' = reserve'.available BY <1>4, <1>8, <1>9
<1>11. /\ circulating' \in Nat
       /\ reserve'.mintTotalSupply = InitialDeposit + circulating'
  BY <1>4, <1>8, <1>9
<1>12. OthersTyped'
  <2>1. obligations' \in [Obligations -> ObligationStates]
    BY ObligationUpdated DEF DepositReserveLiquidityAndObligationCollateral, IInv
  <2> QED BY <2>1 DEF DepositReserveLiquidityAndObligationCollateral, OthersTyped,
                      IInv, TypeOK
<1> QED BY <1>3, <1>8, <1>10, <1>11, <1>12, ExchangeStep

LEMMA DepositObligationCollateralStep ==
  ASSUME IInv, NEW o \in Obligations, DepositObligationCollateral(o)
  PROVE  StepOK
<1>1. reserve \in Reserves BY DEF IInv, TypeOK
<1>2. Grows(reserve, reserve) BY <1>1, TotalSupplyType DEF Grows
<1>3. reserve' = MarkStale(reserve) /\ IsCurrent
      /\ vault' = vault /\ circulating' = circulating
  BY DEF DepositObligationCollateral, Commit, OpenForDeposits
<1>4. Grows(reserve, reserve') /\ reserve'.available = reserve.available
  BY <1>1, <1>2, <1>3, StaleGrowth
<1>5. obligations' \in [Obligations -> ObligationStates]
  BY ObligationUpdated DEF DepositObligationCollateral, IInv
<1>6. OthersTyped' BY <1>5 DEF DepositObligationCollateral, OthersTyped, IInv, TypeOK
<1> QED BY <1>3, <1>4, <1>6, GrowthStep DEF IInv, VaultBacksAvailable
\* The redemption of cTokens that users hold, from an account the step started
\* from or refreshed.
LEMMA RedemptionExchanges ==
  ASSUME IInv, NEW r \in Reserves, TotalSupply(r) > 0,
         r.mintTotalSupply = InitialDeposit + circulating, r.available <= MaxU64,
         NEW collateral \in Nat, collateral <= circulating, CanRedeem(r, collateral)
  PROVE  /\ Exchanges(r, Redeemed(r, collateral))
         /\ RedeemedWithinCap(r, collateral) \in Reserves
         /\ SameClaims(Redeemed(r, collateral), RedeemedWithinCap(r, collateral))
         /\ Redeemed(r, collateral).available
              = r.available - LiquidityRedeemed(r, collateral)
         /\ Redeemed(r, collateral).mintTotalSupply
              = InitialDeposit + (circulating - collateral)
         /\ circulating - collateral \in Nat
         /\ LiquidityRedeemed(r, collateral) \in Nat
<1> DEFINE s   == Redeemed(r, collateral)
           cap == AddToAccum(s.depositCap, LiquidityRedeemed(r, collateral), clock.timestamp)
           t   == RedeemedWithinCap(r, collateral)
<1>1. /\ circulating \in Nat /\ InitialDeposit \in Nat \ {0}
      /\ clock.timestamp \in Nat
  BY ReserveAssumption, WidthAssumption DEF IInv, TypeOK
<1>2. collateral < r.mintTotalSupply BY <1>1
<1>3. /\ Exchanges(r, s)
      /\ LiquidityRedeemed(r, collateral) \in Nat
      /\ s.available = r.available - LiquidityRedeemed(r, collateral)
      /\ s.mintTotalSupply = r.mintTotalSupply - collateral
  BY <1>2, RedeemedFacts DEF IInv, CanRedeem
<1> HIDE DEF s
<1>4. s \in Reserves BY <1>3 DEF Exchanges
<1>5. cap \in Caps BY <1>1, <1>3, <1>4, CapTypes DEF Reserves
<1>6. t = [s EXCEPT !.depositCap = cap] BY <1>4 DEF RedeemedWithinCap, s, Reserves
<1> HIDE DEF cap, t
<1>7. t \in Reserves BY <1>4, <1>5, <1>6 DEF Reserves
<1>8. /\ t.version = s.version
      /\ t.available = s.available
      /\ t.mintTotalSupply = s.mintTotalSupply
      /\ TotalSupply(t) = TotalSupply(s)
  BY <1>4, <1>6 DEF Reserves, TotalSupply
<1>9. SameClaims(s, t) BY <1>8 DEF SameClaims
<1>10. /\ circulating - collateral \in Nat
       /\ s.mintTotalSupply = InitialDeposit + (circulating - collateral)
  BY <1>1, <1>3
<1> QED BY <1>3, <1>7, <1>9, <1>10 DEF s, t

LEMMA RedeemReserveCollateralStep ==
  ASSUME IInv, NEW collateral \in Amounts, RedeemReserveCollateral(collateral)
  PROVE  StepOK
<1>1. collateral \in Nat /\ reserve \in Reserves BY ReserveAssumption DEF IInv, TypeOK
<1>2. PICK r \in InternalRefreshes(reserve) :
        /\ CanRedeem(r, collateral)
        /\ reserve' = RedeemedWithinCap(r, collateral)
        /\ collateral <= circulating
        /\ circulating' = circulating - collateral
        /\ vault' = vault - LiquidityRedeemed(r, collateral)
  BY DEF RedeemReserveCollateral, Commit, PayRedemption
<1>3. IsCurrent BY DEF RedeemReserveCollateral
<1>4. /\ Grows(reserve, r) /\ r \in Reserves
      /\ r.available = vault
      /\ r.mintTotalSupply = InitialDeposit + circulating
      /\ r.available <= MaxU64
      /\ TotalSupply(r) > 0
  BY <1>3, RefreshedWithin
<1> DEFINE s == Redeemed(r, collateral)
<1>5. /\ Exchanges(r, s)
      /\ reserve' \in Reserves
      /\ SameClaims(s, reserve')
      /\ s.available = r.available - LiquidityRedeemed(r, collateral)
      /\ s.mintTotalSupply = InitialDeposit + (circulating - collateral)
      /\ circulating - collateral \in Nat
  BY <1>1, <1>2, <1>4, RedemptionExchanges
<1> HIDE DEF s
<1>6. Exchanges(r, reserve') BY <1>4, <1>5, ExchangeThenSame
<1>7. Exchanges(reserve, reserve') BY <1>1, <1>4, <1>6, GrowthThenExchange
<1>8. /\ vault' = reserve'.available
      /\ circulating' \in Nat
      /\ reserve'.mintTotalSupply = InitialDeposit + circulating'
  BY <1>2, <1>4, <1>5 DEF SameClaims
<1>9. OthersTyped' BY DEF RedeemReserveCollateral, OthersTyped, IInv, TypeOK
<1> QED BY <1>3, <1>7, <1>8, <1>9, ExchangeStep

LEMMA WithdrawObligationCollateralStep ==
  ASSUME IInv, NEW o \in Obligations, WithdrawObligationCollateral(o)
  PROVE  StepOK
<1>1. obligations' \in [Obligations -> ObligationStates]
  BY ObligationUpdated DEF WithdrawObligationCollateral, IInv
<1>2. OthersTyped' BY <1>1 DEF WithdrawObligationCollateral, OthersTyped, IInv, TypeOK
<1> QED BY <1>2, UntouchedStep DEF WithdrawObligationCollateral

LEMMA WithdrawObligationCollateralAndRedeemReserveCollateralStep ==
  ASSUME IInv, NEW o \in Obligations, NEW collateral \in Amounts,
         WithdrawObligationCollateralAndRedeemReserveCollateral(o, collateral)
  PROVE  StepOK
<1>1. collateral \in Nat /\ reserve \in Reserves BY ReserveAssumption DEF IInv, TypeOK
<1>2. /\ IsCurrent
      /\ CanRedeem(reserve, collateral)
      /\ reserve' = RedeemedWithinCap(reserve, collateral)
      /\ collateral <= circulating
      /\ circulating' = circulating - collateral
      /\ vault' = vault - LiquidityRedeemed(reserve, collateral)
  BY DEF WithdrawObligationCollateralAndRedeemReserveCollateral, Commit, PayRedemption
<1>3. /\ vault = reserve.available
      /\ reserve.mintTotalSupply = InitialDeposit + circulating
      /\ reserve.available <= MaxU64
      /\ TotalSupply(reserve) > 0
  BY <1>2 DEF IInv, VaultBacksAvailable, SharesBacked, Solvent, AvailableFits
<1> DEFINE s == Redeemed(reserve, collateral)
<1>4. /\ Exchanges(reserve, s)
      /\ reserve' \in Reserves
      /\ SameClaims(s, reserve')
      /\ s.available = reserve.available - LiquidityRedeemed(reserve, collateral)
      /\ s.mintTotalSupply = InitialDeposit + (circulating - collateral)
      /\ circulating - collateral \in Nat
  BY <1>1, <1>2, <1>3, RedemptionExchanges
<1> HIDE DEF s
<1>5. Exchanges(reserve, reserve') BY <1>1, <1>4, ExchangeThenSame
<1>6. /\ vault' = reserve'.available
      /\ circulating' \in Nat
      /\ reserve'.mintTotalSupply = InitialDeposit + circulating'
  BY <1>2, <1>3, <1>4 DEF SameClaims
<1>7. OthersTyped'
  <2>1. obligations' \in [Obligations -> ObligationStates]
    BY ObligationUpdated DEF WithdrawObligationCollateralAndRedeemReserveCollateral, IInv
  <2> QED BY <2>1 DEF WithdrawObligationCollateralAndRedeemReserveCollateral, OthersTyped,
                      IInv, TypeOK
<1> QED BY <1>2, <1>5, <1>6, <1>7, ExchangeStep

-------------------------------------------------------------------------------
(* Borrowing and repaying. *)

LEMMA BorrowFeesType ==
  ASSUME TypeOK, NEW o \in Obligations, NEW amount \in Nat, NEW exclusive \in BOOLEAN
  PROVE  LET fees == BorrowFees(reserve, amount, exclusive, o) IN
         /\ fees.protocol \in Nat
         /\ fees.referrer \in Nat
         /\ ~(HasReferrer(o) /\ referralRate > 0) => fees.referrer = 0
<1>1. /\ reserve.config.borrowFee \in Nat
      /\ referralRate \in 0..One /\ referralRate \in Nat
      /\ HasReferrer(o) \in BOOLEAN
  BY OneAssumption DEF TypeOK, Reserves, ReserveConfigs, HasReferrer
<1> QED BY <1>1, FeesFacts DEF BorrowFees

\* The tokens that leave the vault are those that leave available_amount: the
\* debt's, but for the referrer's fee.
LEMMA BorrowStep ==
  ASSUME IInv, IsCurrent, NEW o \in Obligations, NEW debt \in Nat, NEW received \in Int,
         NEW amount \in Nat, NEW exclusive \in BOOLEAN,
         NEW fees, fees = BorrowFees(reserve, amount, exclusive, o),
         Borrow(o, debt, received, fees),
         received = ToFloor(debt) - fees.protocol - fees.referrer
  PROVE  StepOK
<1> DEFINE cap  == AddToAccum(reserve.debtCap, ToCeil(debt), clock.timestamp)
           capped == [reserve EXCEPT !.debtCap = cap]
           borrowed == MarkStale(LiquidityBorrowed(capped, debt))
           credited == HasReferrer(o) /\ referralRate > 0
<1>1. /\ reserve \in Reserves /\ reserve.config.borrowFee \in Nat
      /\ reserve.available \in Nat
      /\ clock.timestamp \in Nat
      /\ referralRate \in 0..One /\ referralRate \in Nat
      /\ HasReferrer(o) \in BOOLEAN
      /\ obligations[o] \in ObligationStates
      /\ vault = reserve.available
  BY OneAssumption
     DEF IInv, TypeOK, Reserves, ReserveConfigs, HasReferrer, VaultBacksAvailable
<1>2. /\ fees.protocol \in Nat
      /\ fees.referrer \in Nat
      /\ ~credited => fees.referrer = 0
  BY BorrowFeesType DEF IInv
<1>3. /\ ToFloor(debt) <= reserve.available
      /\ reserve' = IF credited THEN ReferrerPaid(borrowed, fees.referrer) ELSE borrowed
      /\ vault' = vault - fees.protocol - received
      /\ received = ToFloor(debt) - fees.protocol - fees.referrer
      /\ unclaimed' = IF credited
                      THEN ReferrerCredited(ReferrerOf[o], FromNum(fees.referrer))
                      ELSE unclaimed
      /\ circulating' = circulating
  BY DEF Borrow, Commit
<1>4. Grows(reserve, capped) /\ capped.available = reserve.available
  <2>1. ToCeil(debt) \in Nat BY FloorCeil
  <2>2. cap \in Caps BY <1>1, <2>1, CapTypes DEF Reserves
  <2> HIDE DEF cap
  <2> QED BY <1>1, <2>2, TotalSupplyType DEF Grows, Reserves, TotalSupply
<1> HIDE DEF capped
<1>5. /\ Grows(reserve, borrowed)
      /\ borrowed.available = reserve.available - ToFloor(debt)
      /\ borrowed.stale
  <2>1. /\ Grows(capped, LiquidityBorrowed(capped, debt))
        /\ LiquidityBorrowed(capped, debt).available = capped.available - ToFloor(debt)
    BY <1>3, <1>4, LiquidityBorrowedFacts DEF Grows
  <2>2. Grows(reserve, LiquidityBorrowed(capped, debt))
    BY <1>1, <1>4, <2>1, GrowsTransitive
  <2> QED BY <1>1, <1>4, <2>1, <2>2, StaleGrowth
<1> HIDE DEF borrowed
<1>6. /\ Grows(reserve, reserve')
      /\ reserve'.available = reserve.available - ToFloor(debt) + fees.referrer
  <2>1. ToFloor(debt) \in Nat BY FloorCeil
  <2>2. CASE credited
    <3>1. /\ Grows(borrowed, reserve')
          /\ reserve'.available = borrowed.available + fees.referrer
      BY <1>2, <1>3, <1>5, <2>2, ReferrerPaidFacts DEF Grows
    <3> QED BY <1>1, <1>5, <3>1, GrowsTransitive
  <2>3. CASE ~credited BY <1>1, <1>2, <1>3, <1>5, <2>1, <2>3
  <2> QED BY <2>2, <2>3
<1>7. vault' = reserve'.available
  <2>1. ToFloor(debt) \in Nat BY FloorCeil
  <2> QED BY <1>1, <1>2, <1>3, <1>6, <2>1
<1>8. OthersTyped'
  <2> DEFINE position == [obligations[o] EXCEPT
                 !.borrowed = @ + debt,
                 !.rate = IF HasDebt(o) THEN @ ELSE reserve.cumulativeBorrowRate,
                 !.stale = TRUE]
  <2>1. obligations' = [obligations EXCEPT ![o] = position] BY DEF Borrow
  <2>2. /\ obligations[o].borrowed + debt \in Nat
        /\ obligations[o].rate \in Nat
        /\ reserve.cumulativeBorrowRate \in Nat
    BY <1>1 DEF ObligationStates, Reserves
  <2>3. position \in ObligationStates BY <1>1, <2>2 DEF ObligationStates
  <2> HIDE DEF position
  <2>4. obligations' \in [Obligations -> ObligationStates]
    BY <2>1, <2>3, ObligationUpdated DEF IInv
  <2>5. unclaimed' \in [Referrers -> Nat]
    <3>1. ReferrerOf[o] \in Referrers \cup {NoReferrer} BY ReserveAssumption
    <3>2. FromNum(fees.referrer) \in Nat BY <1>2, FromNumType
    <3>3. unclaimed \in [Referrers -> Nat] BY DEF IInv, TypeOK
    <3> QED BY <1>3, <3>1, <3>2, <3>3, ReferrerCreditedType DEF IInv
  <2> QED BY <2>4, <2>5 DEF Borrow, OthersTyped, IInv, TypeOK
<1> QED BY <1>3, <1>6, <1>7, <1>8, GrowthStep

LEMMA BorrowObligationLiquidityStep ==
  ASSUME IInv, NEW o \in Obligations, NEW amount \in Amounts,
         BorrowObligationLiquidity(o, amount)
  PROVE  StepOK
<1> DEFINE fees == BorrowFees(reserve, FromNum(amount), TRUE, o)
           total == amount + fees.protocol + fees.referrer
<1>1. amount \in Nat /\ FromNum(amount) \in Nat BY ReserveAssumption, FromNumType
<1>2. IsCurrent /\ Borrow(o, FromNum(total), amount, fees)
  BY DEF BorrowObligationLiquidity, CanBorrow
<1>3. fees.protocol \in Nat /\ fees.referrer \in Nat
  BY <1>1, BorrowFeesType DEF IInv
<1> HIDE DEF fees
<1>4. total \in Nat BY <1>1, <1>3
<1>5. FromNum(total) \in Nat /\ ToFloor(FromNum(total)) = total BY <1>4, FromNumType
<1>6. amount = ToFloor(FromNum(total)) - fees.protocol - fees.referrer
  BY <1>1, <1>3, <1>5
<1> HIDE DEF total
<1>7. fees = BorrowFees(reserve, FromNum(amount), TRUE, o) BY DEF fees
<1> HIDE DEF fees
<1>8. amount \in Int /\ TRUE \in BOOLEAN BY <1>1
<1> QED BY <1>1, <1>2, <1>5, <1>6, <1>7, <1>8, BorrowStep

LEMMA BorrowMaxObligationLiquidityStep ==
  ASSUME IInv, NEW o \in Obligations, BorrowMaxObligationLiquidity(o)
  PROVE  StepOK
<1>1. PICK power \in BorrowingPowers :
        LET debt == Smaller(Smaller(power, RemainingCapacity(reserve)),
                            FromNum(reserve.available))
            fees == BorrowFees(reserve, debt, FALSE, o)
        IN Borrow(o, debt, ToFloor(debt) - fees.protocol - fees.referrer, fees)
  BY DEF BorrowMaxObligationLiquidity
<1> DEFINE debt == Smaller(Smaller(power, RemainingCapacity(reserve)),
                           FromNum(reserve.available))
           fees == BorrowFees(reserve, debt, FALSE, o)
<1>2. debt \in Nat
  <2>1. /\ power \in Nat
        /\ reserve.available \in Nat /\ reserve.borrowed \in Nat
        /\ reserve.config.borrowLimit \in Nat
    BY ReserveAssumption DEF IInv, TypeOK, Reserves, ReserveConfigs
  <2>2. FromNum(reserve.available) \in Nat /\ FromNum(reserve.config.borrowLimit) \in Nat
    BY <2>1, FromNumType
  <2>3. RemainingCapacity(reserve) \in Nat BY <2>1, <2>2 DEF RemainingCapacity, Larger
  <2> QED BY <2>1, <2>2, <2>3 DEF Smaller
<1> HIDE DEF debt
<1>3. fees.protocol \in Nat /\ fees.referrer \in Nat BY <1>2, BorrowFeesType DEF IInv
<1>4. ToFloor(debt) \in Nat BY <1>2, FloorCeil
<1>5. IsCurrent BY DEF BorrowMaxObligationLiquidity, CanBorrow
<1>6. Borrow(o, debt, ToFloor(debt) - fees.protocol - fees.referrer, fees)
  BY <1>1 DEF debt
<1> HIDE DEF fees
<1>7. ToFloor(debt) - fees.protocol - fees.referrer \in Int BY <1>3, <1>4
<1>8. fees = BorrowFees(reserve, debt, FALSE, o) BY DEF fees
<1> QED BY <1>2, <1>5, <1>6, <1>7, <1>8, BorrowStep

\* Any repayment collects at least what it settles.
LEMMA SettleDebtStep ==
  ASSUME IInv, NEW o \in Obligations, NEW position \in ObligationStates,
         NEW r, Grows(reserve, r), r.available = reserve.available,
         NEW settle \in Nat, settle <= position.borrowed,
         SettleDebt(o, position, r, settle),
         UNCHANGED <<clock, referralRate, circulating, unclaimed, flashLoan>>
  PROVE  StepOK
<1> DEFINE s == LiquidityRepaid(r, ToCeil(settle), settle)
<1>1. /\ reserve \in Reserves /\ reserve.available \in Nat
      /\ vault = reserve.available
  BY DEF IInv, TypeOK, Reserves, VaultBacksAvailable
<1>2. ToCeil(settle) \in Nat /\ settle <= FromNum(ToCeil(settle))
  <2>1. ToCeil(settle) \in Nat /\ FromNum(ToCeil(settle)) >= settle BY FloorCeil
  <2>2. FromNum(ToCeil(settle)) \in Nat BY <2>1, FromNumType
  <2> QED BY <2>1, <2>2
<1>3. Grows(r, s) /\ s.available = r.available + ToCeil(settle)
  BY <1>2, LiquidityRepaidFacts DEF Grows
<1> HIDE DEF s
<1>4. Grows(reserve, s) BY <1>1, <1>3, GrowsTransitive
<1>5. reserve' = MarkStale(s) /\ vault' = vault + ToCeil(settle)
  BY DEF SettleDebt, Commit, s
<1>6. Grows(reserve, reserve') /\ reserve'.available = s.available /\ reserve'.stale
  BY <1>1, <1>4, <1>5, StaleGrowth
<1>7. OthersTyped'
  <2>1. [PositionRepaid(position, settle) EXCEPT !.stale = TRUE] \in ObligationStates
    BY PositionRepaidType
  <2>2. obligations' \in [Obligations -> ObligationStates]
    BY <2>1, ObligationUpdated DEF SettleDebt, IInv
  <2> QED BY <2>2 DEF OthersTyped, IInv, TypeOK
<1>8. vault' = reserve'.available BY <1>1, <1>2, <1>3, <1>5, <1>6
<1> QED BY <1>6, <1>7, <1>8, GrowthStep

LEMMA RepayObligationLiquidityStep ==
  ASSUME IInv, NEW o \in Obligations, NEW amount \in Amounts,
         RepayObligationLiquidity(o, amount)
  PROVE  StepOK
<1> DEFINE position == Accrued(obligations[o], reserve.cumulativeBorrowRate)
           capped(settle) == [reserve EXCEPT
             !.debtCap = SubFromAccum(@, ToCeil(settle), clock.timestamp)]
<1>1. PICK settle \in SettleAmounts(position, amount) :
        SettleDebt(o, position, capped(settle), settle)
  BY DEF RepayObligationLiquidity
<1>2. /\ reserve \in Reserves /\ reserve.cumulativeBorrowRate \in Nat
      /\ obligations[o] \in ObligationStates
      /\ clock.timestamp \in Nat
  BY DEF IInv, TypeOK, Reserves
<1>3. position \in ObligationStates
  BY <1>2, AccruedType DEF RepayObligationLiquidity, HasDebt
<1> HIDE DEF position
<1>4. settle \in Nat /\ settle <= position.borrowed
  <2>1. /\ position.borrowed \in Nat /\ amount \in Nat
        /\ FromNum(amount) \in Nat
    BY <1>3, ReserveAssumption, FromNumType DEF ObligationStates
  <2> QED BY <2>1 DEF SettleAmounts, Smaller
<1>5. Grows(reserve, capped(settle)) /\ capped(settle).available = reserve.available
  <2> DEFINE cap == SubFromAccum(reserve.debtCap, ToCeil(settle), clock.timestamp)
  <2>1. ToCeil(settle) \in Nat BY <1>4, FloorCeil
  <2>2. cap \in Caps BY <1>2, <2>1, CapTypes DEF Reserves
  <2>3. capped(settle) = [reserve EXCEPT !.debtCap = cap] BY <1>2 DEF Reserves
  <2> HIDE DEF cap, capped
  <2> QED BY <1>2, <2>2, <2>3, TotalSupplyType DEF Grows, Reserves, TotalSupply
<1> HIDE DEF capped
<1>6. UNCHANGED <<clock, referralRate, circulating, unclaimed, flashLoan>>
  BY DEF RepayObligationLiquidity
<1> QED BY <1>1, <1>3, <1>4, <1>5, <1>6, SettleDebtStep

LEMMA LiquidateDebtStep ==
  ASSUME IInv, NEW o \in Obligations, LiquidateDebt(o)
  PROVE  StepOK
<1>1. PICK settle \in 1..obligations[o].borrowed :
        SettleDebt(o, obligations[o], reserve, settle)
  BY DEF LiquidateDebt
<1>2. reserve \in Reserves /\ obligations[o] \in ObligationStates
      /\ obligations[o].borrowed \in Nat
  BY DEF IInv, TypeOK, ObligationStates
<1>3. settle \in Nat /\ settle <= obligations[o].borrowed BY <1>2
<1>4. Grows(reserve, reserve) BY <1>2, TotalSupplyType DEF Grows
<1>5. UNCHANGED <<clock, referralRate, circulating, unclaimed, flashLoan>>
  BY DEF LiquidateDebt
<1> QED BY <1>1, <1>2, <1>3, <1>4, <1>5, SettleDebtStep
-------------------------------------------------------------------------------
(* Liquidations. *)

\* What a liquidator redeems is at most what users hold.
LEMMA SeizeExchanges ==
  ASSUME IInv, NEW r \in Reserves, TotalSupply(r) > 0,
         r.mintTotalSupply = InitialDeposit + circulating, r.available <= MaxU64,
         NEW collateral \in Nat, Seize(r, collateral)
  PROVE  /\ Exchanges(r, reserve')
         /\ SeizedLiquidity(r, collateral) \in Nat
         /\ reserve'.available = r.available - SeizedLiquidity(r, collateral)
         /\ circulating - RedeemableOf(r, collateral) \in Nat
         /\ reserve'.mintTotalSupply
              = InitialDeposit + (circulating - RedeemableOf(r, collateral))
<1> DEFINE redeemed == RedeemableOf(r, collateral)
<1>1. /\ circulating \in Nat /\ r.available \in Nat /\ r.mintTotalSupply \in Nat
      /\ TotalSupply(r) \in Int
      /\ InitialDeposit \in Nat \ {0}
  BY TotalSupplyType, ReserveAssumption, WidthAssumption DEF IInv, TypeOK, Reserves
<1>2. redeemed \in Nat /\ redeemed <= collateral
  <2>1. LiquidityToCollateral(ExchangeRate(r), r.available) \in Nat
    BY <1>1, ExchangeRateType, LiquidityToCollateralType
  <2> QED BY <2>1 DEF RedeemableOf, Smaller
<1>3. collateral <= circulating BY DEF Seize
<1>4. redeemed <= circulating BY <1>1, <1>2, <1>3
<1>5. CASE redeemed = 0
  <2>1. reserve' = r /\ SeizedLiquidity(r, collateral) = 0
    BY <1>5 DEF Seize, Commit, SeizedLiquidity
  <2>2. Trades(r, r)
    <3>1. FromNum(0) = 0 /\ One \in Nat \ {0} BY OneAssumption DEF FromNum
    <3>2. r.mintTotalSupply \in Nat \ {0} BY <1>1
    <3>3. One * r.mintTotalSupply > 0 BY <3>1, <3>2
    <3>4. r.mintTotalSupply - r.mintTotalSupply = 0 /\ TotalSupply(r) - 0 = TotalSupply(r)
      BY <1>1
    <3>5. Buys(r, r, 0) BY <1>1, <3>1, <3>3, <3>4 DEF Buys
    <3> QED BY <3>5, WidthAssumption DEF Trades
  <2>3. Exchanges(r, reserve') BY <2>1, <2>2 DEF Exchanges
  <2>4. reserve'.available = r.available - 0 BY <1>1, <2>1
  <2>5. circulating - 0 \in Nat /\ reserve'.mintTotalSupply = InitialDeposit + (circulating - 0)
    BY <1>1, <2>1
  <2> QED BY <1>5, <2>1, <2>3, <2>4, <2>5
<1>6. CASE redeemed # 0
  <2>1. CanRedeem(r, redeemed) /\ reserve' = Redeemed(r, redeemed)
    BY <1>6 DEF Seize, Commit
  <2>2. SeizedLiquidity(r, collateral) = LiquidityRedeemed(r, redeemed)
    BY <1>6 DEF SeizedLiquidity
  <2> HIDE DEF redeemed
  <2>3. /\ Exchanges(r, Redeemed(r, redeemed))
        /\ Redeemed(r, redeemed).available = r.available - LiquidityRedeemed(r, redeemed)
        /\ Redeemed(r, redeemed).mintTotalSupply
             = InitialDeposit + (circulating - redeemed)
        /\ circulating - redeemed \in Nat
        /\ LiquidityRedeemed(r, redeemed) \in Nat
    BY <1>2, <1>4, <2>1, RedemptionExchanges
  <2> QED BY <2>1, <2>2, <2>3 DEF redeemed
<1> QED BY <1>5, <1>6

LEMMA LiquidateCollateralStep ==
  ASSUME IInv, NEW o \in Obligations, NEW collateral \in Amounts,
         LiquidateCollateral(o, collateral)
  PROVE  StepOK
<1>1. collateral \in Nat /\ reserve \in Reserves BY ReserveAssumption DEF IInv, TypeOK
<1>2. IsCurrent BY DEF LiquidateCollateral, CanLiquidate
<1>3. PICK r \in InternalRefreshes(reserve) :
         /\ Seize(r, collateral)
         /\ circulating' = circulating - RedeemableOf(r, collateral)
         /\ vault' = vault - SeizedLiquidity(r, collateral)
  BY DEF LiquidateCollateral
<1>4. /\ Grows(reserve, r) /\ r \in Reserves
      /\ r.available = vault
      /\ r.mintTotalSupply = InitialDeposit + circulating
      /\ r.available <= MaxU64
      /\ TotalSupply(r) > 0
  BY <1>2, RefreshedWithin
<1>5. /\ Exchanges(r, reserve')
      /\ reserve'.available = r.available - SeizedLiquidity(r, collateral)
      /\ circulating - RedeemableOf(r, collateral) \in Nat
      /\ reserve'.mintTotalSupply
           = InitialDeposit + (circulating - RedeemableOf(r, collateral))
  BY <1>1, <1>3, <1>4, SeizeExchanges
<1>6. Exchanges(reserve, reserve') BY <1>1, <1>4, <1>5, GrowthThenExchange
<1>7. OthersTyped'
  <2>1. obligations' \in [Obligations -> ObligationStates]
    BY ObligationUpdated DEF LiquidateCollateral, IInv
  <2> QED BY <2>1 DEF LiquidateCollateral, OthersTyped, IInv, TypeOK
<1> QED BY <1>2, <1>3, <1>4, <1>5, <1>6, <1>7, ExchangeStep

LEMMA LiquidateWithinReserveStep ==
  ASSUME IInv, NEW o \in Obligations, NEW collateral \in Amounts,
         LiquidateWithinReserve(o, collateral)
  PROVE  StepOK
<1> DEFINE repaid(settle) == LiquidityRepaid(reserve, ToCeil(settle), settle)
<1>1. /\ collateral \in Nat /\ reserve \in Reserves
      /\ obligations[o] \in ObligationStates /\ obligations[o].borrowed \in Nat
      /\ reserve.available \in Nat
  BY ReserveAssumption DEF IInv, TypeOK, ObligationStates, Reserves
<1>2. /\ IsCurrent
      /\ vault = reserve.available
      /\ reserve.mintTotalSupply = InitialDeposit + circulating
      /\ TotalSupply(reserve) > 0
  BY DEF LiquidateWithinReserve, CanLiquidate, IInv, VaultBacksAvailable, SharesBacked,
         Solvent
<1>0. PICK settle \in 1..obligations[o].borrowed :
        /\ reserve.available + ToCeil(settle) <= MaxU64
        /\ \E r \in InternalRefreshes(MarkStale(repaid(settle))) :
             /\ Seize(r, collateral)
             /\ circulating' = circulating - RedeemableOf(r, collateral)
             /\ vault' = vault + ToCeil(settle) - SeizedLiquidity(r, collateral)
             /\ obligations' = [obligations EXCEPT ![o] =
                  [PositionRepaid(obligations[o], settle) EXCEPT !.stale = TRUE]]
  BY DEF LiquidateWithinReserve
<1>3. PICK r \in InternalRefreshes(MarkStale(repaid(settle))) :
         /\ Seize(r, collateral)
         /\ circulating' = circulating - RedeemableOf(r, collateral)
         /\ vault' = vault + ToCeil(settle) - SeizedLiquidity(r, collateral)
         /\ obligations' = [obligations EXCEPT ![o] =
              [PositionRepaid(obligations[o], settle) EXCEPT !.stale = TRUE]]
  BY <1>0
<1>4. settle \in Nat /\ settle <= obligations[o].borrowed BY <1>1
<1>5. ToCeil(settle) \in Nat /\ settle <= FromNum(ToCeil(settle))
  <2>1. ToCeil(settle) \in Nat /\ FromNum(ToCeil(settle)) >= settle BY <1>4, FloorCeil
  <2>2. FromNum(ToCeil(settle)) \in Nat BY <2>1, FromNumType
  <2> QED BY <1>4, <2>1, <2>2
<1>6. Grows(reserve, repaid(settle))
      /\ repaid(settle).available = reserve.available + ToCeil(settle)
  BY <1>1, <1>4, <1>5, LiquidityRepaidFacts
<1> HIDE DEF repaid
<1>7. /\ Grows(reserve, MarkStale(repaid(settle)))
      /\ MarkStale(repaid(settle)).available = reserve.available + ToCeil(settle)
  BY <1>1, <1>6, StaleGrowth
<1>8. /\ Grows(MarkStale(repaid(settle)), r)
      /\ r.available = reserve.available + ToCeil(settle)
  <2>1. MarkStale(repaid(settle)) \in Reserves BY <1>7 DEF Grows
  <2> QED BY <1>3, <1>7, <2>1, InternalRefreshesFacts DEF IInv
<1>9. Grows(reserve, r) BY <1>1, <1>7, <1>8, GrowsTransitive
<1>10. /\ r \in Reserves
       /\ r.mintTotalSupply = InitialDeposit + circulating
       /\ TotalSupply(r) > 0
  <2>1. r \in Reserves BY <1>9 DEF Grows
  <2>2. TotalSupply(r) \in Int /\ TotalSupply(reserve) \in Int
    BY <1>1, <2>1, TotalSupplyType
  <2> QED BY <1>2, <1>9, <2>1, <2>2 DEF Grows
<1>11. /\ Exchanges(r, reserve')
       /\ SeizedLiquidity(r, collateral) \in Nat
       /\ reserve'.available = r.available - SeizedLiquidity(r, collateral)
       /\ circulating - RedeemableOf(r, collateral) \in Nat
       /\ reserve'.mintTotalSupply
            = InitialDeposit + (circulating - RedeemableOf(r, collateral))
  BY <1>0, <1>1, <1>3, <1>8, <1>10, SeizeExchanges
<1>12. Exchanges(reserve, reserve') BY <1>1, <1>9, <1>11, GrowthThenExchange
<1>13. OthersTyped'
  <2>1. [PositionRepaid(obligations[o], settle) EXCEPT !.stale = TRUE] \in ObligationStates
    BY <1>1, <1>4, PositionRepaidType
  <2>2. obligations' \in [Obligations -> ObligationStates]
    BY <1>3, <2>1, ObligationUpdated DEF IInv
  <2> QED BY <2>2 DEF LiquidateWithinReserve, OthersTyped, IInv, TypeOK
<1>14. vault' = reserve'.available BY <1>1, <1>2, <1>3, <1>5, <1>8, <1>11
<1> QED BY <1>2, <1>3, <1>11, <1>12, <1>13, <1>14, ExchangeStep

-------------------------------------------------------------------------------
(* Fees. *)

\* Whole tokens of a claim leave the reserve together with the claim.
LEMMA ClaimPaid ==
  ASSUME NEW r \in Reserves, NEW amount \in Nat, amount <= r.available,
         NEW s,
         \/ /\ FromNum(amount) <= r.protocolFees
            /\ s = [r EXCEPT !.available = @ - amount, !.protocolFees = @ - FromNum(amount)]
         \/ /\ FromNum(amount) <= r.referrerFees
            /\ s = [r EXCEPT !.available = @ - amount, !.referrerFees = @ - FromNum(amount)]
  PROVE  Grows(r, s) /\ s.available = r.available - amount
<1>1. /\ r.available \in Nat /\ r.protocolFees \in Nat /\ r.referrerFees \in Nat
      /\ r.borrowed \in Nat /\ r.pendingReferrerFees \in Nat
      /\ FromNum(amount) \in Nat /\ FromNum(r.available) \in Nat
  BY FromNumType DEF Reserves
<1>2. r.available - amount \in Nat BY <1>1
<1>3. FromNum(r.available - amount) = FromNum(r.available) - FromNum(amount)
  BY <1>1, OneAssumption DEF FromNum
<1>4. CASE /\ FromNum(amount) <= r.protocolFees
           /\ s = [r EXCEPT !.available = @ - amount, !.protocolFees = @ - FromNum(amount)]
  <2>1. r.protocolFees - FromNum(amount) \in Nat BY <1>1, <1>4
  <2>2. s = [r EXCEPT !.available = r.available - amount,
                      !.protocolFees = r.protocolFees - FromNum(amount)]
    BY <1>4 DEF Reserves
  <2>3. s \in Reserves BY <1>2, <2>1, <2>2 DEF Reserves
  <2>4. /\ s.version = r.version
        /\ s.mintTotalSupply = r.mintTotalSupply
        /\ s.available = r.available - amount
        /\ s.borrowed = r.borrowed
        /\ s.protocolFees = r.protocolFees - FromNum(amount)
        /\ s.referrerFees = r.referrerFees
        /\ s.pendingReferrerFees = r.pendingReferrerFees
    BY <2>2 DEF Reserves
  <2>5. TotalSupply(s) = TotalSupply(r) BY <1>1, <1>3, <2>4 DEF TotalSupply
  <2> QED BY <2>3, <2>4, <2>5, TotalSupplyType DEF Grows
<1>5. CASE /\ FromNum(amount) <= r.referrerFees
           /\ s = [r EXCEPT !.available = @ - amount, !.referrerFees = @ - FromNum(amount)]
  <2>1. r.referrerFees - FromNum(amount) \in Nat BY <1>1, <1>5
  <2>2. s = [r EXCEPT !.available = r.available - amount,
                      !.referrerFees = r.referrerFees - FromNum(amount)]
    BY <1>5 DEF Reserves
  <2>3. s \in Reserves BY <1>2, <2>1, <2>2 DEF Reserves
  <2>4. /\ s.version = r.version
        /\ s.mintTotalSupply = r.mintTotalSupply
        /\ s.available = r.available - amount
        /\ s.borrowed = r.borrowed
        /\ s.protocolFees = r.protocolFees
        /\ s.referrerFees = r.referrerFees - FromNum(amount)
        /\ s.pendingReferrerFees = r.pendingReferrerFees
    BY <2>2 DEF Reserves
  <2>5. TotalSupply(s) = TotalSupply(r) BY <1>1, <1>3, <2>4 DEF TotalSupply
  <2> QED BY <2>3, <2>4, <2>5, TotalSupplyType DEF Grows
<1> QED BY <1>4, <1>5

LEMMA RedeemFeesStep ==
  ASSUME IInv, RedeemFees
  PROVE  StepOK
<1> DEFINE owed   == ToFloor(reserve.protocolFees)
           amount == Smaller(reserve.available, owed)
           s == [reserve EXCEPT !.available = @ - amount, !.protocolFees = @ - FromNum(amount)]
<1>1. /\ reserve \in Reserves /\ reserve.available \in Nat /\ reserve.protocolFees \in Nat
      /\ vault = reserve.available
  BY DEF IInv, TypeOK, Reserves, VaultBacksAvailable
<1>2. owed \in Nat /\ FromNum(owed) <= reserve.protocolFees BY <1>1, FloorCeil
<1>3. reserve' = MarkStale(s) /\ vault' = vault - amount /\ circulating' = circulating
  BY DEF RedeemFees, Commit
<1> HIDE DEF owed
<1>4. /\ amount \in Nat /\ amount <= reserve.available /\ amount <= owed
  BY <1>1, <1>2 DEF Smaller
<1> HIDE DEF amount
<1>5. FromNum(amount) <= reserve.protocolFees
  <2>1. FromNum(amount) <= FromNum(owed)
    BY <1>2, <1>4, OneAssumption DEF FromNum
  <2>2. FromNum(amount) \in Nat /\ FromNum(owed) \in Nat BY <1>2, <1>4, FromNumType
  <2> QED BY <1>1, <1>2, <2>1, <2>2
<1>6. Grows(reserve, s) /\ s.available = reserve.available - amount
  BY <1>1, <1>4, <1>5, ClaimPaid
<1> HIDE DEF s
<1>7. /\ Grows(reserve, reserve')
      /\ reserve'.available = reserve.available - amount
      /\ reserve'.stale
  BY <1>1, <1>3, <1>6, StaleGrowth
<1>8. OthersTyped' BY DEF RedeemFees, OthersTyped, IInv, TypeOK
<1> QED BY <1>1, <1>3, <1>7, <1>8, GrowthStep

LEMMA WithdrawReferrerFeesStep ==
  ASSUME IInv, NEW referrer \in Referrers, WithdrawReferrerFees(referrer)
  PROVE  StepOK
<1> DEFINE claim  == Smaller(unclaimed[referrer], reserve.referrerFees)
           owed   == ToFloor(claim)
           amount == Smaller(owed, reserve.available)
           s == [reserve EXCEPT !.available = @ - amount, !.referrerFees = @ - FromNum(amount)]
<1>1. /\ reserve \in Reserves /\ reserve.available \in Nat /\ reserve.referrerFees \in Nat
      /\ vault = reserve.available
      /\ unclaimed \in [Referrers -> Nat]
  BY DEF IInv, TypeOK, Reserves, VaultBacksAvailable
<1>2. claim \in Nat /\ claim <= unclaimed[referrer] /\ claim <= reserve.referrerFees
  BY <1>1 DEF Smaller
<1>3. /\ reserve' = MarkStale(s)
      /\ vault' = vault - amount
      /\ circulating' = circulating
      /\ unclaimed' = [unclaimed EXCEPT ![referrer] = @ - FromNum(amount)]
  BY DEF WithdrawReferrerFees, Commit
<1> HIDE DEF claim
<1>4. owed \in Nat /\ FromNum(owed) <= claim BY <1>2, FloorCeil
<1> HIDE DEF owed
<1>5. amount \in Nat /\ amount <= reserve.available /\ amount <= owed
  BY <1>1, <1>4 DEF Smaller
<1> HIDE DEF amount
<1>6. /\ FromNum(amount) \in Nat
      /\ FromNum(amount) <= reserve.referrerFees
      /\ FromNum(amount) <= unclaimed[referrer]
  <2>1. FromNum(amount) <= FromNum(owed)
    BY <1>4, <1>5, OneAssumption DEF FromNum
  <2>2. FromNum(amount) \in Nat /\ FromNum(owed) \in Nat BY <1>4, <1>5, FromNumType
  <2> QED BY <1>1, <1>2, <1>4, <2>1, <2>2
<1>7. Grows(reserve, s) /\ s.available = reserve.available - amount
  BY <1>1, <1>5, <1>6, ClaimPaid
<1> HIDE DEF s
<1>8. /\ Grows(reserve, reserve')
      /\ reserve'.available = reserve.available - amount
      /\ reserve'.stale
  BY <1>1, <1>3, <1>7, StaleGrowth
<1>9. OthersTyped'
  <2>1. unclaimed[referrer] - FromNum(amount) \in Nat BY <1>1, <1>6
  <2>2. unclaimed' \in [Referrers -> Nat] BY <1>1, <1>3, <2>1
  <2> QED BY <2>2 DEF WithdrawReferrerFees, OthersTyped, IInv, TypeOK
<1> QED BY <1>1, <1>3, <1>8, <1>9, GrowthStep
-------------------------------------------------------------------------------
(* Flash loans. *)

LEMMA FlashBorrowReserveLiquidityStep ==
  ASSUME IInv, NEW amount \in Amounts, FlashBorrowReserveLiquidity(amount)
  PROVE  StepOK
<1>1. amount \in Nat /\ reserve \in Reserves BY ReserveAssumption DEF IInv, TypeOK
<1>2. PICK r \in InternalRefreshes(reserve) :
        /\ amount <= r.available
        /\ reserve' = MarkStale(LiquidityBorrowed(r, FromNum(amount)))
  BY DEF FlashBorrowReserveLiquidity, Commit
<1>3. /\ Grows(reserve, r) /\ r \in Reserves
      /\ r.available = vault
  BY RefreshedWithin
<1>4. FromNum(amount) \in Nat /\ ToFloor(FromNum(amount)) = amount BY <1>1, FromNumType
<1> DEFINE s == LiquidityBorrowed(r, FromNum(amount))
<1>5. Grows(r, s) /\ s.available = r.available - amount
  BY <1>2, <1>3, <1>4, LiquidityBorrowedFacts
<1> HIDE DEF s
<1>6. Grows(reserve, s) BY <1>1, <1>3, <1>5, GrowsTransitive
<1>7. reserve' = MarkStale(s) BY <1>2 DEF s
<1>8. Grows(reserve, reserve') /\ reserve'.available = s.available
  BY <1>1, <1>6, <1>7, StaleGrowth
<1>9. IsCurrent /\ vault' = vault - amount /\ circulating' = circulating
  BY DEF FlashBorrowReserveLiquidity
<1>10. OthersTyped' BY <1>1 DEF FlashBorrowReserveLiquidity, OthersTyped, IInv, TypeOK
<1> QED BY <1>3, <1>5, <1>8, <1>9, <1>10, GrowthStep

LEMMA FlashRepayReserveLiquidityStep ==
  ASSUME IInv, NEW referrer \in Referrers \cup {NoReferrer},
         FlashRepayReserveLiquidity(referrer)
  PROVE  StepOK
<1> DEFINE amount   == flashLoan
           rate     == reserve.config.flashLoanFee
           fees     == Fees(FromNum(amount), rate, TRUE, referralRate, referrer # NoReferrer)
           paidBack == LiquidityRepaid(reserve, amount, FromNum(amount))
           repaid   == MarkStale(LimitTimestampsRefreshed(paidBack, clock.timestamp))
           credited == referrer # NoReferrer /\ referralRate > 0
<1>1. /\ amount \in Nat /\ FromNum(amount) \in Nat
      /\ reserve \in Reserves /\ reserve.available \in Nat
      /\ clock.timestamp \in Nat
      /\ referralRate \in 0..One /\ referralRate \in Nat
      /\ rate \in Nat \cup {FlashLoansDisabled}
      /\ vault = reserve.available
  BY OneAssumption, FromNumType
     DEF IInv, TypeOK, Reserves, ReserveConfigs, VaultBacksAvailable
<1>2. /\ fees.protocol \in Nat
      /\ fees.referrer \in Nat
      /\ ~credited => fees.referrer = 0
  <2>1. rate \in Nat BY <1>1 DEF FlashRepayReserveLiquidity
  <2>2. (referrer # NoReferrer) \in BOOLEAN /\ TRUE \in BOOLEAN OBVIOUS
  <2> HIDE DEF rate
  <2>3. /\ fees.protocol \in Nat
        /\ fees.referrer \in Nat
        /\ ~(referrer # NoReferrer) \/ referralRate = 0 => fees.referrer = 0
    BY <1>1, <2>1, <2>2, FeesFacts
  <2> HIDE DEF fees
  <2>4. ~credited => ~(referrer # NoReferrer) \/ referralRate = 0 BY <1>1
  <2> QED BY <2>3, <2>4
<1>3. /\ reserve' = IF credited THEN ReferrerPaid(repaid, fees.referrer) ELSE repaid
      /\ unclaimed' = IF credited
                      THEN ReferrerCredited(referrer, FromNum(fees.referrer))
                      ELSE unclaimed
      /\ vault' = vault + amount + fees.referrer
      /\ circulating' = circulating
  BY DEF FlashRepayReserveLiquidity, Commit
<1> HIDE DEF fees
<1>4. Grows(reserve, paidBack) /\ paidBack.available = reserve.available + amount
  BY <1>1, LiquidityRepaidFacts
<1> HIDE DEF paidBack
<1>5. /\ Grows(reserve, repaid)
      /\ repaid.available = reserve.available + amount
      /\ repaid.stale
  <2> DEFINE t == LimitTimestampsRefreshed(paidBack, clock.timestamp)
  <2>1. Grows(reserve, t) /\ t.available = paidBack.available
    BY <1>1, <1>4, TimestampedGrowth
  <2> HIDE DEF t
  <2>2. /\ Grows(reserve, MarkStale(t)) /\ MarkStale(t).available = t.available
        /\ MarkStale(t).stale
    BY <1>1, <2>1, StaleGrowth
  <2> QED BY <1>4, <2>1, <2>2 DEF t
<1> HIDE DEF repaid
<1>6. /\ Grows(reserve, reserve')
      /\ reserve'.available = reserve.available + amount + fees.referrer
      /\ reserve'.stale
  <2>1. CASE credited
    <3>1. /\ Grows(repaid, reserve')
          /\ reserve'.available = repaid.available + fees.referrer
          /\ reserve'.stale = repaid.stale
      BY <1>2, <1>3, <1>5, <2>1, ReferrerPaidFacts DEF Grows
    <3> QED BY <1>1, <1>5, <3>1, GrowsTransitive
  <2>2. CASE ~credited
    <3>1. reserve' = repaid /\ fees.referrer = 0 BY <1>2, <1>3, <2>2
    <3>2. reserve.available + amount = reserve.available + amount + 0 BY <1>1
    <3> QED BY <1>5, <3>1, <3>2
  <2> QED BY <2>1, <2>2
<1>7. OthersTyped'
  <2>1. FromNum(fees.referrer) \in Nat BY <1>2, FromNumType
  <2>2. unclaimed \in [Referrers -> Nat] BY DEF IInv, TypeOK
  <2>3. unclaimed' \in [Referrers -> Nat]
    BY <1>3, <2>1, <2>2, ReferrerCreditedType DEF IInv
  <2> QED BY <2>3 DEF FlashRepayReserveLiquidity, OthersTyped, IInv, TypeOK
<1> QED BY <1>1, <1>3, <1>6, <1>7, GrowthStep

-------------------------------------------------------------------------------
(* The market owner, and time. *)

\* A loss: it takes what the suppliers own, and deprecates the reserve when
\* nothing of that is left.
Loses(r, s) ==
  /\ r.version = "current"
  /\ s.mintTotalSupply = r.mintTotalSupply
  /\ TotalSupply(s) <= TotalSupply(r)
  /\ s.version = "current" <=> TotalSupply(s) > 0

LEMMA SocializeLossStep ==
  ASSUME IInv, NEW o \in Obligations, NEW amount \in Amounts, SocializeLoss(o, amount)
  PROVE  Balances' /\ Loses(reserve, reserve') /\ circulating' = circulating
<1> DEFINE position == obligations[o]
           forgiven == Smaller(FromNum(amount), position.borrowed)
           lower    == [reserve EXCEPT !.borrowed = @ - forgiven]
           forgave  == MarkStale(lower)
<1>1. /\ reserve \in Reserves /\ reserve.borrowed \in Nat
      /\ position \in ObligationStates /\ position.borrowed \in Nat
      /\ FromNum(amount) \in Nat
  BY ReserveAssumption, FromNumType DEF IInv, TypeOK, Reserves, ObligationStates
<1>2. forgiven \in Nat /\ forgiven <= position.borrowed BY <1>1 DEF Smaller
<1>3. /\ forgiven <= reserve.borrowed
      /\ reserve' = IF WipesOut(reserve, forgiven)
                    THEN [forgave EXCEPT !.version = "deprecated"]
                    ELSE forgave
      /\ obligations' = [obligations EXCEPT ![o] =
           [PositionRepaid(position, forgiven) EXCEPT !.stale = TRUE]]
      /\ UNCHANGED <<clock, referralRate, vault, circulating, unclaimed, flashLoan>>
  BY DEF SocializeLoss, Commit
<1> HIDE DEF forgiven
<1>4. lower \in Reserves
  <2>1. reserve.borrowed - forgiven \in Nat BY <1>1, <1>2, <1>3
  <2> QED BY <1>1, <2>1 DEF Reserves
<1>5. /\ lower.version = reserve.version
      /\ lower.available = reserve.available
      /\ lower.mintTotalSupply = reserve.mintTotalSupply
      /\ TotalSupply(lower) = TotalSupply(reserve) - forgiven
  <2>1. /\ lower.version = reserve.version
        /\ lower.available = reserve.available
        /\ lower.mintTotalSupply = reserve.mintTotalSupply
        /\ lower.borrowed = reserve.borrowed - forgiven
        /\ lower.protocolFees = reserve.protocolFees
        /\ lower.referrerFees = reserve.referrerFees
        /\ lower.pendingReferrerFees = reserve.pendingReferrerFees
    BY <1>1 DEF Reserves
  <2>2. /\ FromNum(reserve.available) \in Nat /\ reserve.protocolFees \in Nat
        /\ reserve.referrerFees \in Nat /\ reserve.pendingReferrerFees \in Nat
    BY <1>1, FromNumType DEF Reserves
  <2> QED BY <1>1, <1>2, <2>1, <2>2 DEF TotalSupply
<1> HIDE DEF lower
<1>6. forgave \in Reserves /\ SameClaims(lower, forgave) /\ forgave.stale
  BY <1>4, MarkStaleFacts
<1> HIDE DEF forgave
<1>7. /\ reserve' \in Reserves
      /\ reserve'.available = reserve.available
      /\ reserve'.mintTotalSupply = reserve.mintTotalSupply
      /\ reserve'.stale
  BY <1>3, <1>5, <1>6 DEF Reserves, SameClaims
<1>8. TypeOK'
  <2>1. [PositionRepaid(position, forgiven) EXCEPT !.stale = TRUE] \in ObligationStates
    BY <1>1, <1>2, PositionRepaidType
  <2>2. obligations' \in [Obligations -> ObligationStates]
    BY <1>3, <2>1, ObligationUpdated DEF IInv
  <2> QED BY <1>3, <1>7, <2>2 DEF IInv, TypeOK
<1>9. VaultBacksAvailable' BY <1>3, <1>7 DEF IInv, VaultBacksAvailable
<1>10. SharesBacked' BY <1>3, <1>7 DEF IInv, SharesBacked
<1>11. Solvent'
  <2>1. SUFFICES ASSUME reserve'.version = "current" PROVE TotalSupply(reserve') > 0
    BY DEF Solvent, IsCurrent, TotalSupply
  <2>2. ~WipesOut(reserve, forgiven)
    <3>1. ASSUME WipesOut(reserve, forgiven) PROVE FALSE
      <4>1. reserve' = [forgave EXCEPT !.version = "deprecated"] BY <1>3, <3>1
      <4>2. reserve'.version = "deprecated" BY <1>6, <4>1 DEF Reserves
      <4> QED BY <2>1, <4>2
    <3> QED BY <3>1
  <2>3. reserve' = forgave BY <1>3, <2>2
  <2>4. TotalSupply(reserve') = TotalSupply(reserve) - forgiven
    BY <1>5, <1>6, <2>3 DEF SameClaims
  <2>5. TotalSupply(reserve) \in Int BY <1>1, TotalSupplyType
  <2> QED BY <1>2, <2>2, <2>4, <2>5 DEF WipesOut
<1>12. DeprecatedIsStale' BY <1>7 DEF DeprecatedIsStale
<1>13. Loses(reserve, reserve')
  <2>1. reserve.version = "current" BY DEF SocializeLoss, Fresh, IsStale, IInv, DeprecatedIsStale, IsCurrent
  <2>2. TotalSupply(reserve) \in Int BY <1>1, TotalSupplyType
  <2>3. TotalSupply(forgave) = TotalSupply(reserve) - forgiven /\ forgave.version = "current"
    BY <1>5, <1>6, <2>1 DEF SameClaims
  <2>4. CASE WipesOut(reserve, forgiven)
    <3>1. reserve' = [forgave EXCEPT !.version = "deprecated"] BY <1>3, <2>4
    <3>2. reserve'.version = "deprecated" /\ TotalSupply(reserve') = TotalSupply(forgave)
      BY <1>6, <3>1 DEF Reserves, TotalSupply
    <3>3. ~(TotalSupply(reserve') > 0) BY <1>2, <2>2, <2>3, <2>4, <3>2 DEF WipesOut
    <3> QED BY <1>2, <1>7, <2>1, <2>2, <2>3, <3>2, <3>3 DEF Loses
  <2>5. CASE ~WipesOut(reserve, forgiven)
    <3>1. reserve' = forgave BY <1>3, <2>5
    <3>2. TotalSupply(reserve') > 0 BY <1>2, <2>2, <2>3, <2>5, <3>1 DEF WipesOut
    <3> QED BY <1>2, <1>7, <2>1, <2>2, <2>3, <3>1, <3>2 DEF Loses
  <2> QED BY <2>4, <2>5
<1> QED BY <1>3, <1>8, <1>9, <1>10, <1>11, <1>12, <1>13 DEF Balances

\* Configuration: the account is refreshed, its settings are replaced and it is
\* marked stale.
LEMMA ReconfiguredStep ==
  ASSUME IInv, NEW r \in InternalRefreshes(reserve),
         NEW config \in ReserveConfigs, NEW dep \in Caps, NEW debt \in Caps,
         reserve' = MarkStale([r EXCEPT !.config = config, !.depositCap = dep,
                                        !.debtCap = debt]),
         UNCHANGED <<clock, referralRate, vault, circulating, obligations, unclaimed,
                     flashLoan>>
  PROVE  StepOK
<1> DEFINE s == [r EXCEPT !.config = config, !.depositCap = dep, !.debtCap = debt]
<1>1. /\ Grows(reserve, r) /\ r \in Reserves
      /\ r.available = vault
  BY RefreshedWithin
<1>2. reserve \in Reserves BY DEF IInv, TypeOK
<1>3. s \in Reserves BY <1>1 DEF Reserves
<1>4. /\ s.version = r.version
      /\ s.available = r.available
      /\ s.mintTotalSupply = r.mintTotalSupply
      /\ TotalSupply(s) = TotalSupply(r)
  BY <1>1 DEF Reserves, TotalSupply
<1>5. reserve' = MarkStale(s) OBVIOUS
<1> HIDE DEF s
<1>6. Grows(reserve, s) BY <1>1, <1>3, <1>4, TotalSupplyType DEF Grows
<1>7. Grows(reserve, reserve') /\ reserve'.available = s.available /\ reserve'.stale
  BY <1>2, <1>5, <1>6, StaleGrowth
<1>8. OthersTyped' BY DEF OthersTyped, IInv, TypeOK
<1> QED BY <1>1, <1>4, <1>7, <1>8, GrowthStep

LEMMA UpdateReserveConfigStep ==
  ASSUME IInv, UpdateReserveConfig
  PROVE  StepOK
<1>1. PICK r \in InternalRefreshes(reserve), config \in Configs :
        reserve' = MarkStale([r EXCEPT !.config = config])
  BY DEF UpdateReserveConfig, Commit
<1>2. r \in Reserves BY RefreshedWithin
<1>3. /\ config \in ReserveConfigs /\ r.depositCap \in Caps /\ r.debtCap \in Caps
      /\ [r EXCEPT !.config = config]
           = [r EXCEPT !.config = config, !.depositCap = r.depositCap, !.debtCap = r.debtCap]
  BY <1>2, ReserveAssumption DEF Reserves
<1> QED BY <1>1, <1>3, ReconfiguredStep DEF UpdateReserveConfig

LEMMA UpdateWithdrawalCapStep ==
  ASSUME IInv, UpdateWithdrawalCap
  PROVE  StepOK
<1>1. PICK r \in InternalRefreshes(reserve), setting \in CapSettings :
        \/ reserve' = MarkStale([r EXCEPT !.depositCap = ReconfiguredCap(@, setting)])
        \/ reserve' = MarkStale([r EXCEPT !.debtCap = ReconfiguredCap(@, setting)])
  BY DEF UpdateWithdrawalCap, Commit
<1>2. r \in Reserves BY RefreshedWithin
<1>3. setting \in [capacity : -MaxI64 - 1 .. MaxI64, interval : Nat]
  BY ReserveAssumption
<1>4. /\ r.config \in ReserveConfigs /\ r.depositCap \in Caps /\ r.debtCap \in Caps
      /\ ReconfiguredCap(r.depositCap, setting) \in Caps
      /\ ReconfiguredCap(r.debtCap, setting) \in Caps
  BY <1>2, <1>3 DEF Reserves, ReconfiguredCap, Caps
<1>5. \/ reserve' = MarkStale([r EXCEPT !.config = r.config,
                                 !.depositCap = ReconfiguredCap(r.depositCap, setting),
                                 !.debtCap = r.debtCap])
      \/ reserve' = MarkStale([r EXCEPT !.config = r.config, !.depositCap = r.depositCap,
                                 !.debtCap = ReconfiguredCap(r.debtCap, setting)])
  BY <1>1, <1>2 DEF Reserves
<1> QED BY <1>4, <1>5, ReconfiguredStep DEF UpdateWithdrawalCap

LEMMA UpdateEntireReserveConfigStep ==
  ASSUME IInv, UpdateEntireReserveConfig
  PROVE  StepOK
<1> DEFINE kept(r, config) == [config EXCEPT !.protocolTakeRate = r.config.protocolTakeRate]
<1>1. PICK r \in InternalRefreshes(reserve), config \in Configs,
           dep \in CapSettings, debt \in CapSettings :
        reserve' = MarkStale([r EXCEPT !.config = kept(r, config),
                     !.depositCap = NewCap(dep, 0), !.debtCap = NewCap(debt, 0)])
  BY DEF UpdateEntireReserveConfig, Commit
<1>2. r \in Reserves BY RefreshedWithin
<1>3. kept(r, config) \in ReserveConfigs
  <2>1. config \in ReserveConfigs /\ r.config \in ReserveConfigs
    BY <1>2, ReserveAssumption DEF Reserves
  <2> QED BY <2>1 DEF ReserveConfigs
<1>4. NewCap(dep, 0) \in Caps /\ NewCap(debt, 0) \in Caps
  <2>1. CapSettings \subseteq [capacity : -MaxI64 - 1 .. MaxI64, interval : Nat]
    BY ReserveAssumption
  <2>2. 0 \in -MaxI64 - 1 .. MaxI64 BY MaxI64Assumption
  <2> QED BY <2>1, <2>2 DEF NewCap, Caps
<1> HIDE DEF kept
<1> QED BY <1>1, <1>3, <1>4, ReconfiguredStep DEF UpdateEntireReserveConfig

LEMMA UpdateReferralFeeStep ==
  ASSUME IInv, UpdateReferralFee
  PROVE  StepOK
<1>1. referralRate' \in 0..One BY ReserveAssumption DEF UpdateReferralFee
<1>2. OthersTyped' BY <1>1 DEF UpdateReferralFee, OthersTyped, IInv, TypeOK
<1> QED BY <1>2, UntouchedStep DEF UpdateReferralFee

LEMMA TickStep ==
  ASSUME IInv, Tick
  PROVE  StepOK
<1>1. PICK seconds \in 0..1 :
        clock' = [slot |-> clock.slot + 1, timestamp |-> clock.timestamp + seconds]
  BY DEF Tick
<1>2. clock.slot \in Nat /\ clock.timestamp \in Nat BY DEF IInv, TypeOK
<1>3. clock' \in [slot : Nat, timestamp : Nat]
  <2>1. clock.slot + 1 \in Nat /\ clock.timestamp + seconds \in Nat BY <1>2
  <2> QED BY <1>1, <2>1
<1>4. OthersTyped' BY <1>3 DEF Tick, OthersTyped, IInv, TypeOK
<1> QED BY <1>4, UntouchedStep DEF Tick
-------------------------------------------------------------------------------
(* The theorems. *)

LEMMA InitEstablishes ==
  ASSUME Init
  PROVE  IInv
<1>1. PICK config \in Configs, dep \in CapSettings, debt \in CapSettings :
        reserve = NewReserve(config, dep, debt)
  BY DEF Init
<1>2. /\ reserve \in Reserves
      /\ TotalSupply(reserve) > 0
      /\ reserve.available = InitialDeposit
      /\ reserve.mintTotalSupply = InitialDeposit
      /\ reserve.version = "current"
  BY <1>1, InitialReserve
<1>3. InitialDeposit \in Nat BY ReserveAssumption, WidthAssumption
<1>4. TypeOK
  <2>1. referralRate \in 0..One BY ReserveAssumption DEF Init
  <2>2. NewObligation \in ObligationStates BY DEF NewObligation, ObligationStates
  <2>3. /\ obligations = [o \in Obligations |-> NewObligation]
        /\ unclaimed = [r \in Referrers |-> 0]
        /\ clock = [slot |-> 0, timestamp |-> 1]
        /\ vault = InitialDeposit /\ circulating = 0 /\ flashLoan = 0
    BY DEF Init
  <2> QED BY <1>2, <1>3, <2>1, <2>2, <2>3 DEF TypeOK
<1>5. VaultBacksAvailable BY <1>2 DEF Init, VaultBacksAvailable
<1>6. SharesBacked BY <1>2, <1>3 DEF Init, SharesBacked
<1>7. Solvent BY <1>2 DEF Solvent
<1>8. DeprecatedIsStale BY <1>2 DEF DeprecatedIsStale, IsCurrent
<1>9. AvailableFits BY <1>2, ReserveAssumption DEF AvailableFits
<1> QED BY <1>4, <1>5, <1>6, <1>7, <1>8, <1>9 DEF IInv

LEMMA SupplierStep ==
  ASSUME IInv, SupplierNext
  PROVE  StepOK
<1>1. PICK amount \in Amounts :
        \/ DepositReserveLiquidity(amount)
        \/ RedeemReserveCollateral(amount)
        \/ \E o \in Obligations :
             \/ DepositReserveLiquidityAndObligationCollateral(o, amount)
             \/ WithdrawObligationCollateralAndRedeemReserveCollateral(o, amount)
  BY DEF SupplierNext
<1> QED BY <1>1, DepositReserveLiquidityStep, RedeemReserveCollateralStep,
           DepositReserveLiquidityAndObligationCollateralStep,
           WithdrawObligationCollateralAndRedeemReserveCollateralStep

\* The one action that may lower the exchange rate.
SocializesLoss ==
  /\ Balances'
  /\ Loses(reserve, reserve')
  /\ circulating' = circulating
  /\ \E o \in Obligations, amount \in Amounts : SocializeLoss(o, amount)

LEMMA ObligationStep ==
  ASSUME IInv, ObligationNext
  PROVE  StepOK \/ SocializesLoss
<1>1. PICK o \in Obligations :
        \/ RefreshObligation(o)
        \/ UseObligationElsewhere(o)
        \/ DepositObligationCollateral(o)
        \/ WithdrawObligationCollateral(o)
        \/ BorrowMaxObligationLiquidity(o)
        \/ LiquidateDebt(o)
        \/ \E amount \in Amounts :
             \/ BorrowObligationLiquidity(o, amount)
             \/ RepayObligationLiquidity(o, amount)
             \/ LiquidateCollateral(o, amount)
             \/ LiquidateWithinReserve(o, amount)
             \/ SocializeLoss(o, amount)
  BY DEF ObligationNext
<1>2. CASE RefreshObligation(o)
  BY <1>2, RefreshIdleObligationStep, RefreshIndebtedObligationStep DEF RefreshObligation
<1>3. CASE \/ UseObligationElsewhere(o)
           \/ DepositObligationCollateral(o)
           \/ WithdrawObligationCollateral(o)
           \/ BorrowMaxObligationLiquidity(o)
           \/ LiquidateDebt(o)
  BY <1>3, UseObligationElsewhereStep, DepositObligationCollateralStep,
     WithdrawObligationCollateralStep, BorrowMaxObligationLiquidityStep, LiquidateDebtStep
<1>4. ASSUME NEW amount \in Amounts,
             \/ BorrowObligationLiquidity(o, amount)
             \/ RepayObligationLiquidity(o, amount)
             \/ LiquidateCollateral(o, amount)
             \/ LiquidateWithinReserve(o, amount)
      PROVE  StepOK
  BY <1>4, BorrowObligationLiquidityStep, RepayObligationLiquidityStep,
     LiquidateCollateralStep, LiquidateWithinReserveStep
<1>5. ASSUME NEW amount \in Amounts, SocializeLoss(o, amount)
      PROVE  SocializesLoss
  BY <1>5, SocializeLossStep DEF SocializesLoss
<1> QED BY <1>1, <1>2, <1>3, <1>4, <1>5

\* Every handler writes an account whose fields fit their widths, or none.
Written == Representable(reserve') \/ reserve' = reserve

LEMMA SupplierWrites ==
  ASSUME SupplierNext
  PROVE  Written
<1>1. PICK amount \in Amounts :
        \/ DepositReserveLiquidity(amount)
        \/ RedeemReserveCollateral(amount)
        \/ \E o \in Obligations :
             \/ DepositReserveLiquidityAndObligationCollateral(o, amount)
             \/ WithdrawObligationCollateralAndRedeemReserveCollateral(o, amount)
  BY DEF SupplierNext
<1>2. CASE DepositReserveLiquidity(amount)
  BY <1>2 DEF DepositReserveLiquidity, Commit, Written
<1>3. CASE RedeemReserveCollateral(amount)
  BY <1>3 DEF RedeemReserveCollateral, PayRedemption, Commit, Written
<1>4. ASSUME NEW o \in Obligations, DepositReserveLiquidityAndObligationCollateral(o, amount)
      PROVE  Written
  BY <1>4 DEF DepositReserveLiquidityAndObligationCollateral, Commit, Written
<1>5. ASSUME NEW o \in Obligations,
             WithdrawObligationCollateralAndRedeemReserveCollateral(o, amount)
      PROVE  Written
  BY <1>5 DEF WithdrawObligationCollateralAndRedeemReserveCollateral, PayRedemption,
              Commit, Written
<1> QED BY <1>1, <1>2, <1>3, <1>4, <1>5

LEMMA ObligationWrites ==
  ASSUME ObligationNext
  PROVE  Written
<1>1. PICK o \in Obligations :
        \/ RefreshObligation(o)
        \/ UseObligationElsewhere(o)
        \/ DepositObligationCollateral(o)
        \/ WithdrawObligationCollateral(o)
        \/ BorrowMaxObligationLiquidity(o)
        \/ LiquidateDebt(o)
        \/ \E amount \in Amounts :
             \/ BorrowObligationLiquidity(o, amount)
             \/ RepayObligationLiquidity(o, amount)
             \/ LiquidateCollateral(o, amount)
             \/ LiquidateWithinReserve(o, amount)
             \/ SocializeLoss(o, amount)
  BY DEF ObligationNext
<1>2. CASE RefreshObligation(o)
  BY <1>2 DEF RefreshObligation, RefreshIdleObligation, RefreshIndebtedObligation,
              Commit, Written
<1>3. CASE UseObligationElsewhere(o) \/ WithdrawObligationCollateral(o)
  BY <1>3 DEF UseObligationElsewhere, WithdrawObligationCollateral, Written
<1>4. CASE DepositObligationCollateral(o)
  BY <1>4 DEF DepositObligationCollateral, Commit, Written
<1>5. CASE BorrowMaxObligationLiquidity(o)
  BY <1>5 DEF BorrowMaxObligationLiquidity, Borrow, Commit, Written
<1>6. CASE LiquidateDebt(o)
  BY <1>6 DEF LiquidateDebt, SettleDebt, Commit, Written
<1>7. ASSUME NEW amount \in Amounts, BorrowObligationLiquidity(o, amount)
      PROVE  Written
  BY <1>7 DEF BorrowObligationLiquidity, Borrow, Commit, Written
<1>8. ASSUME NEW amount \in Amounts, RepayObligationLiquidity(o, amount)
      PROVE  Written
  BY <1>8 DEF RepayObligationLiquidity, SettleDebt, Commit, Written
<1>9. ASSUME NEW amount \in Amounts, LiquidateCollateral(o, amount)
      PROVE  Written
  BY <1>9 DEF LiquidateCollateral, Seize, Commit, Written
<1>10. ASSUME NEW amount \in Amounts, LiquidateWithinReserve(o, amount)
       PROVE  Written
  BY <1>10 DEF LiquidateWithinReserve, Seize, Commit, Written
<1>11. ASSUME NEW amount \in Amounts, SocializeLoss(o, amount)
       PROVE  Written
  BY <1>11 DEF SocializeLoss, Commit, Written
<1> QED BY <1>1, <1>2, <1>3, <1>4, <1>5, <1>6, <1>7, <1>8, <1>9, <1>10, <1>11

LEMMA NextFits ==
  ASSUME IInv, [Next]_vars
  PROVE  AvailableFits'
<1>1. Written
  <2>1. CASE RefreshReserve BY <2>1 DEF RefreshReserve, Commit, Written
  <2>2. CASE SupplierNext BY <2>2, SupplierWrites
  <2>3. CASE ObligationNext BY <2>3, ObligationWrites
  <2>4. CASE FeeNext BY <2>4 DEF FeeNext, RedeemFees, WithdrawReferrerFees, Commit, Written
  <2>5. CASE FlashLoanNext
    BY <2>5 DEF FlashLoanNext, FlashBorrowReserveLiquidity, FlashRepayReserveLiquidity,
                Commit, Written
  <2>6. CASE AdminNext
    BY <2>6 DEF AdminNext, UpdateReserveConfig, UpdateWithdrawalCap,
                UpdateEntireReserveConfig, UpdateReferralFee, Commit, Written
  <2>7. CASE Tick \/ UNCHANGED vars BY <2>7 DEF Tick, vars, Written
  <2> QED BY <2>1, <2>2, <2>3, <2>4, <2>5, <2>6, <2>7 DEF Next
<1> QED BY <1>1 DEF Written, Representable, AvailableFits, IInv

LEMMA NextStep ==
  ASSUME IInv, [Next]_vars
  PROVE  StepOK \/ SocializesLoss
<1>1. CASE RefreshReserve BY <1>1, RefreshReserveStep
<1>2. CASE SupplierNext BY <1>2, SupplierStep
<1>3. CASE ObligationNext BY <1>3, ObligationStep
<1>4. CASE FeeNext BY <1>4, RedeemFeesStep, WithdrawReferrerFeesStep DEF FeeNext
<1>5. CASE FlashLoanNext
  BY <1>5, FlashBorrowReserveLiquidityStep, FlashRepayReserveLiquidityStep
     DEF FlashLoanNext
<1>6. CASE AdminNext
  BY <1>6, UpdateReserveConfigStep, UpdateWithdrawalCapStep,
     UpdateEntireReserveConfigStep, UpdateReferralFeeStep DEF AdminNext
<1>7. CASE Tick BY <1>7, TickStep
<1>8. CASE UNCHANGED vars
  <2>1. OthersTyped' BY <1>8 DEF vars, OthersTyped, IInv, TypeOK
  <2> QED BY <1>8, <2>1, UntouchedStep DEF vars
<1> QED BY <1>1, <1>2, <1>3, <1>4, <1>5, <1>6, <1>7, <1>8 DEF Next

\* The conjunction of the invariants is inductive.
THEOREM Invariance == Spec => []IInv
<1>1. Init => IInv BY InitEstablishes
<1>2. IInv /\ [Next]_vars => IInv'
  BY NextStep, NextFits DEF StepOK, SocializesLoss, Balances, IInv
<1> QED BY <1>1, <1>2, PTL DEF Spec

\* Type correctness: no amount, debt, fee or counter of the reserve ever becomes
\* negative, in any handler.
THEOREM TypeCorrectness == Spec => []TypeOK
<1>1. IInv => TypeOK BY DEF IInv
<1> QED BY <1>1, Invariance, PTL

\* The supply vault always holds what the reserve accounts for, so the runtime
\* check of post_transfer_vault_balance_liquidity_reserve_checks never fails.
THEOREM VaultIsAccounted == Spec => []VaultBacksAvailable
<1>1. IInv => VaultBacksAvailable BY DEF IInv
<1> QED BY <1>1, Invariance, PTL

\* mint_total_supply is always the initial deposit plus what users hold.
THEOREM SharesAreBacked == Spec => []SharesBacked
<1>1. IInv => SharesBacked BY DEF IInv
<1> QED BY <1>1, Invariance, PTL

\* A reserve in use never runs out of supply.
THEOREM Solvency == Spec => []Solvent
<1>1. IInv => Solvent BY DEF IInv
<1> QED BY <1>1, Invariance, PTL

\* A deprecated reserve stays stale, which closes the handlers without a version
\* check.
THEOREM DeprecatedStaysStale == Spec => []DeprecatedIsStale
<1>1. IInv => DeprecatedIsStale BY DEF IInv
<1> QED BY <1>1, Invariance, PTL

\* Growth and trades leave a cToken worth what it was, or more.
LEMMA FairStepsKeepRate ==
  ASSUME NEW r \in Reserves, NEW s \in Reserves,
         Grows(r, s) \/ Trades(r, s)
  PROVE  TotalSupply(s) * r.mintTotalSupply >= TotalSupply(r) * s.mintTotalSupply
<1> DEFINE l == TotalSupply(r)
           c == r.mintTotalSupply
           t == TotalSupply(s)
           m == s.mintTotalSupply
<1>1. l \in Int /\ t \in Int /\ c \in Nat /\ m \in Nat
  BY TotalSupplyType DEF Reserves
<1>2. ASSUME NEW k \in Nat, NEW a \in Int, NEW b \in Int, a >= b PROVE a * k >= b * k
  BY <1>2
<1>3. CASE Grows(r, s) BY <1>1, <1>2, <1>3 DEF Grows
<1>4. ASSUME NEW tokens \in 0..MaxU64, Buys(r, s, tokens)
      PROVE  t * c >= l * m
  <2> DEFINE paid == FromNum(tokens)
             g == t - paid
             n == m - c
  <2>1. paid \in Nat BY WidthAssumption, FromNumType
  <2>2. g >= l /\ n >= 0 /\ n * g <= paid * c BY <1>4 DEF Buys
  <2> HIDE DEF l, c, t, m, paid
  <2>3. g \in Int /\ n \in Nat BY <1>1, <2>1, <2>2
  <2>4. g * c >= l * c /\ g * n >= l * n BY <1>1, <1>2, <2>2, <2>3
  <2>5. t * c = g * c + paid * c /\ l * m = l * c + l * n /\ g * n = n * g
    BY <1>1, <2>1, <2>3
  <2>6. /\ g * c \in Int /\ l * c \in Int /\ g * n \in Int /\ l * n \in Int
        /\ paid * c \in Int
    BY <1>1, <2>1, <2>3
  <2> HIDE DEF g, n
  <2> QED BY <2>2, <2>4, <2>5, <2>6
<1>5. ASSUME NEW tokens \in 0..MaxU64, Returns(r, s, tokens)
      PROVE  t * c >= l * m
  <2> DEFINE paid == FromNum(tokens)
             g == t + paid
             n == c - m
  <2>1. paid \in Nat BY WidthAssumption, FromNumType
  <2>2. g >= l /\ n >= 0 /\ paid * c <= n * g BY <1>5 DEF Returns
  <2> HIDE DEF l, c, t, m, paid
  <2>3. g \in Int /\ n \in Nat BY <1>1, <2>1, <2>2
  <2>4. g * m >= l * m BY <1>1, <1>2, <2>2, <2>3
  <2>5. t * c = g * c - paid * c /\ g * m = g * c - n * g
    BY <1>1, <2>1, <2>3
  <2>6. /\ g * c \in Int /\ g * m \in Int /\ l * m \in Int /\ n * g \in Int
        /\ paid * c \in Int
    BY <1>1, <2>1, <2>3
  <2> HIDE DEF g, n
  <2> QED BY <2>2, <2>4, <2>5, <2>6
<1>6. CASE Trades(r, s) BY <1>4, <1>5, <1>6 DEF Trades
<1> QED BY <1>3, <1>6

\* Only a socialized loss lowers what a cToken is worth.
THEOREM ExchangeRateMonotone == Spec => ExchangeRateNeverFalls
<1> DEFINE Kept == \/ \E o \in Obligations, amount \in Amounts : SocializeLoss(o, amount)
                   \/ TotalSupply(reserve)' * reserve.mintTotalSupply
                         >= TotalSupply(reserve) * reserve'.mintTotalSupply
<1>1. IInv /\ [Next]_vars => [Kept]_vars
  <2> SUFFICES ASSUME IInv, [Next]_vars PROVE Kept OBVIOUS
  <2>1. TotalSupply(reserve)' = TotalSupply(reserve') BY DEF TotalSupply
  <2>2. CASE StepOK
    <3>1. reserve \in Reserves /\ reserve' \in Reserves
      BY <2>2 DEF IInv, StepOK, Balances, TypeOK
    <3> QED BY <2>1, <2>2, <3>1, FairStepsKeepRate DEF StepOK
  <2> QED BY <2>2, NextStep DEF SocializesLoss
<1> QED BY <1>1, Invariance, PTL DEF Spec, ExchangeRateNeverFalls

-------------------------------------------------------------------------------
(* The refinement. *)

\* The reserve implements the pool of shares: every handler is a gain, a purchase
\* or a return of shares, a loss, or nothing to the suppliers.
THEOREM PoolRefinement == Spec => KeepsShares
<1>1. Init => Pool!Init
  <2> SUFFICES ASSUME Init PROVE Pool!Init OBVIOUS
  <2>1. PICK config \in Configs, dep \in CapSettings, debt \in CapSettings :
          reserve = NewReserve(config, dep, debt)
    BY DEF Init
  <2>2. TotalSupply(reserve) = InitialDeposit * One
    <3>1. InitialDeposit \in Nat /\ One \in Nat
      BY ReserveAssumption, OneAssumption, WidthAssumption
    <3> QED BY <2>1, <3>1 DEF TotalSupply, NewReserve, FromNum
  <2>3. reserve.mintTotalSupply = InitialDeposit /\ reserve.version = "current"
    BY <2>1 DEF NewReserve
  <2> QED BY <2>2, <2>3 DEF Init, Pool!Init, IsCurrent
<1>2. IInv /\ IInv' /\ [Next]_vars => [Pool!Next]_Pool!vars
  <2> SUFFICES ASSUME IInv, IInv', [Next]_vars PROVE Pool!Next
    BY DEF Pool!vars
  <2>1. TotalSupply(reserve)' = TotalSupply(reserve') BY DEF TotalSupply
  <2>2. /\ circulating \in Nat /\ circulating' \in Nat /\ InitialDeposit \in Nat
        /\ reserve.mintTotalSupply = InitialDeposit + circulating
        /\ reserve'.mintTotalSupply = InitialDeposit + circulating'
    BY ReserveAssumption, WidthAssumption DEF IInv, TypeOK, SharesBacked
  <2>3. ASSUME StepOK, Grows(reserve, reserve')
        PROVE  Pool!Gain
    <3>1. circulating' = circulating BY <2>2, <2>3 DEF Grows
    <3> QED BY <2>1, <2>3, <3>1 DEF Grows, Pool!Gain, IsCurrent
  <2>4. ASSUME StepOK, IsCurrent, Trades(reserve, reserve')
        PROVE  Pool!Join \/ Pool!Leave
    <3>1. PICK tokens \in 0..MaxU64 :
            Buys(reserve, reserve', tokens) \/ Returns(reserve, reserve', tokens)
      BY <2>4 DEF Trades
    <3>2. IsCurrent' = IsCurrent BY <2>4 DEF StepOK, IsCurrent
    <3>3. /\ reserve'.mintTotalSupply - reserve.mintTotalSupply = circulating' - circulating
          /\ reserve.mintTotalSupply - reserve'.mintTotalSupply = circulating - circulating'
      <4>1. ASSUME NEW i \in Nat, NEW c \in Nat, NEW d \in Nat
            PROVE  (i + d) - (i + c) = d - c
        BY <4>1
      <4> QED BY <2>2, <4>1
    <3>0. ASSUME NEW c \in Nat, NEW d \in Nat
          PROVE  /\ d = c + (d - c)
                 /\ d = c - (c - d)
                 /\ c - d >= 0 => c - d \in 0..c
      BY <3>0
    <3>4. ASSUME Buys(reserve, reserve', tokens) PROVE Pool!Join
      <4>1. circulating' = circulating + (circulating' - circulating) BY <2>2, <3>0
      <4> QED BY <2>1, <2>4, <3>1, <3>2, <3>3, <3>4, <4>1 DEF Buys, Pool!Join, FromNum
    <3>5. ASSUME Returns(reserve, reserve', tokens) PROVE Pool!Leave
      <4>1. circulating' = circulating - (circulating - circulating') BY <2>2, <3>0
      <4>2. circulating - circulating' \in 0..circulating
        BY <2>2, <3>0, <3>3, <3>5 DEF Returns
      <4> QED BY <2>1, <2>4, <3>1, <3>2, <3>3, <3>5, <4>1, <4>2
              DEF Returns, Pool!Leave, FromNum
    <3> QED BY <3>1, <3>4, <3>5
  <2>5. ASSUME SocializesLoss
        PROVE  Pool!Lose
    <3>1. IsCurrent /\ (IsCurrent' <=> TotalSupply(reserve') > 0)
      BY <2>5 DEF SocializesLoss, Loses, IsCurrent
    <3>2. IsCurrent' = (TotalSupply(reserve)' > 0) BY <2>1, <3>1 DEF IsCurrent
    <3> QED BY <2>1, <2>5, <3>1, <3>2 DEF SocializesLoss, Loses, Pool!Lose
  <2> QED BY <2>3, <2>4, <2>5, NextStep DEF StepOK, Pool!Next
<1> QED BY <1>1, <1>2, Invariance, PTL DEF Spec, KeepsShares, Pool!Spec

\* Depositing and redeeming the minted cTokens at once never pays: what comes back
\* is at most what the deposit took, for every account that deposits can meet.
THEOREM RoundTripNeverPays ==
  ASSUME TypeOK, NEW r \in Reserves, TotalSupply(r) > 0, r.mintTotalSupply > 0,
         NEW amount \in Nat
  PROVE  LiquidityRedeemed(Deposited(r, amount), CollateralMinted(r, amount))
           <= LiquidityTaken(r, amount)
<1> DEFINE s     == Deposited(r, amount)
           taken == LiquidityTaken(r, amount)
           n     == CollateralMinted(r, amount)
           back  == LiquidityRedeemed(s, n)
           l     == TotalSupply(r)
           c     == r.mintTotalSupply
           paid  == FromNum(taken)
<1>1. /\ l \in Nat \ {0} /\ c \in Nat \ {0}
      /\ taken \in Nat /\ n \in Nat
      /\ TotalSupply(s) = l + paid
      /\ s.mintTotalSupply = c + n
      /\ n * l <= paid * c
  <2>1. l \in Nat \ {0} /\ c \in Nat \ {0} BY TotalSupplyType DEF Reserves
  <2>2. /\ taken \in Nat /\ n \in Nat
        /\ TotalSupply(s) = l + paid
        /\ s.mintTotalSupply = c + n
        /\ n * l <= paid * c
    BY DepositedFacts, Zenon
  <2> QED BY <2>1, <2>2
<1>2. paid \in Nat BY <1>1, FromNumType
<1> HIDE DEF s, taken, n, l, c, paid
<1>3. l + paid \in Nat \ {0} /\ c + n \in Nat \ {0} BY <1>1, <1>2
<1>4. ExchangeRate(s).collateral = c + n /\ ExchangeRate(s).liquidity = l + paid
  BY <1>1, <1>3 DEF ExchangeRate
<1>5. back \in Nat /\ FromNum(back) * (c + n) <= n * (l + paid)
  BY <1>1, <1>3, <1>4, RedemptionRoundsDown DEF LiquidityRedeemed
<1> HIDE DEF back
<1>6. n * (l + paid) <= paid * (c + n)
  <2>1. n * (l + paid) = n * l + paid * n /\ paid * (c + n) = paid * c + paid * n
    BY <1>1, <1>2
  <2>2. n * l \in Nat /\ paid * c \in Nat /\ paid * n \in Nat BY <1>1, <1>2
  <2> QED BY <1>1, <2>1, <2>2
<1>7. FromNum(back) \in Nat BY <1>5, FromNumType
<1>8. ASSUME NEW a \in Nat, NEW b \in Nat, NEW k \in Nat \ {0}, a * k <= b * k
      PROVE  a <= b
  BY <1>8
<1>9. FromNum(back) * (c + n) <= paid * (c + n)
  <2>1. /\ FromNum(back) * (c + n) \in Nat /\ n * (l + paid) \in Nat
        /\ paid * (c + n) \in Nat
    BY <1>1, <1>2, <1>3, <1>7
  <2> QED BY <1>5, <1>6, <2>1
<1>10. FromNum(back) <= paid BY <1>2, <1>3, <1>7, <1>8, <1>9
<1>11. back * One <= taken * One BY <1>10 DEF FromNum, paid
<1>12. back <= taken BY <1>1, <1>5, <1>8, <1>11, OneAssumption
<1> QED BY <1>12 DEF back, taken, s, n
===============================================================================
