------------------------- MODULE ReserveAccountProofs -------------------------
(***************************************************************************)
(* What the arithmetic and the methods of a reserve account guarantee, for *)
(* every scale of the fractions, every width and every configuration:      *)
(* which operations preserve the type of the account, and what each does   *)
(* to the total supply, the available liquidity and the cTokens.           *)
(***************************************************************************)
EXTENDS ReserveAccount, TLAPS

-------------------------------------------------------------------------------
(* Fixed-point arithmetic. *)

\* Truncated division is a natural number between a / d - 1 and a / d.
LEMMA DivBounds ==
  ASSUME NEW a \in Nat, NEW d \in Nat \ {0}
  PROVE  /\ a \div d \in Nat
         /\ (a \div d) * d <= a
         /\ a < (a \div d) * d + d
  BY Z3

LEMMA DivMonotone ==
  ASSUME NEW a \in Nat, NEW b \in Nat, a <= b, NEW d \in Nat \ {0}
  PROVE  a \div d <= b \div d
  BY Z3

\* Multiplying fractions rounds down: it stays below a when the factor is at
\* most one and does not fall below a when the factor is at least one.
LEMMA FMulBounds ==
  ASSUME NEW a \in Nat, NEW b \in Nat
  PROVE  /\ FMul(a, b) \in Nat
         /\ b <= One => FMul(a, b) <= a
         /\ b >= One => FMul(a, b) >= a
<1>1. One \in Nat \ {0} BY OneAssumption
<1>2. a * b \in Nat OBVIOUS
<1>3. FMul(a, b) \in Nat BY <1>1, <1>2, DivBounds DEF FMul
<1>4. ASSUME b <= One PROVE FMul(a, b) <= a
  BY <1>1, <1>4, Z3 DEF FMul
<1>5. ASSUME b >= One PROVE FMul(a, b) >= a
  BY <1>1, <1>5, Z3 DEF FMul
<1> QED BY <1>3, <1>4, <1>5

\* It is monotone in the factor.
LEMMA FMulMonotone ==
  ASSUME NEW a \in Nat, NEW b \in Nat, NEW c \in Nat, b <= c
  PROVE  FMul(a, b) <= FMul(a, c)
  BY OneAssumption, Z3 DEF FMul

\* Conversions between fractions and tokens.
LEMMA FloorCeil ==
  ASSUME NEW a \in Nat
  PROVE  /\ ToFloor(a) \in Nat
         /\ FromNum(ToFloor(a)) <= a
         /\ ToCeil(a) \in Nat
         /\ FromNum(ToCeil(a)) >= a
<1>1. One \in Nat \ {0} BY OneAssumption
<1>2. ToFloor(a) \in Nat /\ ToFloor(a) * One <= a
  BY <1>1, DivBounds DEF ToFloor
<1>3. a + One - 1 \in Nat BY <1>1
<1>4. ToCeil(a) \in Nat /\ a + One - 1 < ToCeil(a) * One + One
  BY <1>1, <1>3, DivBounds DEF ToCeil
<1> QED BY <1>1, <1>2, <1>4 DEF FromNum

LEMMA FromNumType ==
  ASSUME NEW n \in Nat
  PROVE  /\ FromNum(n) \in Nat
         /\ ToFloor(FromNum(n)) = n
         /\ ToCeil(FromNum(n)) = n
<1>1. One \in Nat \ {0} BY OneAssumption
<1>2. FromNum(n) \in Nat BY <1>1 DEF FromNum
<1>3. ToFloor(FromNum(n)) = n BY <1>1, Z3 DEF FromNum, ToFloor
<1>4. ToCeil(FromNum(n)) = n BY <1>1, Z3 DEF FromNum, ToCeil
<1> QED BY <1>2, <1>3, <1>4

-------------------------------------------------------------------------------
(* Withdrawal caps. *)

\* The counter of a cap stays an i64, whatever is added or removed.
LEMMA CapTypes ==
  ASSUME NEW cap \in Caps, NEW amount \in Nat, NEW now \in Nat
  PROVE  /\ AddToAccum(cap, amount, now) \in Caps
         /\ SubFromAccum(cap, amount, now) \in Caps
<1>1. MaxI64 \in Nat BY MaxI64Assumption
<1>2. Rolled(cap, now) \in Caps
  <2>1. 0 \in -MaxI64 - 1 .. MaxI64 BY <1>1
  <2>2. [cap EXCEPT !.current = 0, !.start = now] \in Caps BY <2>1 DEF Caps
  <2> QED BY <2>2 DEF Rolled
<1>3. ASSUME NEW x \in Int PROVE Saturated(x) \in -MaxI64 - 1 .. MaxI64
  BY <1>1 DEF Saturated
<1>4. ASSUME NEW c \in Caps, NEW x \in -MaxI64 - 1 .. MaxI64
      PROVE  [c EXCEPT !.current = x] \in Caps
  BY DEF Caps
<1>5. Rolled(cap, now).current \in Int BY <1>1, <1>2 DEF Caps
<1>6. AddToAccum(cap, amount, now)
        = [Rolled(cap, now) EXCEPT !.current = Saturated(Rolled(cap, now).current + amount)]
  BY <1>2 DEF AddToAccum, Caps
<1>7. SubFromAccum(cap, amount, now)
        = [Rolled(cap, now) EXCEPT !.current = Saturated(Rolled(cap, now).current - amount)]
  BY <1>2 DEF SubFromAccum, Caps
<1>8. AddToAccum(cap, amount, now) \in Caps BY <1>2, <1>3, <1>4, <1>5, <1>6
<1>9. SubFromAccum(cap, amount, now) \in Caps BY <1>2, <1>3, <1>4, <1>5, <1>7
<1> QED BY <1>8, <1>9

-------------------------------------------------------------------------------
(* The account. *)

\* s differs from r only in fields that neither suppliers nor the vault see.
SameClaims(r, s) ==
  /\ s.version = r.version
  /\ s.available = r.available
  /\ s.mintTotalSupply = r.mintTotalSupply
  /\ TotalSupply(s) = TotalSupply(r)

LEMMA TotalSupplyType ==
  ASSUME NEW r \in Reserves
  PROVE  TotalSupply(r) \in Int
  BY OneAssumption DEF TotalSupply, Reserves, FromNum

LEMMA MarkStaleFacts ==
  ASSUME NEW r \in Reserves
  PROVE  /\ MarkStale(r) \in Reserves
         /\ SameClaims(r, MarkStale(r))
         /\ MarkStale(r).stale
         /\ MarkStale(r).borrowed = r.borrowed
  BY DEF MarkStale, Reserves, SameClaims, TotalSupply

LEMMA LimitTimestampsFacts ==
  ASSUME NEW r \in Reserves, NEW now \in Nat
  PROVE  /\ LimitTimestampsRefreshed(r, now) \in Reserves
         /\ SameClaims(r, LimitTimestampsRefreshed(r, now))
         /\ LimitTimestampsRefreshed(r, now).stale = r.stale
<1>1. PICK t \in Nat, u \in Nat :
        LimitTimestampsRefreshed(r, now)
          = [r EXCEPT !.depositLimitCrossedAt = t, !.borrowLimitCrossedAt = u]
  BY DEF LimitTimestampsRefreshed, Reserves
<1> QED BY <1>1 DEF Reserves, SameClaims, TotalSupply

\* Compounding adds to the debt at least what it adds to the fees: the suppliers
\* never pay for it.
LEMMA CompoundedFacts ==
  ASSUME NEW r \in Reserves,
         NEW f \in [compounded : Nat, fixed : Nat],
         One <= f.fixed, f.fixed <= f.compounded,
         NEW referralRate \in 0..One
  PROVE  /\ Compounded(r, f, referralRate) \in Reserves
         /\ Compounded(r, f, referralRate).version = r.version
         /\ Compounded(r, f, referralRate).available = r.available
         /\ Compounded(r, f, referralRate).mintTotalSupply = r.mintTotalSupply
         /\ TotalSupply(Compounded(r, f, referralRate)) >= TotalSupply(r)
         /\ Compounded(r, f, referralRate).cumulativeBorrowRate >= r.cumulativeBorrowRate
<1> DEFINE take         == r.config.protocolTakeRate
           newDebt      == FMul(r.borrowed, f.compounded)
           fixedHostFee == FMul(r.borrowed, f.fixed) - r.borrowed
           variableDebt == newDebt - r.borrowed - fixedHostFee
           absoluteRate == FMul(take, referralRate)
           maxReferrer  == FMul(variableDebt, absoluteRate)
           variableFee  == FMul(variableDebt, take)
           result       == Compounded(r, f, referralRate)
<1>1. /\ One \in Nat \ {0}
      /\ r.borrowed \in Nat /\ take \in 0..One
      /\ f.compounded \in Nat /\ f.fixed \in Nat
      /\ r.cumulativeBorrowRate \in Nat
  BY OneAssumption DEF Reserves, ReserveConfigs
<1>0. /\ take \in Nat /\ take <= One
      /\ referralRate \in Nat /\ referralRate <= One
      /\ f.fixed >= One /\ f.compounded >= One
  BY <1>1
<1>2. newDebt \in Nat BY <1>1, FMulBounds
<1>3. fixedHostFee \in Nat
  <2>1. FMul(r.borrowed, f.fixed) \in Nat /\ FMul(r.borrowed, f.fixed) >= r.borrowed
    BY <1>1, <1>0, FMulBounds
  <2> QED BY <2>1, <1>1
<1>4. variableDebt \in Nat
  <2>1. FMul(r.borrowed, f.fixed) <= newDebt BY <1>1, FMulMonotone
  <2>2. FMul(r.borrowed, f.fixed) \in Nat BY <1>1, FMulBounds
  <2> QED BY <2>1, <2>2, <1>1, <1>2
<1>5. absoluteRate \in Nat /\ absoluteRate <= take
  BY <1>0, FMulBounds
<1> HIDE DEF newDebt, fixedHostFee, variableDebt, absoluteRate, take
<1>6. maxReferrer \in Nat /\ variableFee \in Nat
  BY <1>0, <1>4, <1>5, FMulBounds
<1>7. maxReferrer <= variableFee BY <1>0, <1>4, <1>5, FMulMonotone
<1>8. variableFee <= variableDebt BY <1>0, <1>4, FMulBounds
<1>9. /\ FMul(r.cumulativeBorrowRate, f.compounded) \in Nat
      /\ FMul(r.cumulativeBorrowRate, f.compounded) >= r.cumulativeBorrowRate
  BY <1>0, <1>1, FMulBounds
<1>10. result = [r EXCEPT
         !.borrowed = newDebt,
         !.cumulativeBorrowRate = FMul(r.cumulativeBorrowRate, f.compounded),
         !.absoluteReferralRate = absoluteRate,
         !.pendingReferrerFees = r.pendingReferrerFees + maxReferrer,
         !.protocolFees = r.protocolFees + fixedHostFee + variableFee - maxReferrer]
  BY DEF Compounded, Reserves, take, newDebt, fixedHostFee, variableDebt,
         absoluteRate, maxReferrer, variableFee
<1> HIDE DEF maxReferrer, variableFee
<1>11. /\ r.pendingReferrerFees + maxReferrer \in Nat
       /\ r.protocolFees + fixedHostFee + variableFee - maxReferrer \in Nat
  BY <1>3, <1>6, <1>7 DEF Reserves
<1>12. result \in Reserves
  <2>1. absoluteRate \in Nat BY <1>5
  <2> HIDE DEF result
  <2> QED BY <2>1, <1>2, <1>9, <1>10, <1>11 DEF Reserves
<1>13. /\ result.version = r.version
       /\ result.available = r.available
       /\ result.mintTotalSupply = r.mintTotalSupply
       /\ result.referrerFees = r.referrerFees
       /\ result.borrowed = newDebt
       /\ result.pendingReferrerFees = r.pendingReferrerFees + maxReferrer
       /\ result.protocolFees = r.protocolFees + fixedHostFee + variableFee - maxReferrer
       /\ result.cumulativeBorrowRate = FMul(r.cumulativeBorrowRate, f.compounded)
  BY <1>10 DEF Reserves
<1>14. TotalSupply(result) = TotalSupply(r) + variableDebt - variableFee
  <2>1. newDebt = r.borrowed + variableDebt + fixedHostFee
    BY <1>1, <1>2, <1>3, <1>4 DEF variableDebt
  <2>2. /\ r.available \in Nat /\ r.referrerFees \in Nat /\ r.protocolFees \in Nat
        /\ r.pendingReferrerFees \in Nat /\ FromNum(r.available) \in Nat
    BY FromNumType DEF Reserves
  <2> QED BY <2>1, <2>2, <1>1, <1>2, <1>3, <1>4, <1>6, <1>13 DEF TotalSupply
<1> QED BY <1>4, <1>6, <1>8, <1>9, <1>12, <1>13, <1>14, TotalSupplyType
\* s is r after a step that neither deprecates the reserve, nor mints or burns
\* cTokens, nor takes anything from the suppliers.
Grows(r, s) ==
  /\ s \in Reserves
  /\ s.version = r.version
  /\ s.mintTotalSupply = r.mintTotalSupply
  /\ TotalSupply(s) >= TotalSupply(r)

LEMMA GrowsTransitive ==
  ASSUME NEW r \in Reserves, NEW s, NEW t, Grows(r, s), Grows(s, t)
  PROVE  Grows(r, t)
  BY TotalSupplyType DEF Grows

LEMMA RefreshedFacts ==
  ASSUME NEW r \in Reserves,
         NEW f \in [compounded : Nat, fixed : Nat],
         One <= f.fixed, f.fixed <= f.compounded,
         NEW slot \in Nat, NEW status \in SUBSET PriceFlags,
         NEW referralRate \in 0..One
  PROVE  /\ Grows(r, Refreshed(r, slot, f, status, referralRate))
         /\ Refreshed(r, slot, f, status, referralRate).available = r.available
<1> DEFINE accrued == IF slot > r.slot THEN Compounded(r, f, referralRate) ELSE r
           result  == Refreshed(r, slot, f, status, referralRate)
<1>1. /\ Grows(r, accrued)
      /\ accrued.available = r.available
  BY CompoundedFacts, TotalSupplyType DEF Grows
<1> HIDE DEF accrued
<1>2. result = [accrued EXCEPT !.slot = slot, !.stale = FALSE, !.priceStatus = status]
  BY DEF Refreshed, accrued
<1>3. accrued \in Reserves BY <1>1 DEF Grows
<1> HIDE DEF result
<1>4. /\ result \in Reserves
      /\ result.version = accrued.version
      /\ result.available = accrued.available
      /\ result.mintTotalSupply = accrued.mintTotalSupply
      /\ TotalSupply(result) = TotalSupply(accrued)
  BY <1>2, <1>3 DEF Reserves, TotalSupply
<1> QED BY <1>1, <1>4 DEF Grows, result

\* Borrowing rounds what leaves the vault down: the suppliers keep the rest.
LEMMA LiquidityBorrowedFacts ==
  ASSUME NEW r \in Reserves, NEW amount \in Nat, ToFloor(amount) <= r.available
  PROVE  /\ Grows(r, LiquidityBorrowed(r, amount))
         /\ LiquidityBorrowed(r, amount).available = r.available - ToFloor(amount)
<1> DEFINE floor == ToFloor(amount)
           s     == LiquidityBorrowed(r, amount)
<1>1. floor \in Nat /\ FromNum(floor) <= amount BY FloorCeil
<1>2. r.available \in Nat /\ r.borrowed \in Nat BY DEF Reserves
<1>3. s = [r EXCEPT !.available = r.available - floor, !.borrowed = r.borrowed + amount]
  BY DEF LiquidityBorrowed, Reserves
<1>4. r.available - floor \in Nat BY <1>1, <1>2
<1> HIDE DEF floor, s
<1>5. s \in Reserves
  <2>1. r.borrowed + amount \in Nat BY <1>2
  <2> QED BY <2>1, <1>3, <1>4 DEF Reserves
<1>6. /\ s.version = r.version
      /\ s.mintTotalSupply = r.mintTotalSupply
      /\ s.available = r.available - floor
      /\ s.borrowed = r.borrowed + amount
      /\ s.protocolFees = r.protocolFees
      /\ s.referrerFees = r.referrerFees
      /\ s.pendingReferrerFees = r.pendingReferrerFees
  BY <1>3 DEF Reserves
<1>7. FromNum(s.available) = FromNum(r.available) - FromNum(floor)
  BY <1>1, <1>2, <1>6, OneAssumption DEF FromNum
<1>8. TotalSupply(s) = TotalSupply(r) + amount - FromNum(floor)
  <2>1. FromNum(r.available) \in Nat /\ FromNum(floor) \in Nat BY <1>1, <1>2, FromNumType
  <2> QED BY <2>1, <1>2, <1>6, <1>7 DEF TotalSupply, Reserves
<1>9. FromNum(floor) \in Nat BY <1>1, FromNumType
<1> QED BY <1>1, <1>5, <1>6, <1>8, <1>9, TotalSupplyType DEF Grows, floor, s

\* Repaying at least what is settled takes nothing from the suppliers.
LEMMA LiquidityRepaidFacts ==
  ASSUME NEW r \in Reserves, NEW repay \in Nat, NEW settle \in Nat,
         settle <= FromNum(repay)
  PROVE  /\ Grows(r, LiquidityRepaid(r, repay, settle))
         /\ LiquidityRepaid(r, repay, settle).available = r.available + repay
<1> DEFINE settled == Smaller(settle, r.borrowed)
           s       == LiquidityRepaid(r, repay, settle)
<1>1. /\ r.available \in Nat /\ r.borrowed \in Nat
      /\ settled \in Nat /\ settled <= r.borrowed /\ settled <= settle
  BY DEF Reserves, Smaller
<1>2. s = [r EXCEPT !.available = r.available + repay, !.borrowed = r.borrowed - settled]
  BY DEF LiquidityRepaid, Reserves
<1> HIDE DEF settled, s
<1>3. s \in Reserves
  <2>1. r.available + repay \in Nat /\ r.borrowed - settled \in Nat BY <1>1
  <2> QED BY <2>1, <1>2 DEF Reserves
<1>4. /\ s.version = r.version
      /\ s.mintTotalSupply = r.mintTotalSupply
      /\ s.available = r.available + repay
      /\ s.borrowed = r.borrowed - settled
      /\ s.protocolFees = r.protocolFees
      /\ s.referrerFees = r.referrerFees
      /\ s.pendingReferrerFees = r.pendingReferrerFees
  BY <1>2 DEF Reserves
<1>5. FromNum(s.available) = FromNum(r.available) + FromNum(repay)
  BY <1>1, <1>4, OneAssumption DEF FromNum
<1>6. FromNum(repay) \in Nat BY FromNumType
<1>7. TotalSupply(s) = TotalSupply(r) + FromNum(repay) - settled
  <2>1. FromNum(r.available) \in Nat BY <1>1, FromNumType
  <2> QED BY <2>1, <1>1, <1>4, <1>5, <1>6 DEF TotalSupply, Reserves
<1> QED BY <1>1, <1>3, <1>4, <1>6, <1>7, TotalSupplyType DEF Grows, s

\* A referrer's part of a fee is added to the tokens and to the claims alike.
LEMMA ReferrerPaidFacts ==
  ASSUME NEW r \in Reserves, NEW tokens \in Nat
  PROVE  /\ Grows(r, ReferrerPaid(r, tokens))
         /\ ReferrerPaid(r, tokens).available = r.available + tokens
         /\ ReferrerPaid(r, tokens).stale = r.stale
<1> DEFINE s == ReferrerPaid(r, tokens)
<1>1. r.available \in Nat /\ r.referrerFees \in Nat BY DEF Reserves
<1>2. FromNum(tokens) \in Nat BY FromNumType
<1>3. s = [r EXCEPT !.available = r.available + tokens,
                    !.referrerFees = r.referrerFees + FromNum(tokens)]
  BY DEF ReferrerPaid, ReferrerFeeAdded, Reserves
<1> HIDE DEF s
<1>4. s \in Reserves
  <2>1. r.available + tokens \in Nat /\ r.referrerFees + FromNum(tokens) \in Nat
    BY <1>1, <1>2
  <2> QED BY <2>1, <1>3 DEF Reserves
<1>5. /\ s.version = r.version
      /\ s.stale = r.stale
      /\ s.mintTotalSupply = r.mintTotalSupply
      /\ s.available = r.available + tokens
      /\ s.borrowed = r.borrowed
      /\ s.protocolFees = r.protocolFees
      /\ s.referrerFees = r.referrerFees + FromNum(tokens)
      /\ s.pendingReferrerFees = r.pendingReferrerFees
  BY <1>3 DEF Reserves
<1>6. FromNum(s.available) = FromNum(r.available) + FromNum(tokens)
  BY <1>1, <1>5, OneAssumption DEF FromNum
<1>7. TotalSupply(s) = TotalSupply(r)
  <2>1. FromNum(r.available) \in Nat BY <1>1, FromNumType
  <2> QED BY <2>1, <1>1, <1>2, <1>5, <1>6 DEF TotalSupply, Reserves
<1> QED BY <1>4, <1>5, <1>7, TotalSupplyType DEF Grows, s
-------------------------------------------------------------------------------
(* The exchange rate. *)

LEMMA ExchangeRateType ==
  ASSUME NEW r \in Reserves, TotalSupply(r) >= 0
  PROVE  /\ ExchangeRate(r).collateral \in Nat \ {0}
         /\ ExchangeRate(r).liquidity \in Nat \ {0}
<1>1. TotalSupply(r) \in Int BY TotalSupplyType
<1>2. r.mintTotalSupply \in Nat BY DEF Reserves
<1> QED BY <1>1, <1>2, OneAssumption DEF ExchangeRate

\* What cTokens are worth is rounded down when they are redeemed.
LEMMA RedemptionRoundsDown ==
  ASSUME NEW mint \in Nat \ {0}, NEW supply \in Nat \ {0}, NEW collateral \in Nat,
         NEW rate, rate.collateral = mint, rate.liquidity = supply
  PROVE  /\ CollateralToLiquidity(rate, collateral) \in Nat
         /\ FromNum(CollateralToLiquidity(rate, collateral)) * mint <= collateral * supply
<1> DEFINE q == (collateral * supply) \div mint
           liquidity == ToFloor(q)
<1>1. collateral * supply \in Nat OBVIOUS
<1>2. q \in Nat /\ q * mint <= collateral * supply BY <1>1, DivBounds
<1>3. CollateralToLiquidity(rate, collateral) = liquidity
  BY DEF CollateralToLiquidity, MulDivFloor
<1> HIDE DEF q
<1>4. liquidity \in Nat /\ FromNum(liquidity) <= q BY <1>2, FloorCeil
<1>5. FromNum(liquidity) \in Nat BY <1>4, FromNumType
<1> HIDE DEF liquidity
<1>6. ASSUME NEW a \in Nat, NEW b \in Nat, a <= b PROVE a * mint <= b * mint
  BY <1>6
<1>7. FromNum(liquidity) * mint <= q * mint BY <1>2, <1>4, <1>5, <1>6
<1>8. /\ FromNum(liquidity) * mint \in Nat
      /\ q * mint \in Nat
  BY <1>2, <1>5
<1> QED BY <1>1, <1>2, <1>3, <1>4, <1>7, <1>8

\* What cTokens cost is rounded up when they are minted.
LEMMA MintingRoundsUp ==
  ASSUME NEW mint \in Nat \ {0}, NEW supply \in Nat \ {0}, NEW collateral \in Nat,
         NEW rate, rate.collateral = mint, rate.liquidity = supply
  PROVE  /\ CollateralToLiquidityCeil(rate, collateral) \in Nat
         /\ FromNum(CollateralToLiquidityCeil(rate, collateral)) * mint
              >= collateral * supply
<1> DEFINE n == collateral * supply + mint - 1
           q == n \div mint
           liquidity == ToCeil(q)
<1>1. collateral * supply \in Nat OBVIOUS
<1>2. n \in Nat BY <1>1
<1> HIDE DEF n
<1>3. q \in Nat /\ n < q * mint + mint BY <1>2, DivBounds
<1>4. CollateralToLiquidityCeil(rate, collateral) = liquidity
  BY DEF CollateralToLiquidityCeil, MulDivCeil, n
<1> HIDE DEF q
<1>5. q * mint \in Nat BY <1>3
<1>6. collateral * supply <= q * mint BY <1>1, <1>3, <1>5 DEF n
<1>7. liquidity \in Nat /\ FromNum(liquidity) >= q BY <1>3, FloorCeil
<1>8. FromNum(liquidity) \in Nat BY <1>7, FromNumType
<1> HIDE DEF liquidity
<1>9. ASSUME NEW a \in Nat, NEW b \in Nat, a <= b PROVE a * mint <= b * mint
  BY <1>9
<1>10. q * mint <= FromNum(liquidity) * mint BY <1>3, <1>7, <1>8, <1>9
<1>11. FromNum(liquidity) * mint \in Nat BY <1>8
<1> QED BY <1>1, <1>4, <1>5, <1>6, <1>7, <1>10, <1>11

\* Neither rounding costs a token.
LEMMA RedemptionLosesLittle ==
  ASSUME NEW mint \in Nat \ {0}, NEW supply \in Nat \ {0}, NEW collateral \in Nat,
         NEW rate, rate.collateral = mint, rate.liquidity = supply
  PROVE  collateral * supply
           < FromNum(CollateralToLiquidity(rate, collateral)) * mint + One * mint
<1> DEFINE q == (collateral * supply) \div mint
           liquidity == ToFloor(q)
<1>1. collateral * supply \in Nat /\ One \in Nat \ {0} BY OneAssumption
<1>2. q \in Nat /\ collateral * supply < q * mint + mint BY <1>1, DivBounds
<1>3. CollateralToLiquidity(rate, collateral) = liquidity
  BY DEF CollateralToLiquidity, MulDivFloor
<1> HIDE DEF q
<1>4. liquidity \in Nat /\ q < liquidity * One + One BY <1>1, <1>2, DivBounds DEF ToFloor
<1> HIDE DEF liquidity
<1>5. FromNum(liquidity) \in Nat /\ FromNum(liquidity) = liquidity * One
  BY <1>4, FromNumType DEF FromNum
<1> DEFINE paid == FromNum(liquidity)
<1> HIDE DEF paid
<1>6. paid \in Nat /\ q + 1 <= paid + One BY <1>1, <1>2, <1>4, <1>5 DEF paid
<1>7. ASSUME NEW a \in Nat, NEW b \in Nat, a + 1 <= b PROVE a * mint + mint <= b * mint
  BY <1>7
<1>8. q * mint + mint <= (paid + One) * mint BY <1>1, <1>2, <1>6, <1>7
<1>9. (paid + One) * mint = paid * mint + One * mint BY <1>1, <1>6
<1>10. q * mint \in Nat /\ paid * mint \in Nat /\ One * mint \in Nat
  BY <1>1, <1>2, <1>6
<1> QED BY <1>1, <1>2, <1>3, <1>8, <1>9, <1>10 DEF paid

LEMMA MintingOverpaysLittle ==
  ASSUME NEW mint \in Nat \ {0}, NEW supply \in Nat \ {0}, NEW collateral \in Nat,
         NEW rate, rate.collateral = mint, rate.liquidity = supply
  PROVE  FromNum(CollateralToLiquidityCeil(rate, collateral)) * mint
           < collateral * supply + One * mint
<1> DEFINE n == collateral * supply + mint - 1
           q == n \div mint
           liquidity == ToCeil(q)
<1>1. collateral * supply \in Nat /\ One \in Nat \ {0} BY OneAssumption
<1>2. n \in Nat /\ n < collateral * supply + mint BY <1>1
<1> HIDE DEF n
<1>3. q \in Nat /\ q * mint <= n BY <1>2, DivBounds
<1>4. CollateralToLiquidityCeil(rate, collateral) = liquidity
  BY DEF CollateralToLiquidityCeil, MulDivCeil, n
<1> HIDE DEF q
<1>5. q + One - 1 \in Nat BY <1>1, <1>3
<1>6. liquidity \in Nat /\ liquidity * One <= q + One - 1
  BY <1>1, <1>5, DivBounds DEF ToCeil
<1> HIDE DEF liquidity
<1> DEFINE paid == FromNum(liquidity)
<1>7. paid \in Nat /\ paid + 1 <= q + One
  BY <1>1, <1>3, <1>6, FromNumType DEF FromNum
<1> HIDE DEF paid
<1>8. ASSUME NEW a \in Nat, NEW b \in Nat, a + 1 <= b PROVE a * mint + mint <= b * mint
  BY <1>8
<1>9. paid * mint + mint <= (q + One) * mint BY <1>1, <1>3, <1>7, <1>8
<1>10. (q + One) * mint = q * mint + One * mint BY <1>1, <1>3
<1>11. q * mint \in Nat /\ paid * mint \in Nat /\ One * mint \in Nat
  BY <1>1, <1>3, <1>7
<1> QED BY <1>1, <1>2, <1>3, <1>4, <1>9, <1>10, <1>11 DEF paid

LEMMA LiquidityToCollateralType ==
  ASSUME NEW rate, rate.collateral \in Nat \ {0}, rate.liquidity \in Nat \ {0},
         NEW amount \in Nat
  PROVE  LiquidityToCollateral(rate, amount) \in Nat
<1>1. FromNum(amount) * rate.collateral \in Nat BY FromNumType
<1> QED BY <1>1, DivBounds DEF LiquidityToCollateral, MulDivFloor

-------------------------------------------------------------------------------
(* Fees. *)

\* The referrer's part is nothing without a referrer or without referral fees.
LEMMA FeesFacts ==
  ASSUME NEW amount \in Nat, NEW feeRate \in Nat, NEW exclusive \in BOOLEAN,
         NEW referralRate \in 0..One, NEW hasReferrer \in BOOLEAN
  PROVE  LET fees == Fees(amount, feeRate, exclusive, referralRate, hasReferrer) IN
         /\ fees.protocol \in Nat
         /\ fees.referrer \in Nat
         /\ ~hasReferrer \/ referralRate = 0 => fees.referrer = 0
<1> DEFINE factor  == IF exclusive THEN feeRate ELSE FDiv(feeRate, feeRate + One)
           charged == ChargedFee(amount, feeRate, exclusive)
           share   == ToFloor(FMul(charged, referralRate))
<1>1. One \in Nat \ {0} /\ referralRate \in Nat BY OneAssumption
<1>2. factor \in Nat
  <2>1. feeRate * One \in Nat /\ feeRate + One \in Nat \ {0} BY <1>1
  <2>2. FDiv(feeRate, feeRate + One) \in Nat BY <2>1, DivBounds DEF FDiv
  <2> QED BY <2>2
<1>3. charged \in Nat
  <2> HIDE DEF factor
  <2>1. FMul(amount, factor) \in Nat BY <1>2, FMulBounds
  <2>2. Larger(One, FMul(amount, factor)) \in Nat BY <1>1, <2>1 DEF Larger
  <2> QED BY <2>2 DEF ChargedFee, factor
<1> HIDE DEF charged
<1>4. ToRound(charged) \in Nat
  <2>1. One \div 2 \in Nat BY <1>1, DivBounds
  <2>2. charged + One \div 2 \in Nat BY <1>3, <2>1
  <2> QED BY <1>1, <2>2, DivBounds DEF ToRound
<1>5. FMul(charged, referralRate) \in Nat BY <1>1, <1>3, FMulBounds
<1>6. share \in Nat BY <1>5, FloorCeil
<1>7. referralRate = 0 => share = 0 /\ referralRate # One
  <2> SUFFICES ASSUME referralRate = 0 PROVE share = 0 /\ referralRate # One OBVIOUS
  <2>1. charged * referralRate = 0 BY <1>3
  <2>2. 0 \div One = 0 BY <1>1, Z3
  <2>3. FMul(charged, referralRate) = 0 BY <2>1, <2>2 DEF FMul
  <2> QED BY <1>1, <2>2, <2>3 DEF ToFloor
<1>11. share <= ToRound(charged)
  <2>1. One \div 2 \in Nat BY <1>1, DivBounds
  <2>2. FMul(charged, referralRate) <= charged + One \div 2
    BY <1>1, <1>3, <1>5, <2>1, FMulBounds
  <2>3. charged + One \div 2 \in Nat BY <1>3, <2>1
  <2> QED BY <1>1, <1>5, <2>2, <2>3, DivMonotone DEF ToFloor, ToRound
<1> HIDE DEF share
<1> DEFINE referrer == IF ~hasReferrer THEN 0
                       ELSE IF referralRate = One THEN ToRound(charged) ELSE share
<1>8. Fees(amount, feeRate, exclusive, referralRate, hasReferrer)
        = IF FeeApplies(amount, feeRate)
          THEN [protocol |-> ToRound(charged) - referrer, referrer |-> referrer]
          ELSE [protocol |-> 0, referrer |-> 0]
  BY DEF Fees, charged, share
<1>9. /\ referrer \in Nat
      /\ ~hasReferrer \/ referralRate = 0 => referrer = 0
      /\ referrer <= ToRound(charged)
  BY <1>4, <1>6, <1>7, <1>11
<1> HIDE DEF referrer
<1>10. ToRound(charged) - referrer \in Nat BY <1>4, <1>9
<1> QED BY <1>8, <1>9, <1>10
===============================================================================
