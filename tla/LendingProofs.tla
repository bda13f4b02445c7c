----------------------------- MODULE LendingProofs -----------------------------
(***************************************************************************)
(* Proofs of Lending: amounts stay natural numbers through every operation *)
(* of the owner, the liquidators and the risk council, orders stay ones    *)
(* the program can execute, checked prices are recent, a deprecated reserve *)
(* freezes what an obligation has in it, what an owner leaves cannot be    *)
(* liquidated at once, and an unhealthy obligation with small debts always *)
(* can be.                                                                 *)
(***************************************************************************)
EXTENDS Keepers, SumProofs

-------------------------------------------------------------------------------
(* Arithmetic                                                                 *)

LEMMA Scale == One \in Nat \ {0}
BY OneAssumption

LEMMA Quotient ==
  ASSUME NEW a \in Int, NEW d \in Nat \ {0}
  PROVE  /\ a \div d \in Int
         /\ a >= 0 => a \div d \in Nat
BY Z3

LEMMA FMulType ==
  ASSUME NEW a \in Int, NEW b \in Int
  PROVE  /\ FMul(a, b) \in Int
         /\ a \in Nat /\ b \in Nat => FMul(a, b) \in Nat
<1>1. a * b \in Int /\ (a \in Nat /\ b \in Nat => a * b \in Nat) OBVIOUS
<1> QED BY <1>1, Scale, Quotient DEF FMul

LEMMA FMulBelow ==
  ASSUME NEW a \in Nat, NEW b \in Nat, b <= One
  PROVE  FMul(a, b) <= a
BY OneAssumption, Z3 DEF FMul

LEMMA FDivType ==
  ASSUME NEW a \in Int, NEW d \in Nat \ {0}
  PROVE  /\ FDiv(a, d) \in Int
         /\ a \in Nat => FDiv(a, d) \in Nat
<1>1. a * One \in Int /\ (a \in Nat => a * One \in Nat) BY Scale
<1> QED BY <1>1, Quotient DEF FDiv

LEMMA FDivBelow ==
  ASSUME NEW a \in Nat, NEW d \in Nat \ {0}, a <= d
  PROVE  FDiv(a, d) <= One
BY OneAssumption, Z3 DEF FDiv

LEMMA Conversions ==
  ASSUME NEW a \in Int
  PROVE  /\ FromNum(a) \in Int /\ ToFloor(a) \in Int /\ ToCeil(a) \in Int
         /\ FromPercent(a) \in Int /\ FromBps(a) \in Int
         /\ a \in Nat => /\ FromNum(a) \in Nat /\ ToFloor(a) \in Nat
                         /\ FromPercent(a) \in Nat /\ FromBps(a) \in Nat
<1>1. a * One \in Int /\ (a \in Nat => a * One \in Nat) BY Scale
<1>2. a + One - 1 \in Int BY Scale
<1>3. FromNum(a) \in Int /\ (a \in Nat => FromNum(a) \in Nat) BY <1>1 DEF FromNum
<1>4. ToFloor(a) \in Int /\ (a \in Nat => ToFloor(a) \in Nat) BY Scale, Quotient DEF ToFloor
<1>5. ToCeil(a) \in Int BY <1>2, Scale, Quotient DEF ToCeil
<1>6. FromPercent(a) \in Int /\ (a \in Nat => FromPercent(a) \in Nat)
  BY <1>1, Quotient DEF FromPercent
<1>7. FromBps(a) \in Int /\ (a \in Nat => FromBps(a) \in Nat)
  BY <1>1, Quotient DEF FromBps
<1> QED BY <1>3, <1>4, <1>5, <1>6, <1>7

LEMMA PercentPositive ==
  ASSUME NEW p \in Nat, p >= 100
  PROVE  FromPercent(p) \in Nat \ {0}
<1>1. p * One \in Nat /\ p * One >= 100
  BY OneAssumption, Z3
<1> DEFINE q == p * One
<1>2. (q \div 100) \in Nat /\ q \div 100 # 0
  <2>1. q \in Nat /\ q >= 100 BY <1>1
  <2> HIDE DEF q
  <2> QED BY <2>1
<1> QED BY <1>2 DEF FromPercent

LEMMA QuotientBounds ==
  ASSUME NEW a \in Int, NEW d \in Nat \ {0}
  PROVE  /\ a \div d \in Int
         /\ d * (a \div d) <= a
         /\ a < d * (a \div d) + d
BY Z3

LEMMA QuotientLeast ==
  ASSUME NEW a \in Int, NEW d \in Nat \ {0}, NEW q \in Int, d * q <= a
  PROVE  q <= a \div d
<1> DEFINE z == a \div d
<1>1. z \in Int /\ a < d * z + d BY QuotientBounds
<1> HIDE DEF z
<1>2. d * q < d * (z + 1) BY <1>1, Z3
<1>3. q < z + 1 BY <1>1, <1>2, Z3
<1> QED BY <1>1, <1>3 DEF z

LEMMA QuotientMost ==
  ASSUME NEW a \in Int, NEW d \in Nat \ {0}, NEW q \in Int, a < d * q + d
  PROVE  a \div d <= q
<1> DEFINE z == a \div d
<1>1. z \in Int /\ d * z <= a BY QuotientBounds
<1> HIDE DEF z
<1>2. d * z < d * (q + 1) BY <1>1, Z3
<1>3. z < q + 1 BY <1>1, <1>2, Z3
<1> QED BY <1>1, <1>3 DEF z

LEMMA FMulAbove ==
  ASSUME NEW a \in Nat, NEW b \in Nat, One <= b
  PROVE  a <= FMul(a, b)
<1> DEFINE x == a * b
<1>1. One \in Nat \ {0} BY OneAssumption
<1>2. x \in Int /\ One * a <= x BY <1>1, Z3
<1> HIDE DEF x
<1>3. a <= x \div One BY <1>1, <1>2, QuotientLeast
<1> QED BY <1>3 DEF FMul, x

LEMMA PercentAbove ==
  ASSUME NEW p \in Nat, p >= 100
  PROVE  One <= FromPercent(p)
<1> DEFINE x == p * One
<1>1. One \in Nat \ {0} BY OneAssumption
<1>2. x \in Int /\ 100 * One <= x BY <1>1, Z3
<1> HIDE DEF x
<1>3. One <= x \div 100 BY <1>1, <1>2, QuotientLeast
<1> QED BY <1>3 DEF FromPercent, x

LEMMA PercentBelow ==
  ASSUME NEW p \in 0..100
  PROVE  FromPercent(p) \in Nat /\ FromPercent(p) <= One
<1> DEFINE x == p * One
<1>1. One \in Nat \ {0} BY OneAssumption
<1>2. x \in Int /\ x <= 100 * One BY <1>1, Z3
<1> HIDE DEF x
<1>3. x < 100 * One + 100 BY <1>1, <1>2
<1>4. x \div 100 <= One BY <1>1, <1>2, <1>3, QuotientMost
<1>5. FromPercent(p) \in Nat BY Conversions
<1> QED BY <1>4, <1>5 DEF FromPercent, x

\* What an amount is worth, in two parts.
LEMMA FMulParts ==
  ASSUME NEW a \in Nat, NEW b \in Nat, NEW p \in Nat
  PROVE  /\ FMul(a, p) + FMul(b, p) <= FMul(a + b, p)
         /\ FMul(a + b, p) <= FMul(a, p) + FMul(b, p) + 1
<1> DEFINE x == a * p
           y == b * p
           u == x \div One
           v == y \div One
<1>1. x \in Int /\ y \in Int /\ (a + b) * p = x + y BY Z3
<1> HIDE DEF x, y
<1>2. One \in Nat \ {0} BY OneAssumption
<1>3. u \in Int /\ One * u <= x /\ x < One * u + One BY <1>1, <1>2, QuotientBounds
<1>4. v \in Int /\ One * v <= y /\ y < One * v + One BY <1>1, <1>2, QuotientBounds
<1> HIDE DEF u, v
<1>5. One * (u + v) <= x + y BY <1>1, <1>2, <1>3, <1>4, Z3
<1>6. x + y < One * (u + v + 1) + One BY <1>1, <1>2, <1>3, <1>4, Z3
<1>7. u + v <= (x + y) \div One BY <1>1, <1>2, <1>3, <1>4, <1>5, QuotientLeast
<1>8. (x + y) \div One <= u + v + 1 BY <1>1, <1>2, <1>3, <1>4, <1>6, QuotientMost
<1> QED BY <1>1, <1>7, <1>8 DEF FMul, u, v, x, y

LEMMA FMulMonotone ==
  ASSUME NEW a \in Nat, NEW b \in Nat, NEW p \in Nat, NEW q \in Nat, a <= b, p <= q
  PROVE  FMul(a, p) <= FMul(b, q)
<1> DEFINE x == a * p
           y == b * q
           u == x \div One
<1>1. x \in Int /\ y \in Int /\ x <= y BY Z3
<1> HIDE DEF x, y
<1>2. One \in Nat \ {0} BY OneAssumption
<1>3. u \in Int /\ One * u <= x BY <1>1, <1>2, QuotientBounds
<1> HIDE DEF u
<1>4. One * u <= y BY <1>1, <1>2, <1>3, Z3
<1>5. u <= y \div One BY <1>1, <1>2, <1>3, <1>4, QuotientLeast
<1> QED BY <1>5 DEF FMul, u, x, y

LEMMA FromNumExact ==
  ASSUME NEW n \in Nat, NEW p \in Nat
  PROVE  FMul(FromNum(n), p) = n * p
<1>1. One \in Nat \ {0} BY OneAssumption
<1> DEFINE x == n * p
           y == (n * One) * p
<1>2. x \in Int /\ y = One * x BY <1>1, Z3
<1> HIDE DEF x
<1>3. y \in Int BY <1>1, <1>2
<1> HIDE DEF y
<1>4. x <= y \div One BY <1>1, <1>2, <1>3, QuotientLeast
<1>5. y < One * x + One BY <1>1, <1>2, <1>3, Z3
<1>6. y \div One <= x BY <1>1, <1>2, <1>3, <1>5, QuotientMost
<1>7. y \div One \in Int BY <1>1, <1>3, QuotientBounds
<1> QED BY <1>2, <1>4, <1>6, <1>7 DEF FMul, FromNum, x, y

\* Loan to values of the same deposits compare as the debts do.
LEMMA LtvBelow ==
  ASSUME NEW a \in Nat, NEW b \in Int, NEW d \in Nat \ {0}, Ltv(a, d) < Ltv(b, d)
  PROVE  a < b
<1> DEFINE x == a * One
           y == b * One
           u == x \div d
           v == y \div d
<1>1. One \in Nat \ {0} BY OneAssumption
<1>2. x \in Int /\ y \in Int BY <1>1
<1>3. u < v BY DEF Ltv, FDiv
<1> HIDE DEF x, y
<1>4. u \in Int /\ x < d * u + d BY <1>2, QuotientBounds
<1>5. v \in Int /\ d * v <= y BY <1>2, QuotientBounds
<1> HIDE DEF u, v
<1>6. u + 1 <= v BY <1>3, <1>4, <1>5
<1>7. d * u + d <= d * v BY <1>4, <1>5, <1>6, Z3
<1>8. x < y BY <1>2, <1>4, <1>5, <1>7, Z3
<1>9. a * One < b * One BY <1>8 DEF x, y
<1> QED BY <1>1, <1>9, Z3

\* A debt that is more than a unit for every One of deposits below another one is a
\* lower loan to value.
LEMMA LtvApart ==
  ASSUME NEW a \in Nat, NEW b \in Nat, NEW d \in Nat \ {0}, a + d \div One + 1 <= b
  PROVE  Ltv(a, d) < Ltv(b, d)
<1> DEFINE x == a * One
           y == b * One
           q == d \div One
           u == x \div d
<1>1. One \in Nat \ {0} BY OneAssumption
<1>2. x \in Int /\ y \in Int BY <1>1
<1>3. q \in Int /\ d < One * q + One BY <1>1, QuotientBounds
<1>4. a + q + 1 <= b OBVIOUS
<1> HIDE DEF q
<1>5. y >= x + One * q + One BY <1>1, <1>3, <1>4, Z3
<1> HIDE DEF x, y
<1>6. u \in Int /\ d * u <= x BY <1>2, QuotientBounds
<1> HIDE DEF u
<1>7. One * q \in Int BY <1>1, <1>3
<1>8. d * u + d <= y BY <1>1, <1>2, <1>3, <1>5, <1>6, <1>7, Z3
<1>9. d * (u + 1) <= y BY <1>2, <1>6, <1>8, Z3
<1>10. u + 1 <= y \div d BY <1>2, <1>6, <1>9, QuotientLeast
<1>11. y \div d \in Int BY <1>2, QuotientBounds
<1>12. u < y \div d BY <1>6, <1>10, <1>11
<1> QED BY <1>12 DEF Ltv, FDiv, u, x, y

\* The weight of a new debt, in two parts.
LEMMA WeightParts ==
  ASSUME NEW x \in Nat, NEW y \in Nat, NEW F \in Nat
  PROVE  FMul(x + y + 1, FromPercent(F))
           <= FMul(x, FromPercent(F)) + FMul(y, FromPercent(F)) + F \div 100 + 2
<1> DEFINE f == FromPercent(F)
           q == F \div 100
<1>1. One \in Nat \ {0} BY OneAssumption
<1>2. f \in Nat BY Conversions
<1>3. q \in Int /\ F < 100 * q + 100 BY QuotientBounds
<1>4. 100 * f <= F * One
  <2>1. F * One \in Int BY <1>1
  <2> QED BY <2>1, QuotientBounds DEF FromPercent
<1> HIDE DEF f, q
<1>5. F * One < (100 * q + 100) * One BY <1>1, <1>3, Z3
<1>6. f < One * q + One BY <1>1, <1>2, <1>3, <1>4, <1>5, Z3
<1>7. FMul(1, f) <= q
  <2>1. f \div One <= q BY <1>1, <1>2, <1>3, <1>6, QuotientMost
  <2>2. 1 * f = f BY <1>2
  <2> QED BY <2>1, <2>2 DEF FMul
<1>8. FMul((x + y) + 1, f) <= FMul(x + y, f) + FMul(1, f) + 1 BY <1>2, FMulParts
<1>9. FMul(x + y, f) <= FMul(x, f) + FMul(y, f) + 1 BY <1>2, FMulParts
<1>10. /\ FMul(x, f) \in Int /\ FMul(y, f) \in Int /\ FMul(x + y, f) \in Int
       /\ FMul(1, f) \in Int /\ FMul(x + y + 1, f) \in Int
  BY <1>2, FMulType
<1> QED BY <1>3, <1>7, <1>8, <1>9, <1>10 DEF f, q

\* The most that may be borrowed is worth no more than what is left of the limit.
LEMMA MostWithin ==
  ASSUME NEW X \in Nat, NEW p \in Nat \ {0}, NEW f \in Nat \ {0}, NEW amount \in Nat,
         amount <= FDiv(FDiv(X, p), f)
  PROVE  FMul(FMul(amount, p), f) <= X
<1> DEFINE a == FDiv(X, p)
           b == FDiv(a, f)
           v == FMul(amount, p)
<1>1. One \in Nat \ {0} BY OneAssumption
<1>2. a \in Nat /\ p * a <= X * One
  <2>1. X * One \in Nat BY <1>1
  <2> QED BY <2>1, Quotient, QuotientBounds DEF FDiv
<1> HIDE DEF a
<1>3. b \in Nat /\ f * b <= a * One
  <2>1. a * One \in Nat BY <1>1, <1>2
  <2> QED BY <2>1, Quotient, QuotientBounds DEF FDiv
<1>4. amount <= b BY DEF a
<1> HIDE DEF b
<1>5. v \in Nat /\ One * v <= amount * p
  <2> DEFINE q == amount * p
  <2>1. q \in Int /\ q >= 0 BY Z3
  <2> HIDE DEF q
  <2>2. q \div One \in Nat /\ One * (q \div One) <= q
    BY <1>1, <2>1, Quotient, QuotientBounds
  <2> QED BY <2>2 DEF FMul, q
<1> HIDE DEF v
<1>6. f * amount <= f * b BY <1>3, <1>4, Z3
<1>7. f * amount <= a * One BY <1>1, <1>2, <1>3, <1>6, Z3
<1>8. (f * amount) * p <= (a * One) * p
  <2> DEFINE x == f * amount
             y == a * One
  <2>1. x \in Nat /\ y \in Nat /\ x <= y BY <1>1, <1>2, <1>7, Z3
  <2> HIDE DEF x, y
  <2>2. x * p <= y * p BY <2>1, Z3
  <2> QED BY <2>2 DEF x, y
<1>9. (a * One) * p <= (X * One) * One
  <2> DEFINE x == p * a
             y == X * One
  <2>1. x \in Nat /\ y \in Nat /\ x <= y BY <1>1, <1>2, Z3
  <2>2. (a * One) * p = x * One BY <1>1, <1>2, Z3
  <2> HIDE DEF x, y
  <2>3. x * One <= y * One BY <1>1, <2>1, Z3
  <2> QED BY <2>2, <2>3 DEF y
<1>10. (One * v) * f <= (amount * p) * f
  <2> DEFINE x == One * v
             y == amount * p
  <2>1. x \in Nat /\ y \in Nat /\ x <= y BY <1>1, <1>5, Z3
  <2> HIDE DEF x, y
  <2>2. x * f <= y * f BY <2>1, Z3
  <2> QED BY <2>2 DEF x, y
<1>11. One * (v * f) <= One * (X * One)
  <2>1. (One * v) * f = One * (v * f) /\ (amount * p) * f = (f * amount) * p
        /\ (X * One) * One = One * (X * One)
    BY <1>1, <1>5, Z3
  <2>2. /\ (One * v) * f \in Int /\ (amount * p) * f \in Int /\ (a * One) * p \in Int
        /\ (X * One) * One \in Int
    BY <1>1, <1>2, <1>5, Z3
  <2> QED BY <1>8, <1>9, <1>10, <2>1, <2>2
<1>12. v * f <= X * One
  <2> DEFINE x == v * f
             y == X * One
  <2>1. x \in Nat /\ y \in Nat /\ One * x <= One * y BY <1>1, <1>5, <1>11, Z3
  <2> HIDE DEF x, y
  <2>2. x <= y BY <1>1, <2>1, Z3
  <2> QED BY <2>2 DEF x, y
<1>13. (v * f) \div One <= X
  <2> DEFINE x == v * f
  <2>1. x \in Int /\ x < One * X + One BY <1>1, <1>5, <1>12, Z3
  <2> HIDE DEF x
  <2>2. x \div One <= X BY <1>1, <2>1, QuotientMost
  <2> QED BY <2>2 DEF x
<1> QED BY <1>13 DEF FMul, v

\* The part of an amount rounded up is worth no less than the part.
LEMMA PartRoundedUp ==
  ASSUME NEW D \in Nat \ {0}, NEW n \in Nat, NEW p \in Nat
  PROVE  n * p <= FMul(D * p, MulDivCeil(FromNum(n), One, FromNum(D)))
<1> DEFINE N == (n * One) * One
           d == D * One
           q == (N + d - 1) \div d
           v == (D * p) * q
<1>1. One \in Nat \ {0} BY OneAssumption
<1>2. N \in Int /\ d \in Nat \ {0} BY <1>1, Z3
<1>3. MulDivCeil(FromNum(n), One, FromNum(D)) = q BY DEF MulDivCeil, FromNum
<1>a. N = One * (n * One) /\ d = One * D BY <1>1, Z3
<1> HIDE DEF N, d
<1>4. q \in Int /\ N + d - 1 < d * q + d
  <2>1. N + d - 1 \in Int BY <1>2
  <2> QED BY <1>2, <2>1, QuotientBounds
<1> HIDE DEF q
<1>5. N <= d * q
  <2>1. d * q \in Int BY <1>2, <1>4
  <2> QED BY <1>2, <1>4, <2>1
<1>6. n * One <= D * q
  <2> DEFINE x == n * One
             y == D * q
  <2>1. x \in Int /\ y \in Int BY <1>1, <1>4
  <2>2. One * x <= One * y BY <1>1, <1>4, <1>5, <1>a, Z3
  <2> HIDE DEF x, y
  <2>3. x <= y BY <1>1, <2>1, <2>2, Z3
  <2> QED BY <2>3 DEF x, y
<1>7. One * (n * p) <= v
  <2> DEFINE x == n * One
             y == D * q
  <2>1. x \in Int /\ y \in Int /\ x <= y BY <1>1, <1>4, <1>6
  <2>2. One * (n * p) = x * p /\ v = y * p BY <1>1, <1>4, Z3
  <2> HIDE DEF x, y
  <2>3. x * p <= y * p BY <2>1, Z3
  <2> QED BY <2>2, <2>3
<1>8. v \in Int /\ n * p \in Int BY <1>4
<1>9. FMul(D * p, q) = v \div One BY DEF FMul
<1> HIDE DEF v
<1>10. n * p <= v \div One
  <2> DEFINE x == n * p
  <2>1. x \in Int /\ One * x <= v BY <1>7, <1>8
  <2> HIDE DEF x
  <2>2. x <= v \div One BY <1>1, <1>8, <2>1, QuotientLeast
  <2> QED BY <2>2 DEF x
<1> QED BY <1>3, <1>9, <1>10

\* The part of an amount that a value of it buys is worth no more than that value.
LEMMA PartRoundedDown ==
  ASSUME NEW D \in Nat, NEW p \in Nat, D * p # 0, NEW v \in Nat
  PROVE  ToFloor(FDiv(v, D * p) * D) * p <= v
<1> DEFINE V == D * p
           x == v * One
           q == x \div V
           y == q * D
           n == y \div One
<1>1. One \in Nat \ {0} BY OneAssumption
<1>2. V \in Nat \ {0} /\ x \in Int BY <1>1, Z3
<1>3. FDiv(v, D * p) = q BY DEF FDiv
<1> HIDE DEF x
<1>a. V = D * p OBVIOUS
<1> HIDE DEF V
<1>4. q \in Int /\ V * q <= x BY <1>2, QuotientBounds
<1> HIDE DEF q
<1>5. y \in Int BY <1>4
<1>b. y = q * D OBVIOUS
<1> HIDE DEF y
<1>6. n \in Int /\ One * n <= y BY <1>1, <1>5, QuotientBounds
<1>7. ToFloor(q * D) = n BY DEF ToFloor, y
<1> HIDE DEF n
<1>8. (One * n) * p <= y * p
  <2> DEFINE z == One * n
  <2>1. z \in Int /\ z <= y BY <1>1, <1>6
  <2> HIDE DEF z
  <2>2. z * p <= y * p BY <1>5, <2>1, Z3
  <2> QED BY <2>2 DEF z
<1>9. y * p = V * q BY <1>a, <1>b, <1>4, Z3
<1>10. (One * n) * p = One * (n * p) /\ n * p \in Int BY <1>1, <1>6, Z3
<1>11. One * (n * p) <= One * v
  <2>1. x = One * v BY <1>1 DEF x
  <2>2. /\ V * q \in Int /\ (One * n) * p \in Int BY <1>1, <1>2, <1>4, <1>6
  <2> QED BY <1>2, <1>4, <1>8, <1>9, <1>10, <2>1, <2>2
<1>12. n * p <= v
  <2> DEFINE z == n * p
  <2>1. z \in Int /\ One * z <= One * v BY <1>10, <1>11
  <2> HIDE DEF z
  <2>2. z <= v BY <1>1, <2>1, Z3
  <2> QED BY <2>2 DEF z
<1> QED BY <1>3, <1>7, <1>12

\* What is worth at most a value over a percent backs at most that value.
LEMMA BacksAtMost ==
  ASSUME NEW x \in Nat, NEW s \in Nat, NEW q \in Nat \ {0}, x <= (s * 100) \div q
  PROVE  FMul(x, FromPercent(q)) <= s
<1> DEFINE m == (s * 100) \div q
           f == FromPercent(q)
           v == x * f
<1>1. One \in Nat \ {0} BY OneAssumption
<1>2. f \in Nat BY Conversions
<1>3. 100 * f <= q * One
  <2>1. q * One \in Int BY <1>1
  <2> QED BY <2>1, QuotientBounds DEF FromPercent
<1>4. m \in Int /\ q * m <= s * 100
  <2>1. s * 100 \in Int OBVIOUS
  <2> QED BY <2>1, QuotientBounds
<1>5. x <= m OBVIOUS
<1> HIDE DEF m, f
<1>6. q * x <= s * 100
  <2>1. q * x <= q * m BY <1>4, <1>5, Z3
  <2> QED BY <1>4, <2>1
<1>7. x * (100 * f) <= x * (q * One)
  <2> DEFINE a == 100 * f
             b == q * One
  <2>1. a \in Int /\ b \in Int /\ a <= b BY <1>1, <1>2, <1>3
  <2> HIDE DEF a, b
  <2>2. x * a <= x * b BY <2>1, Z3
  <2> QED BY <2>2 DEF a, b
<1>8. (q * x) * One <= (s * 100) * One
  <2> DEFINE a == q * x
             b == s * 100
  <2>1. a \in Int /\ b \in Int /\ a <= b BY <1>6
  <2> HIDE DEF a, b
  <2>2. a * One <= b * One BY <1>1, <2>1, Z3
  <2> QED BY <2>2 DEF a, b
<1>9. v <= One * s
  <2>1. x * (100 * f) = 100 * v BY <1>2, Z3
  <2>2. x * (q * One) = (q * x) * One BY <1>1, Z3
  <2>3. (s * 100) * One = 100 * (One * s) BY <1>1, Z3
  <2> DEFINE w == One * s
  <2>4. v \in Int /\ w \in Int BY <1>1, <1>2
  <2>5. (q * x) * One \in Int BY <1>1
  <2>6. 100 * v <= 100 * w BY <1>7, <1>8, <2>1, <2>2, <2>3, <2>4, <2>5
  <2> HIDE DEF v, w
  <2>7. v <= w BY <2>4, <2>6
  <2> QED BY <2>7 DEF w
<1>10. v \in Int BY <1>2
<1>11. FMul(x, f) = v \div One BY DEF FMul
<1> HIDE DEF v
<1>12. v < One * s + One
  <2>1. One * s \in Int BY <1>1
  <2> QED BY <1>1, <1>9, <1>10, <2>1
<1>13. v \div One <= s BY <1>1, <1>10, <1>12, QuotientMost
<1> QED BY <1>11, <1>13 DEF f

\* A percentage of nothing, and zero percent, are nothing.
LEMMA NothingBacked ==
  ASSUME NEW v \in Nat, NEW q \in Nat, FMul(v, FromPercent(q)) # 0
  PROVE  v # 0 /\ q # 0
<1>1. One \in Nat \ {0} BY OneAssumption
<1>2. FromPercent(q) \in Nat BY Conversions
<1>3. 0 \div One = 0 BY <1>1
<1>4. v # 0
  <2>1. 0 * FromPercent(q) = 0 BY <1>2
  <2> QED BY <1>3, <2>1 DEF FMul
<1>5. q # 0
  <2>1. 0 * One = 0 /\ 0 \div 100 = 0 /\ v * 0 = 0 BY <1>1
  <2> QED BY <1>3, <2>1 DEF FMul, FromPercent
<1> QED BY <1>4, <1>5

-------------------------------------------------------------------------------
(* Folds over the positions                                                   *)

LEMMA Members ==
  ASSUME NEW S \in SUBSET Reserves
  PROVE  IsFiniteSet(S)
BY PositionAssumption, FS_Subset

LEMMA TotalType ==
  ASSUME NEW S \in SUBSET Reserves, NEW values, \A r \in S : values[r] \in Nat
  PROVE  Total(values, S) \in Nat
<1>1. Total(values, S) = SumFunctionOnSet(values, S) BY DEF Total, SumFunctionOnSet
<1> QED BY <1>1, Members, SumNatural

LEMMA LowestType ==
  ASSUME NEW S \in SUBSET Reserves, NEW values, NEW top, NEW Values,
         Values \subseteq Int, top \in Values, \A r \in S : values[r] \in Values
  PROVE  Lowest(values, S, top) \in Values
<1> DEFINE Eq(g) == g = [s \in SUBSET S |-> IF s = {} THEN top
                         ELSE Smaller(values[Pick(s)], g[s \ {Pick(s)}])]
           h == [p \in S \X Values |-> Smaller(values[p[1]], p[2])]
           c == CHOOSE g : Eq(g)
<1>1. Lowest(values, S, top) = c[S]
  BY DEF Lowest, FoldFunctionOnSet, MapThenFoldSet, Pick
<1>2. \A s \in SUBSET S : s # {} => Pick(s) \in s /\ values[Pick(s)] \in Values BY DEF Pick
<1>3. IsFiniteSet(S) BY Members
<1>4. \A v, w \in Values : Smaller(v, w) \in Values BY DEF Smaller
<1>5. PICK g \in [SUBSET S -> Values] : Folding(h, top, S, g)
  <2>1. h \in [S \X Values -> Values] BY <1>4
  <2> HIDE DEF h
  <2> QED BY <1>3, <2>1, FoldWithin
<1>6. Eq(g)
  <2>1. \A s \in SUBSET S : s # {} => h[<<Pick(s), g[s \ {Pick(s)}]>>]
                                        = Smaller(values[Pick(s)], g[s \ {Pick(s)}])
    BY <1>2
  <2> HIDE DEF h
  <2> QED BY <1>5, <2>1 DEF Folding
<1>7. Eq(c)
  <2> HIDE DEF Eq
  <2> QED BY <1>6
<1>8. \A s \in SUBSET S : c[s] \in Values
  <2> HIDE DEF c
  <2>1. c[{}] \in Values BY <1>7
  <2>2. ASSUME NEW s \in SUBSET S, s # {}, c[s \ {Pick(s)}] \in Values
        PROVE  c[s] \in Values
    <3> DEFINE v == values[Pick(s)]
               w == c[s \ {Pick(s)}]
    <3>1. c[s] = Smaller(v, w) BY <1>7, <2>2
    <3>2. v \in Values /\ w \in Values BY <1>2, <2>2
    <3> HIDE DEF Eq, v, w
    <3>3. Smaller(v, w) \in Values BY <1>4, <3>2
    <3> QED BY <3>1, <3>3
  <2> HIDE DEF Eq
  <2> QED BY <1>3, <2>1, <2>2, StepInduction
<1> QED BY <1>1, <1>8

LEMMA HighestType ==
  ASSUME NEW S \in SUBSET Reserves, NEW values, NEW bottom, NEW Values,
         Values \subseteq Int, bottom \in Values, \A r \in S : values[r] \in Values
  PROVE  Highest(values, S, bottom) \in Values
<1> DEFINE Eq(g) == g = [s \in SUBSET S |-> IF s = {} THEN bottom
                         ELSE Larger(values[Pick(s)], g[s \ {Pick(s)}])]
           h == [p \in S \X Values |-> Larger(values[p[1]], p[2])]
           c == CHOOSE g : Eq(g)
<1>1. Highest(values, S, bottom) = c[S]
  BY DEF Highest, FoldFunctionOnSet, MapThenFoldSet, Pick
<1>2. \A s \in SUBSET S : s # {} => Pick(s) \in s /\ values[Pick(s)] \in Values BY DEF Pick
<1>3. IsFiniteSet(S) BY Members
<1>4. \A v, w \in Values : Larger(v, w) \in Values BY DEF Larger
<1>5. PICK g \in [SUBSET S -> Values] : Folding(h, bottom, S, g)
  <2>1. h \in [S \X Values -> Values] BY <1>4
  <2> HIDE DEF h
  <2> QED BY <1>3, <2>1, FoldWithin
<1>6. Eq(g)
  <2>1. \A s \in SUBSET S : s # {} => h[<<Pick(s), g[s \ {Pick(s)}]>>]
                                        = Larger(values[Pick(s)], g[s \ {Pick(s)}])
    BY <1>2
  <2> HIDE DEF h
  <2> QED BY <1>5, <2>1 DEF Folding
<1>7. Eq(c)
  <2> HIDE DEF Eq
  <2> QED BY <1>6
<1>8. \A s \in SUBSET S : c[s] \in Values
  <2> HIDE DEF c
  <2>1. c[{}] \in Values BY <1>7
  <2>2. ASSUME NEW s \in SUBSET S, s # {}, c[s \ {Pick(s)}] \in Values
        PROVE  c[s] \in Values
    <3> DEFINE v == values[Pick(s)]
               w == c[s \ {Pick(s)}]
    <3>1. c[s] = Larger(v, w) BY <1>7, <2>2
    <3>2. v \in Values /\ w \in Values BY <1>2, <2>2
    <3> HIDE DEF Eq, v, w
    <3>3. Larger(v, w) \in Values BY <1>4, <3>2
    <3> QED BY <3>1, <3>3
  <2> HIDE DEF Eq
  <2> QED BY <1>3, <2>1, <2>2, StepInduction
<1> QED BY <1>1, <1>8
-------------------------------------------------------------------------------
(* What a refresh leaves                                                      *)

LEMMA PercentsType ==
  ASSUME NEW o \in ObligationRecords, NEW r \in Reserves
  PROVE  LtvOf(o, r) \in Nat /\ ThresholdOf(o, r) \in Nat /\ FactorOf(o, r) \in Nat
         /\ FactorOf(o, r) >= 100 /\ BorrowFactor[r] \in Nat
<1>1. InGroup(o) => o.group \in Groups BY DEF InGroup, ObligationRecords
<1> DEFINE x == IF InGroup(o) THEN o.group ELSE r
<1>2. x \in Reserves \cup Groups BY <1>1
<1> HIDE DEF x
<1>3. LoanToValue[x] \in 0..100 /\ LiquidationThreshold[x] \in 0..100
  BY <1>2, PositionAssumption
<1>4. LtvOf(o, r) \in Nat /\ ThresholdOf(o, r) \in Nat
  BY <1>3 DEF LtvOf, ThresholdOf, x
<1>5. BorrowFactor[r] \in Nat /\ BorrowFactor[r] >= 100 BY PositionAssumption
<1> QED BY <1>4, <1>5 DEF FactorOf

LEMMA ThresholdPercent ==
  ASSUME NEW o \in ObligationRecords, NEW r \in Reserves
  PROVE  ThresholdOf(o, r) \in 0..100
<1> DEFINE x == IF InGroup(o) THEN o.group ELSE r
<1>1. x \in Reserves \cup Groups BY DEF InGroup, ObligationRecords
<1> HIDE DEF x
<1>2. LiquidationThreshold[x] \in 0..100 BY <1>1, PositionAssumption
<1> QED BY <1>2 DEF ThresholdOf, x

LEMMA ValueType ==
  ASSUME NEW a \in Int, NEW rs \in [Reserves -> ReserveRecords], NEW r \in Reserves
  PROVE  /\ ValueOf(a, rs, r) \in Int
         /\ a \in Nat => ValueOf(a, rs, r) \in Nat
<1>1. rs[r].price \in Nat BY DEF ReserveRecords
<1> DEFINE price == rs[r].price
<1>2. price \in Nat /\ price \in Int BY <1>1
<1> HIDE DEF price
<1>3. FMul(a, price) \in Int /\ (a \in Nat => FMul(a, price) \in Nat) BY <1>2, FMulType
<1> QED BY <1>3 DEF ValueOf, price

LEMMA WeightedType ==
  ASSUME NEW o \in ObligationRecords, NEW r \in Reserves, NEW v \in Nat
  PROVE  /\ Weighted(o, r, v) \in Nat
         /\ v = 0 => Weighted(o, r, v) = 0
<1>1. FromPercent(FactorOf(o, r)) \in Nat BY PercentsType, Conversions
<1>2. Weighted(o, r, v) \in Nat
  <2> DEFINE f == FromPercent(FactorOf(o, r))
  <2>1. f \in Nat /\ f \in Int /\ v \in Int BY <1>1
  <2> HIDE DEF f
  <2>2. FMul(v, f) \in Nat BY <2>1, FMulType
  <2> QED BY <2>2 DEF Weighted, f
<1>3. v = 0 => Weighted(o, r, v) = 0
  <2> DEFINE f == FromPercent(FactorOf(o, r))
  <2>1. f \in Nat BY <1>1
  <2> HIDE DEF f
  <2>2. 0 * f = 0 BY <2>1
  <2>3. 0 \div One = 0 BY OneAssumption
  <2> QED BY <2>2, <2>3 DEF Weighted, FMul, f
<1> QED BY <1>2, <1>3

LEMMA BackedType ==
  ASSUME NEW o \in ObligationRecords, NEW rs \in [Reserves -> ReserveRecords],
         NEW pct, \A r \in Reserves : pct[r] \in Nat
  PROVE  BackedBy(o, rs, pct) \in Nat
<1> DEFINE f == [r \in Reserves |->
                   FMul(ValueOf(FromNum(o.deposits[r]), rs, r), FromPercent(pct[r]))]
<1>1. ASSUME NEW r \in Reserves PROVE f[r] \in Nat
  <2>1. o.deposits[r] \in Nat BY DEF ObligationRecords
  <2>2. FromNum(o.deposits[r]) \in Nat BY <2>1, Conversions
  <2>3. ValueOf(FromNum(o.deposits[r]), rs, r) \in Nat BY <2>2, ValueType
  <2>4. FromPercent(pct[r]) \in Nat BY Conversions
  <2> QED BY <2>3, <2>4, FMulType
<1>2. Deposits(o) \in SUBSET Reserves BY DEF Deposits
<1> HIDE DEF f
<1>3. Total(f, Deposits(o)) \in Nat BY <1>1, <1>2, TotalType
<1> QED BY <1>3 DEF BackedBy, f

LEMMA HealthType ==
  ASSUME NEW o \in ObligationRecords, NEW rs \in [Reserves -> ReserveRecords]
  PROVE  HealthOf(o, rs) \in Health
<1> DEFINE values == [r \in Reserves |-> ValueOf(FromNum(o.deposits[r]), rs, r)]
           debtValues == [r \in Reserves |-> ValueOf(o.debts[r], rs, r)]
           weighted == [r \in Reserves |-> Weighted(o, r, debtValues[r])]
           ltvs == [r \in Reserves |-> LtvOf(o, r)]
           thresholds == [r \in Reserves |-> ThresholdOf(o, r)]
           factors == [r \in Reserves |-> FactorOf(o, r)]
           liquidatable == {r \in Deposits(o) : values[r] >= SkipLtvBelow /\ thresholds[r] > 0}
           considered == {r \in Borrows(o) : debtValues[r] >= SkipFactorBelow}
<1>1. values \in [Reserves -> Nat] /\ debtValues \in [Reserves -> Nat]
  <2>1. ASSUME NEW r \in Reserves PROVE values[r] \in Nat /\ debtValues[r] \in Nat
    <3>1. o.deposits[r] \in Nat /\ o.debts[r] \in Nat BY DEF ObligationRecords
    <3>2. FromNum(o.deposits[r]) \in Nat BY <3>1, Conversions
    <3> QED BY <3>1, <3>2, ValueType
  <2> QED BY <2>1
<1>2. \A r \in Reserves : weighted[r] \in Nat
  <2> HIDE DEF debtValues
  <2> QED BY <1>1, WeightedType
<1>3. \A r \in Reserves : ltvs[r] \in Nat /\ thresholds[r] \in Nat /\ factors[r] \in Nat
  BY PercentsType
<1>4. /\ Deposits(o) \in SUBSET Reserves /\ Borrows(o) \in SUBSET Reserves
      /\ liquidatable \in SUBSET Reserves /\ considered \in SUBSET Reserves
  BY DEF Deposits, Borrows
<1> HIDE DEF values, debtValues, weighted, ltvs, thresholds, factors, liquidatable, considered
<1>5. /\ Total(values, Deposits(o)) \in Nat /\ Total(debtValues, Borrows(o)) \in Nat
      /\ Total(weighted, Borrows(o)) \in Nat
  <2>1. \A r \in Reserves : values[r] \in Nat /\ debtValues[r] \in Nat BY <1>1
  <2> QED BY <1>2, <1>4, <2>1, TotalType
<1>6. BackedBy(o, rs, ltvs) \in Nat /\ BackedBy(o, rs, thresholds) \in Nat
  BY <1>3, BackedType
<1>7. Smaller(BackedBy(o, rs, ltvs), GlobalAllowed) \in Nat
  BY <1>6, PositionAssumption DEF Smaller
<1>8. Lowest(thresholds, liquidatable, U8Max) \in Nat /\ Lowest(ltvs, Deposits(o), U8Max) \in Nat
  <2>1. U8Max \in Nat /\ Nat \subseteq Int BY DEF U8Max
  <2> QED BY <1>3, <1>4, <2>1, LowestType
<1>9. Highest(factors, considered, 100) \in Nat
  <2> DEFINE bottom == 100
  <2>1. bottom \in Nat /\ Nat \subseteq Int OBVIOUS
  <2>2. \A r \in considered : factors[r] \in Nat BY <1>3, <1>4
  <2> HIDE DEF bottom
  <2>3. Highest(factors, considered, bottom) \in Nat BY <1>4, <2>1, <2>2, HighestType
  <2> QED BY <2>3 DEF bottom
<1>10. HealthOf(o, rs) =
  [values |-> values, debtValues |-> debtValues,
   deposited |-> Total(values, Deposits(o)),
   borrowed |-> Total(debtValues, Borrows(o)),
   debt |-> Total(weighted, Borrows(o)),
   allowed |-> Smaller(BackedBy(o, rs, ltvs), GlobalAllowed),
   unhealthy |-> BackedBy(o, rs, thresholds),
   lowestThreshold |-> Lowest(thresholds, liquidatable, U8Max),
   lowestLtv |-> Lowest(ltvs, Deposits(o), U8Max),
   highestFactor |-> Highest(factors, considered, 100),
   obsolete |-> (Deposits(o) \cup Borrows(o)) \cap Obsolete # {},
   disabled |-> ~InGroup(o) /\ Deposits(o) \cap GroupOnly # {}]
  BY DEF HealthOf, values, debtValues, weighted, ltvs, thresholds, factors, liquidatable,
         considered
<1> QED BY <1>1, <1>5, <1>6, <1>7, <1>8, <1>9, <1>10 DEF Health

LEMMA LevelType ==
  ASSUME NEW o, NEW rs \in [Reserves -> ReserveRecords]
  PROVE  LevelOf(o, rs) \in PriceLevels
<1> DEFINE levels == [r \in Reserves |-> rs[r].level]
           S == Deposits(o) \cup Borrows(o)
<1>1. S \in SUBSET Reserves BY DEF Deposits, Borrows
<1>2. \A r \in S : levels[r] \in PriceLevels BY <1>1 DEF ReserveRecords
<1>3. PriceLevels \subseteq Int /\ AllChecks \in PriceLevels
  BY DEF PriceLevels, NoChecks, LiquidationChecks, AllChecks
<1> HIDE DEF levels, S
<1>4. Lowest(levels, S, AllChecks) \in PriceLevels BY <1>1, <1>2, <1>3, LowestType
<1> QED BY <1>4 DEF LevelOf, levels, S

-------------------------------------------------------------------------------
(* An obligation that makes sense: its amounts are natural numbers, its flag  *)
(* is right and its orders are ones it supports.                              *)

Coherent(o) == o \in ObligationRecords /\ o.hasDebt = (Borrows(o) # {})

OrdersHold(o) ==
  \A i \in OrderSlots :
    LET order == o.orders[i]
    IN /\ ~IsActive(order) => order = NoOrder
       /\ IsActive(order) =>
            /\ ~order.all => SingleDebt(o)
            /\ order.condition \in RatioConditions =>
                 SingleDebt(o) /\ (SingleCollateral(o) \/ Deposits(o) = {})

SoundRecord(o) == Coherent(o) /\ OrdersHold(o)

\* Only the deposits in D and the debts in B differ.
Only(o, t, D, B) ==
  /\ \A x \in Reserves : x \notin D => t.deposits[x] = o.deposits[x]
  /\ \A x \in Reserves : x \notin B => t.debts[x] = o.debts[x]

\* Two obligations with the same positions and orders.
Alike(o, t) ==
  t.deposits = o.deposits /\ t.debts = o.debts /\ t.orders = o.orders /\ t.hasDebt = o.hasDebt

LEMMA AlikeFacts ==
  ASSUME NEW o, NEW t, Alike(o, t), SoundRecord(o), t \in ObligationRecords
  PROVE  SoundRecord(t) /\ Only(o, t, {}, {})
         /\ Deposits(t) = Deposits(o) /\ Borrows(t) = Borrows(o)
<1>1. Deposits(t) = Deposits(o) /\ Borrows(t) = Borrows(o)
  BY DEF Alike, Deposits, Borrows
<1>2. Coherent(t) BY <1>1 DEF Coherent, SoundRecord, Alike
<1>3. OrdersHold(t)
  BY <1>1 DEF OrdersHold, SoundRecord, Alike, SingleDebt, SingleCollateral
<1>4. Only(o, t, {}, {}) BY DEF Only, Alike
<1> QED BY <1>1, <1>2, <1>3, <1>4 DEF SoundRecord

\* Fewer positions, and none of the debts if there was one: the orders stay supported.
LEMMA OrdersHoldWithLess ==
  ASSUME NEW o, NEW t, OrdersHold(o), t.orders = o.orders,
         Deposits(t) \subseteq Deposits(o), Borrows(t) \subseteq Borrows(o),
         Borrows(o) # {} => Borrows(t) # {}
  PROVE  OrdersHold(t)
<1>1. SingleDebt(o) => SingleDebt(t)
  BY DEF SingleDebt
<1>2. SingleCollateral(o) \/ Deposits(o) = {} => SingleCollateral(t) \/ Deposits(t) = {}
  BY DEF SingleCollateral
<1> QED BY <1>1, <1>2 DEF OrdersHold

LEMMA OrdersHoldWhenSupported ==
  ASSUME NEW o, NEW t, OrdersHold(o), t.orders = o.orders, OrdersSupportedBy(t)
  PROVE  OrdersHold(t)
BY DEF OrdersHold, OrdersSupportedBy, IsSupported, IsActive, NoOrder

LEMMA OrdersHoldWithNone ==
  ASSUME NEW t, t.orders = NoOrders
  PROVE  OrdersHold(t)
BY DEF OrdersHold, NoOrders, NoOrder, IsActive

-------------------------------------------------------------------------------
(* The operations on an obligation                                            *)

LEMMA NoHealthType == NoHealth \in Health
BY DEF NoHealth, Health, Zeros

LEMMA NewObligationFacts ==
  /\ SoundRecord(NewObligation)
  /\ \A r \in Reserves : NewObligation.deposits[r] = 0 /\ NewObligation.debts[r] = 0
<1>1. Zeros \in [Reserves -> Nat] BY DEF Zeros
<1>2. NoOrder \in OrderRecords BY DEF NoOrder, OrderRecords, Conditions
<1>3. NoOrders \in [OrderSlots -> OrderRecords] BY <1>2 DEF NoOrders
<1>4. NewObligation \in ObligationRecords
  BY <1>1, <1>3, NoHealthType DEF NewObligation, ObligationRecords, PriceLevels
<1>5. Borrows(NewObligation) = {} BY DEF Borrows, NewObligation, Zeros
<1>6. NewObligation.hasDebt = FALSE /\ NewObligation.orders = NoOrders
  BY DEF NewObligation
<1>7. OrdersHold(NewObligation) BY <1>6, OrdersHoldWithNone
<1>8. \A r \in Reserves : NewObligation.deposits[r] = 0 /\ NewObligation.debts[r] = 0
  BY DEF NewObligation, Zeros
<1> QED BY <1>4, <1>5, <1>6, <1>7, <1>8 DEF SoundRecord, Coherent

LEMMA MarkedFacts ==
  ASSUME NEW o \in ObligationRecords
  PROVE  MarkedStale(o) \in ObligationRecords /\ Alike(o, MarkedStale(o))
<1>1. NoChecks \in PriceLevels BY DEF PriceLevels
<1>2. MarkedStale(o) \in ObligationRecords
  BY <1>1, NoHealthType DEF MarkedStale, ObligationRecords
<1>3. Alike(o, MarkedStale(o)) BY DEF MarkedStale, ObligationRecords, Alike
<1> QED BY <1>2, <1>3

LEMMA RefreshedFacts ==
  ASSUME NEW o, SoundRecord(o), NEW rs \in [Reserves -> ReserveRecords]
  PROVE  /\ Refreshed(o, rs) \in ObligationRecords /\ Alike(o, Refreshed(o, rs))
         /\ Refreshed(o, rs).health = HealthOf(o, rs)
<1>1. o \in ObligationRecords /\ o.hasDebt = (Borrows(o) # {})
  BY DEF SoundRecord, Coherent
<1>2. LevelOf(o, rs) \in PriceLevels /\ HealthOf(o, rs) \in Health
  BY <1>1, LevelType, HealthType
<1>3. (o.hasDebt \/ Borrows(o) # {}) = o.hasDebt BY <1>1 DEF ObligationRecords
<1>4. Refreshed(o, rs) \in ObligationRecords
  BY <1>1, <1>2 DEF Refreshed, ObligationRecords
<1>5. Alike(o, Refreshed(o, rs)) /\ Refreshed(o, rs).health = HealthOf(o, rs)
  BY <1>1, <1>3 DEF Refreshed, ObligationRecords, Alike
<1> QED BY <1>4, <1>5

LEMMA AccruedFacts ==
  ASSUME NEW o, SoundRecord(o), NEW interest \in Nat
  PROVE  SoundRecord(Accrued(o, interest)) /\ Only(o, Accrued(o, interest), {}, Borrows(o))
<1> DEFINE t == Accrued(o, interest)
<1>1. o \in ObligationRecords /\ o.hasDebt = (Borrows(o) # {})
  BY DEF SoundRecord, Coherent
<1>2. \A r \in Reserves : o.debts[r] \in Nat BY <1>1 DEF ObligationRecords
<1>3. \A r \in Reserves : t.debts[r] = IF o.debts[r] > 0 THEN o.debts[r] + interest ELSE 0
  BY <1>1 DEF Accrued, ObligationRecords
<1>4. t.debts \in [Reserves -> Nat]
  BY <1>1, <1>2 DEF Accrued, ObligationRecords
<1>5. t \in ObligationRecords
  BY <1>1, <1>2 DEF Accrued, ObligationRecords
<1>6. t.deposits = o.deposits /\ t.orders = o.orders /\ t.hasDebt = o.hasDebt
  BY <1>1 DEF Accrued, ObligationRecords
<1> HIDE DEF t
<1>7. Borrows(t) = Borrows(o) BY <1>2, <1>3 DEF Borrows
<1>8. Deposits(t) = Deposits(o) BY <1>6 DEF Deposits
<1>9. OrdersHold(t) BY <1>6, <1>7, <1>8, OrdersHoldWithLess DEF SoundRecord
<1>10. Coherent(t) BY <1>1, <1>5, <1>6, <1>7 DEF Coherent
<1>11. Only(o, t, {}, Borrows(o))
  <2>1. \A x \in Reserves : x \notin Borrows(o) => t.debts[x] = o.debts[x]
    BY <1>2, <1>3 DEF Borrows
  <2> QED BY <1>6, <2>1 DEF Only
<1> QED BY <1>9, <1>10, <1>11 DEF SoundRecord, t

\* An obligation with other positions and the rest as it was.
LEMMA PositionsSet ==
  ASSUME NEW o \in ObligationRecords, NEW r \in Reserves, NEW n \in Nat
  PROVE  /\ [o EXCEPT !.deposits[r] = n] \in ObligationRecords
         /\ [o EXCEPT !.debts[r] = n] \in ObligationRecords
BY DEF ObligationRecords

LEMMA DepositFacts ==
  ASSUME NEW o, SoundRecord(o), NEW r \in Reserves, NEW n \in Nat,
         OrdersSupportedBy(DepositMade(o, r, n))
  PROVE  SoundRecord(DepositMade(o, r, n)) /\ Only(o, DepositMade(o, r, n), {r}, {})
<1> DEFINE u == [o EXCEPT !.deposits[r] = @ + n]
           t == MarkedStale(u)
<1>1. o \in ObligationRecords /\ o.hasDebt = (Borrows(o) # {})
  BY DEF SoundRecord, Coherent
<1>2. o.deposits[r] \in Nat BY <1>1 DEF ObligationRecords
<1>3. u \in ObligationRecords
  <2>1. o.deposits[r] + n \in Nat BY <1>2
  <2> QED BY <1>1, <2>1, PositionsSet
<1>4. /\ u.debts = o.debts /\ u.orders = o.orders /\ u.hasDebt = o.hasDebt
      /\ \A x \in Reserves : x # r => u.deposits[x] = o.deposits[x]
  BY <1>1 DEF ObligationRecords
<1> HIDE DEF u
<1>5. t \in ObligationRecords /\ Alike(u, t) BY <1>3, MarkedFacts
<1>6. t = DepositMade(o, r, n) BY DEF DepositMade, u
<1> HIDE DEF t
<1>7. Borrows(t) = Borrows(o) BY <1>4, <1>5 DEF Borrows, Alike
<1>8. Coherent(t) BY <1>1, <1>4, <1>5, <1>7 DEF Coherent, Alike
<1>9. t.orders = o.orders BY <1>4, <1>5 DEF Alike
<1>10. OrdersHold(t) BY <1>6, <1>9, OrdersHoldWhenSupported DEF SoundRecord
<1>11. Only(o, t, {r}, {}) BY <1>4, <1>5 DEF Only, Alike
<1> QED BY <1>6, <1>8, <1>10, <1>11 DEF SoundRecord

LEMMA BorrowFacts ==
  ASSUME NEW o, SoundRecord(o), NEW r \in Reserves, NEW n \in Nat \ {0},
         OrdersSupportedBy(Borrowed(o, r, n))
  PROVE  SoundRecord(Borrowed(o, r, n)) /\ Only(o, Borrowed(o, r, n), {}, {r})
<1> DEFINE u == [o EXCEPT !.debts[r] = @ + n, !.hasDebt = TRUE]
           t == MarkedStale(u)
<1>1. o \in ObligationRecords BY DEF SoundRecord, Coherent
<1>2. o.debts[r] \in Nat BY <1>1 DEF ObligationRecords
<1>3. u \in ObligationRecords
  <2>1. o.debts[r] + n \in Nat BY <1>2
  <2>2. [o EXCEPT !.debts[r] = o.debts[r] + n] \in ObligationRecords
    BY <1>1, <2>1, PositionsSet
  <2> QED BY <1>1, <2>2 DEF ObligationRecords
<1>4. /\ u.deposits = o.deposits /\ u.orders = o.orders /\ u.hasDebt = TRUE
      /\ u.debts[r] = o.debts[r] + n
      /\ \A x \in Reserves : x # r => u.debts[x] = o.debts[x]
  BY <1>1 DEF ObligationRecords
<1> HIDE DEF u
<1>5. t \in ObligationRecords /\ Alike(u, t) BY <1>3, MarkedFacts
<1>6. t = Borrowed(o, r, n) BY DEF Borrowed, u
<1> HIDE DEF t
<1>7. r \in Borrows(t)
  <2>1. t.debts[r] > 0 BY <1>2, <1>4, <1>5 DEF Alike
  <2> QED BY <2>1 DEF Borrows
<1>8. Coherent(t) BY <1>4, <1>5, <1>7 DEF Coherent, Alike
<1>9. t.orders = o.orders BY <1>4, <1>5 DEF Alike
<1>10. OrdersHold(t) BY <1>6, <1>9, OrdersHoldWhenSupported DEF SoundRecord
<1>11. Only(o, t, {}, {r}) BY <1>4, <1>5 DEF Only, Alike
<1> QED BY <1>6, <1>8, <1>10, <1>11 DEF SoundRecord

LEMMA RepayFacts ==
  ASSUME NEW o, SoundRecord(o), NEW r \in Reserves, NEW n \in Int, n <= o.debts[r],
         OrdersSupportedBy(Repaid(o, r, n))
  PROVE  SoundRecord(Repaid(o, r, n)) /\ Only(o, Repaid(o, r, n), {}, {r})
<1> DEFINE u == [o EXCEPT !.debts[r] = @ - n]
           v == WithHasDebt(u)
           t == MarkedStale(v)
<1>1. o \in ObligationRecords BY DEF SoundRecord, Coherent
<1>2. o.debts[r] \in Nat BY <1>1 DEF ObligationRecords
<1>3. u \in ObligationRecords
  <2>1. o.debts[r] - n \in Nat BY <1>2
  <2> QED BY <1>1, <2>1, PositionsSet
<1>4. /\ u.deposits = o.deposits /\ u.orders = o.orders
      /\ \A x \in Reserves : x # r => u.debts[x] = o.debts[x]
  BY <1>1 DEF ObligationRecords
<1> HIDE DEF u
<1>5. /\ v \in ObligationRecords /\ v.hasDebt = (Borrows(u) # {}) /\ v.debts = u.debts
      /\ v.deposits = u.deposits /\ v.orders = u.orders
  BY <1>3 DEF WithHasDebt, ObligationRecords
<1>6. t = Repaid(o, r, n) BY DEF Repaid, u
<1> HIDE DEF v
<1>7. t \in ObligationRecords /\ Alike(v, t) BY <1>5, MarkedFacts
<1> HIDE DEF t
<1>8. Borrows(t) = Borrows(u) BY <1>5, <1>7 DEF Borrows, Alike
<1>9. Coherent(t) BY <1>5, <1>7, <1>8 DEF Coherent, Alike
<1>10. t.orders = o.orders BY <1>4, <1>5, <1>7 DEF Alike
<1>11. OrdersHold(t) BY <1>6, <1>10, OrdersHoldWhenSupported DEF SoundRecord
<1>12. Only(o, t, {}, {r}) BY <1>4, <1>5, <1>7 DEF Only, Alike
<1> QED BY <1>6, <1>9, <1>11, <1>12 DEF SoundRecord

LEMMA WithdrawFacts ==
  ASSUME NEW o, SoundRecord(o), NEW r \in Reserves, NEW n \in Nat, n <= o.deposits[r]
  PROVE  SoundRecord(Withdrawn(o, r, n)) /\ Only(o, Withdrawn(o, r, n), {r}, {})
<1> DEFINE u == [o EXCEPT !.deposits[r] = @ - n]
           v == MarkedStale(u)
           t == Closed(v)
<1>1. o \in ObligationRecords /\ o.hasDebt = (Borrows(o) # {})
  BY DEF SoundRecord, Coherent
<1>2. \A x \in Reserves : o.deposits[x] \in Nat /\ o.debts[x] \in Nat
  BY <1>1 DEF ObligationRecords
<1>3. u \in ObligationRecords
  <2>1. o.deposits[r] - n \in Nat BY <1>2
  <2> QED BY <1>1, <2>1, PositionsSet
<1>4. /\ u.debts = o.debts /\ u.orders = o.orders /\ u.hasDebt = o.hasDebt
      /\ u.deposits[r] = o.deposits[r] - n
      /\ \A x \in Reserves : x # r => u.deposits[x] = o.deposits[x]
  BY <1>1 DEF ObligationRecords
<1> HIDE DEF u
<1>5. v \in ObligationRecords /\ Alike(u, v) BY <1>3, MarkedFacts
<1>6. t = Withdrawn(o, r, n) BY DEF Withdrawn, u
<1> HIDE DEF v
<1>7. /\ v.debts = o.debts /\ v.orders = o.orders /\ v.hasDebt = o.hasDebt
      /\ v.deposits[r] = o.deposits[r] - n
      /\ \A x \in Reserves : x # r => v.deposits[x] = o.deposits[x]
  BY <1>4, <1>5 DEF Alike
<1>8. Borrows(v) = Borrows(o) BY <1>7 DEF Borrows
<1>9. Deposits(v) \subseteq Deposits(o)
  <2>1. ASSUME NEW x \in Deposits(v) PROVE x \in Deposits(o)
    <3>1. x \in Reserves /\ v.deposits[x] > 0 BY DEF Deposits
    <3>2. o.deposits[x] > 0 BY <1>2, <1>7, <3>1
    <3> QED BY <3>1, <3>2 DEF Deposits
  <2> QED BY <2>1
<1>10. CASE Deposits(v) = {} /\ Borrows(v) = {}
  <2>1. t = NewObligation BY <1>10 DEF Closed
  <2>2. \A x \in Reserves : x # r => o.deposits[x] = 0
    <3>1. \A x \in Reserves : ~(v.deposits[x] > 0) BY <1>10 DEF Deposits
    <3> QED BY <1>2, <1>7, <3>1
  <2>3. \A x \in Reserves : o.debts[x] = 0
    <3>1. \A x \in Reserves : ~(o.debts[x] > 0) BY <1>8, <1>10 DEF Borrows
    <3> QED BY <1>2, <3>1
  <2>4. Only(o, t, {r}, {}) BY <2>1, <2>2, <2>3, NewObligationFacts DEF Only
  <2> QED BY <1>6, <2>1, <2>4, NewObligationFacts
<1>11. CASE ~(Deposits(v) = {} /\ Borrows(v) = {})
  <2>1. t = v BY <1>11 DEF Closed
  <2>2. Coherent(v) BY <1>1, <1>5, <1>7, <1>8 DEF Coherent
  <2>3. OrdersHold(v) BY <1>7, <1>8, <1>9, OrdersHoldWithLess DEF SoundRecord
  <2>4. Only(o, v, {r}, {}) BY <1>7 DEF Only
  <2> QED BY <1>6, <2>1, <2>2, <2>3, <2>4 DEF SoundRecord
<1> QED BY <1>10, <1>11

LEMMA GroupFacts ==
  ASSUME NEW o, SoundRecord(o), NEW g \in Groups \cup {NoGroup}
  PROVE  SoundRecord(GroupChanged(o, g)) /\ Only(o, GroupChanged(o, g), {}, {})
<1> DEFINE u == [o EXCEPT !.group = g, !.hasDebt = @ \/ Borrows(o) # {}]
<1>1. o \in ObligationRecords /\ o.hasDebt = (Borrows(o) # {})
  BY DEF SoundRecord, Coherent
<1>2. (o.hasDebt \/ Borrows(o) # {}) = o.hasDebt BY <1>1 DEF ObligationRecords
<1>3. u \in ObligationRecords BY <1>1 DEF ObligationRecords
<1>4. Alike(o, u) BY <1>1, <1>2 DEF Alike, ObligationRecords
<1> HIDE DEF u
<1>5. MarkedStale(u) \in ObligationRecords /\ Alike(u, MarkedStale(u)) BY <1>3, MarkedFacts
<1>6. Alike(o, MarkedStale(u)) BY <1>4, <1>5 DEF Alike
<1>7. GroupChanged(o, g) = MarkedStale(u) BY DEF GroupChanged, u
<1> QED BY <1>5, <1>6, <1>7, AlikeFacts

LEMMA OrderSetFacts ==
  ASSUME NEW o, SoundRecord(o), NEW i \in OrderSlots, NEW order \in OrderRecords,
         IsValid(order), IsSupported(order, o)
  PROVE  SoundRecord(OrderSet(o, i, order)) /\ Only(o, OrderSet(o, i, order), {}, {})
<1> DEFINE t == OrderSet(o, i, order)
<1>1. o \in ObligationRecords /\ o.hasDebt = (Borrows(o) # {}) /\ OrdersHold(o)
  BY DEF SoundRecord, Coherent
<1>2. t \in ObligationRecords BY <1>1 DEF OrderSet, ObligationRecords
<1>3. /\ t.deposits = o.deposits /\ t.debts = o.debts /\ t.hasDebt = o.hasDebt
      /\ t.orders = [o.orders EXCEPT ![i] = order]
  BY <1>1 DEF OrderSet, ObligationRecords
<1>4. o.orders \in [OrderSlots -> OrderRecords] BY <1>1 DEF ObligationRecords
<1> HIDE DEF t
<1>5. Borrows(t) = Borrows(o) /\ Deposits(t) = Deposits(o)
  BY <1>3 DEF Borrows, Deposits
<1>6. SingleDebt(t) = SingleDebt(o) /\ SingleCollateral(t) = SingleCollateral(o)
  BY <1>5 DEF SingleDebt, SingleCollateral
<1>7. t.orders[i] = order /\ \A j \in OrderSlots : j # i => t.orders[j] = o.orders[j]
  BY <1>3, <1>4
<1>8. /\ ~IsActive(order) => order = NoOrder
      /\ IsActive(order) =>
           /\ ~order.all => SingleDebt(o)
           /\ order.condition \in RatioConditions => SingleDebt(o) /\ SingleCollateral(o)
  BY DEF IsValid, IsSupported, IsActive, NoOrder
<1>9. OrdersHold(t) BY <1>1, <1>5, <1>6, <1>7, <1>8 DEF OrdersHold
<1>10. Coherent(t) BY <1>1, <1>2, <1>3, <1>5 DEF Coherent
<1>11. Only(o, t, {}, {}) BY <1>3 DEF Only
<1> QED BY <1>9, <1>10, <1>11 DEF SoundRecord, t

-------------------------------------------------------------------------------
(* The amounts that the operations work out                                   *)

LEMMA HealthFields ==
  ASSUME NEW o \in ObligationRecords
  PROVE  /\ o.health.deposited \in Nat /\ o.health.borrowed \in Nat /\ o.health.debt \in Nat
         /\ o.health.allowed \in Nat /\ o.health.unhealthy \in Nat
         /\ \A r \in Reserves : o.health.values[r] \in Nat /\ o.health.debtValues[r] \in Nat
         /\ \A r \in Reserves : o.deposits[r] \in Nat /\ o.debts[r] \in Nat
BY DEF ObligationRecords, Health

LEMMA SettleType ==
  ASSUME NEW o \in ObligationRecords, NEW r \in Reserves, NEW n \in Nat
  PROVE  SettleAmount(o, r, n) \in Nat /\ SettleAmount(o, r, n) <= o.debts[r]
<1>1. o.debts[r] \in Nat /\ FromNum(n) \in Nat BY HealthFields, Conversions
<1> QED BY <1>1 DEF SettleAmount, Smaller

LEMMA BorrowType ==
  ASSUME NEW o \in ObligationRecords, NEW rs \in [Reserves -> ReserveRecords],
         NEW r \in Reserves, NEW n \in Nat, NEW room \in Nat,
         rs[r].price > 0, CanBorrow(o, rs, r, n, room)
  PROVE  BorrowAmount(o, rs, r, n, room) \in Nat \ {0}
<1> DEFINE amount == BorrowAmount(o, rs, r, n, room)
           left == o.health.allowed - o.health.debt
           factor == FromPercent(FactorOf(o, r))
<1>1. o.health.allowed > o.health.debt /\ ToFloor(amount) > 0 BY DEF CanBorrow
<1>2. left \in Nat /\ left \in Int BY <1>1, HealthFields
<1>3. rs[r].price \in Nat \ {0} BY DEF ReserveRecords
<1>4. factor \in Nat \ {0} BY PercentsType, PercentPositive
<1> HIDE DEF left, factor
<1>5. FDiv(left, rs[r].price) \in Nat BY <1>2, <1>3, FDivType
<1>6. FDiv(FDiv(left, rs[r].price), factor) \in Nat BY <1>4, <1>5, FDivType
<1>7. amount \in Nat
  <2>1. CASE n = MaxU64
    <3>1. amount = Smaller(room, FDiv(FDiv(left, rs[r].price), factor))
      BY <2>1 DEF BorrowAmount, left, factor
    <3> QED BY <1>6, <3>1 DEF Smaller
  <2>2. CASE n # MaxU64
    <3>1. amount = FromNum(n) BY <2>2 DEF BorrowAmount
    <3> QED BY <3>1, Conversions
  <2> QED BY <2>1, <2>2
<1> HIDE DEF amount
<1>8. amount # 0
  <2>1. 0 \div One = 0 BY OneAssumption
  <2> QED BY <1>1, <2>1 DEF ToFloor
<1> QED BY <1>7, <1>8 DEF amount

LEMMA WithdrawType ==
  ASSUME NEW o \in ObligationRecords, NEW rs, NEW r \in Reserves, NEW n \in Nat,
         NEW check, CanWithdraw(o, rs, r, n, check)
  PROVE  /\ WithdrawAmount(o, r, n, check) \in Nat
         /\ WithdrawAmount(o, r, n, check) <= o.deposits[r]
<1> DEFINE most == MaxWithdrawValue(o, r, check)
           value == Smaller(most, o.health.values[r])
<1>1. o.deposits[r] \in Nat /\ o.health.values[r] \in Nat BY HealthFields
<1>2. CASE n = MaxU64 /\ Borrows(o) # {}
  <2>1. o.health.values[r] \in Nat \ {0} BY <1>1, <1>2 DEF CanWithdraw, MayWithdraw
  <2>2. most \in Nat
    <3> DEFINE highest == IF check = "liquidationThreshold"
                          THEN Larger(o.health.unhealthy - 1, 0) ELSE o.health.allowed
               pct == IF check = "liquidationThreshold" THEN ThresholdOf(o, r) ELSE LtvOf(o, r)
               over == (highest - o.health.debt) * 100
    <3>1. highest \in Nat BY HealthFields DEF Larger
    <3>2. pct \in Nat BY PercentsType
    <3>3. o.health.debt \in Nat BY HealthFields
    <3>4. most = IF highest <= o.health.debt THEN 0
                 ELSE IF pct = 0 THEN o.health.values[r] ELSE over \div pct
      BY DEF MaxWithdrawValue
    <3> HIDE DEF highest, pct, most
    <3>5. highest > o.health.debt => over \in Nat BY <3>1, <3>3
    <3> HIDE DEF over
    <3>6. highest > o.health.debt /\ pct # 0 => over \div pct \in Nat
      BY <3>2, <3>5, Quotient
    <3> QED BY <1>1, <3>1, <3>2, <3>3, <3>4, <3>6
  <2> HIDE DEF most
  <2>3. value \in Nat BY <1>1, <2>2 DEF Smaller
  <2> HIDE DEF value
  <2> DEFINE ratio == FDiv(value, o.health.values[r])
             part == ratio * o.deposits[r]
  <2>4. ratio \in Nat BY <2>1, <2>3, FDivType
  <2> HIDE DEF ratio
  <2>5. part \in Nat BY <1>1, <2>4
  <2> HIDE DEF part
  <2>6. ToFloor(part) \in Nat BY <2>5, Conversions
  <2>7. WithdrawAmount(o, r, n, check) = Smaller(o.deposits[r], ToFloor(part))
    BY <1>2 DEF WithdrawAmount, value, most, ratio, part
  <2> QED BY <1>1, <2>6, <2>7 DEF Smaller
<1>3. CASE ~(n = MaxU64 /\ Borrows(o) # {})
  <2>1. WithdrawAmount(o, r, n, check) = Smaller(n, o.deposits[r])
    BY <1>3 DEF WithdrawAmount
  <2> QED BY <1>1, <2>1 DEF Smaller
<1> QED BY <1>2, <1>3

-------------------------------------------------------------------------------
(* The handlers that combine operations                                       *)

LEMMA WithinFacts ==
  ASSUME NEW o, SoundRecord(o), NEW rs \in [Reserves -> ReserveRecords],
         NEW w \in Reserves, NEW m \in Nat, NEW ltv,
         CanWithdrawWithin(o, rs, w, m, ltv)
  PROVE  SoundRecord(WithdrawnWithin(o, rs, w, m)) /\ Only(o, WithdrawnWithin(o, rs, w, m), {w}, {})
<1> DEFINE n == WithdrawAmount(o, w, m, "liquidationThreshold")
           left == Withdrawn(o, w, n)
           after == Refreshed(left, rs)
           t == WithdrawnWithin(o, rs, w, m)
<1>1. n \in Nat /\ n <= o.deposits[w]
  <2>1. o \in ObligationRecords BY DEF SoundRecord, Coherent
  <2>2. CanWithdraw(o, rs, w, m, "liquidationThreshold") BY DEF CanWithdrawWithin
  <2> QED BY <2>1, <2>2, WithdrawType
<1> HIDE DEF n
<1>2. SoundRecord(left) /\ Only(o, left, {w}, {}) BY <1>1, WithdrawFacts
<1>3. t = IF left = NewObligation THEN left ELSE MarkedStale(after)
  BY DEF WithdrawnWithin, n
<1> HIDE DEF left, t
<1>4. after \in ObligationRecords /\ Alike(left, after) BY <1>2, RefreshedFacts
<1>5. SoundRecord(after) /\ Only(left, after, {}, {}) BY <1>2, <1>4, AlikeFacts
<1> HIDE DEF after
<1>6. MarkedStale(after) \in ObligationRecords /\ Alike(after, MarkedStale(after))
  BY <1>4, MarkedFacts
<1>7. SoundRecord(MarkedStale(after)) /\ Only(after, MarkedStale(after), {}, {})
  BY <1>5, <1>6, AlikeFacts
<1>8. Only(o, MarkedStale(after), {w}, {})
  BY <1>2, <1>5, <1>7 DEF Only
<1> QED BY <1>2, <1>3, <1>7, <1>8 DEF t

LEMMA WithFreshType ==
  ASSUME NEW rs \in [Reserves -> ReserveRecords], NEW r \in Reserves, NEW fresh \in BOOLEAN
  PROVE  WithFresh(rs, r, fresh) \in [Reserves -> ReserveRecords]
<1>1. [rs[r] EXCEPT !.fresh = fresh] \in ReserveRecords BY DEF ReserveRecords
<1>2. [rs EXCEPT ![r].fresh = fresh] \in [Reserves -> ReserveRecords] BY <1>1
<1> QED BY <1>2 DEF WithFresh

LEMMA RepaidAndWithdrawnFacts ==
  ASSUME NEW o, SoundRecord(o), NEW rs \in [Reserves -> ReserveRecords],
         NEW r \in Reserves, NEW n \in Nat, NEW w \in Reserves, NEW m \in Nat,
         CanRepayAndWithdraw(o, rs, r, n, w, m)
  PROVE  /\ SoundRecord(RepaidAndWithdrawn(o, rs, r, n, w, m))
         /\ Only(o, RepaidAndWithdrawn(o, rs, r, n, w, m), {w}, {r})
<1> DEFINE settle == SettleAmount(o, r, n)
           repaid == Repaid(o, r, settle)
           after == RepayReserves(o, rs, r, n, w)
           u == Refreshed(repaid, after)
           t == RepaidAndWithdrawn(o, rs, r, n, w, m)
<1>1. settle \in Nat /\ settle <= o.debts[r] /\ settle \in Int
  BY SettleType DEF SoundRecord, Coherent
<1>2. OrdersSupportedBy(repaid) BY DEF CanRepayAndWithdraw, CanRepay
<1>3. after \in [Reserves -> ReserveRecords]
  <2>1. (SettleAmount(o, r, n) < o.debts[r] \/ r = w) \in BOOLEAN OBVIOUS
  <2> QED BY <2>1, WithFreshType DEF RepayReserves
<1>4. t = WithdrawnWithin(u, after, w, m) BY DEF RepaidAndWithdrawn
<1>5. CanWithdrawWithin(u, after, w, m, LoanToValueOf(o.health)) BY DEF CanRepayAndWithdraw
<1> HIDE DEF settle
<1>6. SoundRecord(repaid) /\ Only(o, repaid, {}, {r}) BY <1>1, <1>2, RepayFacts
<1> HIDE DEF repaid, after
<1>7. u \in ObligationRecords /\ Alike(repaid, u) BY <1>3, <1>6, RefreshedFacts
<1>8. SoundRecord(u) /\ Only(repaid, u, {}, {}) BY <1>6, <1>7, AlikeFacts
<1> HIDE DEF u, t
<1>9. SoundRecord(t) /\ Only(u, t, {w}, {}) BY <1>3, <1>4, <1>5, <1>8, WithinFacts
<1>10. Only(o, t, {w}, {r}) BY <1>6, <1>8, <1>9 DEF Only
<1> QED BY <1>9, <1>10 DEF t

LEMMA DepositedAndWithdrawnFacts ==
  ASSUME NEW o, SoundRecord(o), NEW rs \in [Reserves -> ReserveRecords],
         NEW r \in Reserves, NEW n \in Nat, NEW w \in Reserves, NEW m \in Nat,
         CanDepositAndWithdraw(o, rs, r, n, w, m)
  PROVE  /\ SoundRecord(DepositedAndWithdrawn(o, rs, r, n, w, m))
         /\ Only(o, DepositedAndWithdrawn(o, rs, r, n, w, m), {r, w}, {})
<1> DEFINE made == DepositMade(o, r, n)
           u == Refreshed(made, rs)
           t == DepositedAndWithdrawn(o, rs, r, n, w, m)
<1>1. OrdersSupportedBy(made) BY DEF CanDepositAndWithdraw, CanDeposit
<1>2. t = WithdrawnWithin(u, rs, w, m) BY DEF DepositedAndWithdrawn
<1>3. CanWithdrawWithin(u, rs, w, m, LoanToValueOf(o.health)) BY DEF CanDepositAndWithdraw
<1>4. SoundRecord(made) /\ Only(o, made, {r}, {}) BY <1>1, DepositFacts
<1> HIDE DEF made
<1>5. u \in ObligationRecords /\ Alike(made, u) BY <1>4, RefreshedFacts
<1>6. SoundRecord(u) /\ Only(made, u, {}, {}) BY <1>4, <1>5, AlikeFacts
<1> HIDE DEF u, t
<1>7. SoundRecord(t) /\ Only(u, t, {w}, {}) BY <1>2, <1>3, <1>6, WithinFacts
<1>8. Only(o, t, {r, w}, {}) BY <1>4, <1>6, <1>7 DEF Only
<1> QED BY <1>7, <1>8 DEF t

-------------------------------------------------------------------------------
(* Liquidation: the bonus                                                     *)

\* Every set of natural numbers that is not empty has a least element.
LEMMA LeastExists ==
  ASSUME NEW S \in SUBSET Nat, S # {}
  PROVE  \E i \in S : \A j \in S : i <= j
<1>1. IsWellFoundedOn(OpToRel(<, Nat), Nat) BY NatLessThanWellFounded
<1>2. PICK i \in S : \A j \in S : ~(<<j, i>> \in OpToRel(<, Nat))
  BY <1>1, WFMin
<1>3. \A j \in S : i <= j
  <2>1. SUFFICES ASSUME NEW j \in S, ~(i <= j) PROVE FALSE OBVIOUS
  <2>2. i \in Nat /\ j \in Nat /\ j < i BY <2>1
  <2>3. <<j, i>> \in OpToRel(<, Nat) BY <2>2 DEF OpToRel
  <2> QED BY <1>2, <2>3
<1> QED BY <1>3

LEMMA FirstHitFacts ==
  ASSUME NEW o \in ObligationRecords, NEW rs, NEW debt, NEW coll,
         HitOrders(o, rs, debt, coll) # {}
  PROVE  /\ OrderHit(o, rs, debt, coll) \in OrderSlots
         /\ IsFirstHit(OrderHit(o, rs, debt, coll), o, rs, debt, coll)
<1> DEFINE hits == HitOrders(o, rs, debt, coll)
<1>1. hits \in SUBSET OrderSlots BY DEF HitOrders
<1>2. OrderSlots \subseteq Nat BY ObligationOrdersAssumption
<1> HIDE DEF hits
<1>3. PICK i \in hits : \A j \in hits : i <= j
  <2>1. hits \in SUBSET Nat /\ hits # {} BY <1>1, <1>2 DEF hits
  <2> QED BY <2>1, LeastExists
<1>4. i \in OrderSlots /\ IsFirstHit(i, o, rs, debt, coll)
  BY <1>1, <1>3 DEF IsFirstHit, hits
<1> QED BY <1>4 DEF OrderHit

LEMMA ToBadDebtType ==
  ASSUME NEW o \in ObligationRecords, o.health.deposited # 0
  PROVE  /\ LoanToValueOf(o.health) \in Nat /\ NoFactorLtv(o.health) \in Nat
         /\ UnhealthyLtv(o.health) \in Nat /\ ToBadDebt(o.health) \in Nat
<1>1. o.health.deposited \in Nat \ {0} BY HealthFields
<1>2. o.health.borrowed \in Nat /\ o.health.debt \in Nat /\ o.health.unhealthy \in Nat
  BY HealthFields
<1>3. /\ LoanToValueOf(o.health) \in Nat /\ NoFactorLtv(o.health) \in Nat
      /\ UnhealthyLtv(o.health) \in Nat
  BY <1>1, <1>2, FDivType DEF LoanToValueOf, NoFactorLtv, UnhealthyLtv, Ltv
<1>4. ToBadDebt(o.health) \in Nat
  <2> DEFINE ltv == NoFactorLtv(o.health)
  <2>1. ltv \in Nat /\ One \in Nat BY <1>3, Scale
  <2> HIDE DEF ltv
  <2>2. SaturatingSub(One, ltv) \in Nat BY <2>1 DEF SaturatingSub
  <2> QED BY <2>2 DEF ToBadDebt, ltv
<1> QED BY <1>3, <1>4

LEMMA ConfigType ==
  ASSUME NEW r \in Reserves
  PROVE  /\ MinBonus[r] \in Nat /\ MaxBonus[r] \in Nat /\ BadDebtBonus[r] \in Nat
         /\ ReservePeriod[r] \in Nat /\ DailyDecrease[r] \in Nat /\ DailyIncrease[r] \in Nat
BY LiquidationAssumption

LEMMA CappedType ==
  ASSUME NEW o \in ObligationRecords, NEW debt, NEW coll, NEW bps \in Nat
  PROVE  Capped(bps, GroupCap(o, debt, coll)) \in Nat
<1>1. GroupCap(o, debt, coll) \subseteq Nat
  <2>1. InGroup(o) => GroupBonus[o.group] \in Nat
    <3>1. InGroup(o) => o.group \in Groups BY DEF InGroup, ObligationRecords
    <3> QED BY <3>1, LiquidationAssumption
  <2> QED BY <2>1 DEF GroupCap
<1> DEFINE caps == GroupCap(o, debt, coll)
<1> HIDE DEF caps
<1>2. Capped(bps, caps) \in Nat
  <2>1. caps \subseteq Nat BY <1>1 DEF caps
  <2>2. (\E cap \in caps : cap < bps) => (CHOOSE cap \in caps : TRUE) \in caps OBVIOUS
  <2> QED BY <2>1, <2>2 DEF Capped
<1> QED BY <1>2 DEF caps

LEMMA UnhealthyBonusType ==
  ASSUME NEW o \in ObligationRecords, NEW debt \in Reserves, NEW coll \in Reserves,
         o.health.deposited # 0
  PROVE  UnhealthyBonus(o, debt, coll) \in Nat
<1> DEFINE bad == FromBps(Smaller(BadDebtBonus[debt], BadDebtBonus[coll]))
           most == FromBps(Capped(Larger(MaxBonus[debt], MaxBonus[coll]), GroupCap(o, debt, coll)))
           least == FromBps(Larger(MinBonus[debt], MinBonus[coll]))
           excess == LoanToValueOf(o.health) - UnhealthyLtv(o.health)
           room == ToBadDebt(o.health)
<1>1. Smaller(BadDebtBonus[debt], BadDebtBonus[coll]) \in Nat BY ConfigType DEF Smaller
<1>2. Larger(MinBonus[debt], MinBonus[coll]) \in Nat BY ConfigType DEF Larger
<1>3. Larger(MaxBonus[debt], MaxBonus[coll]) \in Nat BY ConfigType DEF Larger
<1>4. bad \in Nat BY <1>1, Conversions
<1>5. least \in Nat BY <1>2, Conversions
<1>6. most \in Nat
  <2>1. Capped(Larger(MaxBonus[debt], MaxBonus[coll]), GroupCap(o, debt, coll)) \in Nat
    BY <1>3, CappedType
  <2> QED BY <2>1, Conversions
<1>7. excess \in Int /\ room \in Nat BY ToBadDebtType
<1>8. UnhealthyBonus(o, debt, coll) =
        IF NoFactorLtv(o.health) >= BadDebtPoint
        THEN IF NoFactorLtv(o.health) < One THEN Larger(bad, room) ELSE bad
        ELSE Smaller(Smaller(Larger(least, excess), most), room)
  BY DEF UnhealthyBonus
<1> HIDE DEF bad, most, least, excess, room
<1> QED BY <1>4, <1>5, <1>6, <1>7, <1>8 DEF Smaller, Larger


LEMMA DeleveragingRateType ==
  ASSUME NEW o \in ObligationRecords, o.health.deposited # 0,
         NEW daily \in Nat, NEW mostBps \in Nat, NEW secs \in Nat
  PROVE  DeleveragingRate(o, daily, mostBps, secs) \in Int
<1>1. SecsPerDay \in Nat \ {0} /\ DeleveragingBonus \in Nat BY LiquidationAssumption
<1>2. Days(secs) \in Int
  <2>1. secs * One \in Int BY Scale
  <2> QED BY <1>1, <2>1, Quotient DEF Days
<1>3. FMul(FromBps(daily), Days(secs)) \in Int BY <1>2, Conversions, FMulType
<1>4. FromBps(DeleveragingBonus) \in Int /\ FromBps(mostBps) \in Int BY <1>1, Conversions
<1>5. ToBadDebt(o.health) \in Int BY ToBadDebtType
<1> QED BY <1>3, <1>4, <1>5 DEF DeleveragingRate, Smaller

LEMMA DistanceType ==
  ASSUME NEW o \in ObligationRecords, NEW rs \in [Reserves -> ReserveRecords],
         NEW debt \in Reserves, NEW coll \in Reserves, NEW order \in OrderRecords,
         o.health.deposited # 0, rs[coll].price > 0,
         IsHit(order, o, rs, debt, coll), IsEvaluable(order, o, rs, debt, coll)
  PROVE  Distance(order, o, rs, debt, coll) \in Int
<1> DEFINE current == Compared(order, o, rs, debt, coll)
           point == LiquidationPoint(order, o, rs, debt, coll)
           ratio == PriceRatio(rs, debt, coll)
           threshold == order.threshold
<1>1. threshold \in Nat BY DEF OrderRecords
<1>2. ratio \in Nat
  <2>1. rs[debt].price \in Nat /\ rs[coll].price \in Nat \ {0} BY DEF ReserveRecords
  <2> QED BY <2>1, FDivType DEF PriceRatio
<1>3. LoanToValueOf(o.health) \in Nat /\ UnhealthyLtv(o.health) \in Nat BY ToBadDebtType
<1>4. current \in Nat BY <1>2, <1>3 DEF Compared
<1>5. CASE order.condition \in TakeProfits
  <2>1. order.condition \notin StopLosses BY <1>5 DEF TakeProfits, StopLosses
  <2>2. current < threshold BY <2>1 DEF IsHit
  <2>3. Distance(order, o, rs, debt, coll) = FDiv(threshold - current, threshold)
    BY <1>5 DEF Distance
  <2> HIDE DEF current, threshold
  <2>4. threshold - current \in Int /\ threshold \in Nat \ {0} BY <1>1, <1>4, <2>2
  <2> QED BY <2>3, <2>4, FDivType
<1>6. CASE order.condition \notin TakeProfits
  <2>1. order.condition \in StopLosses BY <1>6 DEF IsHit
  <2>2. point \in Nat
    <3>1. CASE order.condition \in RatioConditions
      <4>1. LoanToValueOf(o.health) \in Nat \ {0}
        BY <1>3, <1>6, <3>1 DEF IsEvaluable, RatioConditions, TakeProfits
      <4>2. FMul(ratio, UnhealthyLtv(o.health)) \in Nat BY <1>2, <1>3, FMulType
      <4>3. point = FDiv(FMul(ratio, UnhealthyLtv(o.health)), LoanToValueOf(o.health))
        BY <3>1 DEF LiquidationPoint
      <4> HIDE DEF point, ratio
      <4> QED BY <4>1, <4>2, <4>3, FDivType
    <3>2. CASE order.condition \notin RatioConditions
      BY <1>3, <3>2 DEF LiquidationPoint
    <3> QED BY <3>1, <3>2
  <2>3. threshold # point BY <2>1 DEF IsEvaluable
  <2>4. Distance(order, o, rs, debt, coll) =
          IF threshold > point THEN One ELSE FDiv(current - threshold, point - threshold)
    BY <1>6 DEF Distance
  <2> HIDE DEF current, threshold, point
  <2>5. threshold <= point => FDiv(current - threshold, point - threshold) \in Int
    <3>1. current - threshold \in Int BY <1>1, <1>4
    <3>2. threshold <= point => point - threshold \in Nat \ {0} BY <1>1, <2>2, <2>3
    <3> QED BY <3>1, <3>2, FDivType
  <2> QED BY <1>1, <2>2, <2>4, <2>5, Scale
<1> QED BY <1>5, <1>6

LEMMA BonusType ==
  ASSUME NEW o \in ObligationRecords, NEW rs \in [Reserves -> ReserveRecords],
         NEW debt \in Reserves, NEW coll \in Reserves,
         o.health.deposited # 0, rs[coll].price > 0,
         Reason(o, rs, debt, coll) # "none",
         Reason(o, rs, debt, coll) = "order" => OrdersEvaluable(o, rs, debt, coll)
  PROVE  Bonus(o, rs, debt, coll) \in Int
<1> DEFINE reason == Reason(o, rs, debt, coll)
<1>1. CASE reason = "ltv"
  BY <1>1, UnhealthyBonusType DEF Bonus
<1>2. CASE reason = "called"
  <2>1. IsCalled(o) BY <1>2 DEF Reason
  <2>2. o.called - MarginPeriod \in Nat
    <3>1. MarginPeriod \in Nat /\ o.called \in Int
      BY LiquidationAssumption DEF ObligationRecords, NotMarked
    <3> QED BY <2>1, <3>1 DEF IsCalled
  <2> DEFINE r == BonusReserve(debt, coll)
             most == Capped(MaxBonus[r], GroupCap(o, debt, coll))
  <2>3. r \in Reserves BY DEF BonusReserve
  <2> HIDE DEF r
  <2>4. DailyIncrease[r] \in Nat /\ MaxBonus[r] \in Nat BY <2>3, ConfigType
  <2>5. most \in Nat BY <2>4, CappedType
  <2>6. Bonus(o, rs, debt, coll) = DeleveragingRate(o, DailyIncrease[r], most, o.called - MarginPeriod)
    BY <1>2 DEF Bonus, CalledBonus, r
  <2> HIDE DEF most
  <2> QED BY <2>2, <2>4, <2>5, <2>6, DeleveragingRateType
<1>3. ASSUME NEW r \in Reserves, NEW crossed \in Nat \cup {NotCrossed}, IsOverLimit(o, r, crossed)
      PROVE  OverLimitBonus(o, r, crossed) \in Int
  <2>1. ReservePeriod[r] \in Nat /\ DailyIncrease[r] \in Nat /\ MaxBonus[r] \in Nat BY ConfigType
  <2>2. crossed - ReservePeriod[r] \in Nat BY <1>3, <2>1 DEF IsOverLimit, NotCrossed
  <2> QED BY <2>1, <2>2, DeleveragingRateType DEF OverLimitBonus
<1>4. CASE reason = "depositLimit"
  <2>1. IsOverLimit(o, coll, rs[coll].depositCrossed) BY <1>4 DEF Reason
  <2>2. rs[coll].depositCrossed \in Nat \cup {NotCrossed} BY DEF ReserveRecords
  <2> QED BY <1>3, <1>4, <2>1, <2>2 DEF Bonus
<1>5. CASE reason = "borrowLimit"
  <2>1. IsOverLimit(o, debt, rs[debt].borrowCrossed) BY <1>5 DEF Reason
  <2>2. rs[debt].borrowCrossed \in Nat \cup {NotCrossed} BY DEF ReserveRecords
  <2> QED BY <1>3, <1>5, <2>1, <2>2 DEF Bonus
<1>6. CASE reason = "order"
  <2> DEFINE i == OrderHit(o, rs, debt, coll)
             order == o.orders[i]
             least == FromBps(order.minBonus)
             distance == Distance(order, o, rs, debt, coll)
             rate == least + FMul(distance, FromBps(order.maxBonus) - least)
  <2>1. HitOrders(o, rs, debt, coll) # {} BY <1>6 DEF Reason
  <2>2. i \in OrderSlots /\ IsFirstHit(i, o, rs, debt, coll) BY <2>1, FirstHitFacts
  <2> HIDE DEF i
  <2>3. order \in OrderRecords BY <2>2 DEF ObligationRecords
  <2>4. IsHit(order, o, rs, debt, coll) BY <2>2 DEF IsFirstHit, HitOrders
  <2>5. IsEvaluable(order, o, rs, debt, coll)
    BY <1>6, <2>2 DEF OrdersEvaluable, IsFirstHit
  <2> HIDE DEF order
  <2>6. distance \in Int BY <2>3, <2>4, <2>5, DistanceType
  <2>7. order.minBonus \in Int /\ order.maxBonus \in Int BY <2>3 DEF OrderRecords
  <2>8. least \in Int /\ FromBps(order.maxBonus) \in Int BY <2>7, Conversions
  <2> HIDE DEF least, distance
  <2>9. FMul(distance, FromBps(order.maxBonus) - least) \in Int
    <3>1. FromBps(order.maxBonus) - least \in Int BY <2>8
    <3> QED BY <2>6, <3>1, FMulType
  <2>10. rate \in Int BY <2>8, <2>9
  <2>11. Bonus(o, rs, debt, coll) = Smaller(rate, ToBadDebt(o.health))
    BY <1>6 DEF Bonus, OrderBonus, i, order, least, distance
  <2> HIDE DEF rate
  <2>12. ToBadDebt(o.health) \in Int BY ToBadDebtType
  <2> QED BY <2>10, <2>11, <2>12 DEF Smaller
<1>7. reason \in {"ltv", "called", "depositLimit", "borrowLimit", "order"}
  BY DEF Reason
<1> QED BY <1>1, <1>2, <1>4, <1>5, <1>6, <1>7

-------------------------------------------------------------------------------
(* Liquidation: the amounts                                                   *)

LEMMA LiquidatedDebtType ==
  ASSUME NEW o \in ObligationRecords, NEW rs,
         NEW debt \in Reserves, NEW coll \in Reserves, NEW n \in Nat,
         o.health.debtValues[debt] # 0,
         Reason(o, rs, debt, coll) = "order" => HitOrders(o, rs, debt, coll) # {}
  PROVE  /\ LiquidatedDebt(o, rs, debt, coll, n) \in Nat
         /\ LiquidatedDebt(o, rs, debt, coll, n) <= o.debts[debt]
<1> DEFINE most == MaxLiquidatable(o, rs, debt, coll)
           owing == o.debts[debt]
<1>1. owing \in Nat BY HealthFields
<1>2. most \in Nat
  <2>1. CASE Reason(o, rs, debt, coll) = "order"
    <3>1. OrderHit(o, rs, debt, coll) \in OrderSlots BY <2>1, FirstHitFacts
    <3>2. o.orders[OrderHit(o, rs, debt, coll)].amount \in Nat
      BY <3>1 DEF ObligationRecords, OrderRecords
    <3>3. most = Smaller(o.orders[OrderHit(o, rs, debt, coll)].amount, owing)
      BY <2>1 DEF MaxLiquidatable
    <3> QED BY <1>1, <3>2, <3>3 DEF Smaller
  <2>2. CASE Reason(o, rs, debt, coll) # "order"
    <3> DEFINE rate == IF LoanToValueOf(o.health) > FromPercent(InsolvencyLtv) THEN One
                       ELSE FromPercent(CloseFactor)
               value == Smaller(Smaller(FMul(o.health.borrowed, rate),
                                        o.health.debtValues[debt]), MaxAtOnce)
    <3>1. o.health.borrowed \in Nat /\ o.health.debtValues[debt] \in Nat \ {0}
      BY HealthFields
    <3>2. rate \in Nat
      <4>1. CloseFactor \in Nat BY LiquidationAssumption
      <4> QED BY <4>1, Scale, Conversions
    <3>3. FMul(o.health.borrowed, rate) \in Nat
      <4> HIDE DEF rate
      <4> QED BY <3>1, <3>2, FMulType
    <3>4. value \in Nat
      <4>1. MaxAtOnce \in Nat BY LiquidationAssumption
      <4> HIDE DEF rate
      <4> QED BY <3>1, <3>3, <4>1 DEF Smaller
    <3>5. most = FMul(owing, FDiv(value, o.health.debtValues[debt]))
      BY <2>2 DEF MaxLiquidatable
    <3> HIDE DEF value, rate, most, owing
    <3>6. FDiv(value, o.health.debtValues[debt]) \in Nat BY <3>1, <3>4, FDivType
    <3> QED BY <1>1, <3>5, <3>6, FMulType
  <2> QED BY <2>1, <2>2
<1>3. FromNum(n) \in Nat BY Conversions
<1>4. LiquidatedDebt(o, rs, debt, coll, n) =
        IF IsSmall(o, rs, debt, coll) THEN owing
        ELSE Smaller(most, Smaller(FromNum(n), owing))
  BY DEF LiquidatedDebt
<1> HIDE DEF most, owing
<1>5. LiquidatedDebt(o, rs, debt, coll, n) \in Nat /\ LiquidatedDebt(o, rs, debt, coll, n) <= owing
  BY <1>1, <1>2, <1>3, <1>4 DEF Smaller
<1> QED BY <1>5 DEF owing

LEMMA AmountsType ==
  ASSUME NEW o \in ObligationRecords, NEW rs \in [Reserves -> ReserveRecords],
         NEW debt \in Reserves, NEW coll \in Reserves, NEW n \in Nat,
         rs[coll].price > 0, CanLiquidate(o, rs, debt, coll, n)
  PROVE  LET amounts == Amounts(o, rs, debt, coll, n)
         IN /\ amounts.settle \in Int /\ amounts.settle <= o.debts[debt]
            /\ amounts.withdraw \in Int /\ amounts.withdraw <= o.deposits[coll]
            /\ amounts.repay \in Int
<1> DEFINE liquidated == LiquidatedDebt(o, rs, debt, coll, n)
           small == IsSmall(o, rs, debt, coll)
           bonus == Bonus(o, rs, debt, coll)
           total == FMul(FMul(o.health.debtValues[debt], FDiv(liquidated, o.debts[debt])),
                         bonus + One)
           value == o.health.values[coll]
           part == FMul(FromNum(o.deposits[coll]), FDiv(total, value))
           settle == IF total > value /\ ~small THEN FMul(liquidated, FDiv(value, total))
                     ELSE liquidated
           withdraw == IF total >= value THEN o.deposits[coll] ELSE CollateralFor(part, small)
<1>1. /\ o.debts[debt] \in Nat \ {0} /\ o.deposits[coll] \in Nat
      /\ value \in Nat \ {0} /\ o.health.debtValues[debt] \in Nat
      /\ o.health.deposited # 0
  BY HealthFields DEF CanLiquidate, Borrows
<1>2. o.health.debtValues[debt] # 0
  <2>1. Weighted(o, debt, o.health.debtValues[debt]) # 0 BY DEF CanLiquidate
  <2> QED BY <1>1, <2>1, WeightedType
<1>3. /\ Reason(o, rs, debt, coll) # "none"
      /\ Reason(o, rs, debt, coll) = "order" => OrdersEvaluable(o, rs, debt, coll)
  BY DEF CanLiquidate
<1>4. Reason(o, rs, debt, coll) = "order" => HitOrders(o, rs, debt, coll) # {}
  BY DEF Reason
<1>5. liquidated \in Nat /\ liquidated <= o.debts[debt] BY <1>2, <1>4, LiquidatedDebtType
<1>6. bonus \in Int BY <1>1, <1>3, BonusType
<1>7. Amounts(o, rs, debt, coll, n) = [settle |-> settle, repay |-> ToCeil(settle), withdraw |-> withdraw]
  BY DEF Amounts
<1>8. Amounts(o, rs, debt, coll, n).withdraw <= o.deposits[coll] BY DEF CanLiquidate
<1> HIDE DEF liquidated, small, bonus
<1>9. total \in Int
  <2>1. FDiv(liquidated, o.debts[debt]) \in Nat BY <1>1, <1>5, FDivType
  <2>2. FMul(o.health.debtValues[debt], FDiv(liquidated, o.debts[debt])) \in Int
    <3> DEFINE v == o.health.debtValues[debt]
               w == FDiv(liquidated, o.debts[debt])
    <3>1. v \in Int /\ w \in Int BY <1>1, <2>1
    <3> HIDE DEF v, w
    <3>2. FMul(v, w) \in Int BY <3>1, FMulType
    <3> QED BY <3>2 DEF v, w
  <2>3. bonus + One \in Int BY <1>6, Scale
  <2> QED BY <2>2, <2>3, FMulType
<1> HIDE DEF total, value
<1>10. settle \in Int /\ settle <= o.debts[debt]
  <2>1. CASE total > value /\ ~small
    <3>1. total \in Nat \ {0} /\ value <= total BY <1>1, <1>9, <2>1
    <3>2. FDiv(value, total) \in Nat /\ FDiv(value, total) <= One
      BY <1>1, <3>1, FDivType, FDivBelow
    <3>3. FMul(liquidated, FDiv(value, total)) \in Nat
      BY <1>5, <3>2, FMulType
    <3>4. FMul(liquidated, FDiv(value, total)) <= liquidated BY <1>5, <3>2, FMulBelow
    <3> QED BY <1>1, <1>5, <2>1, <3>3, <3>4
  <2>2. CASE ~(total > value /\ ~small) BY <1>5, <2>2
  <2> QED BY <2>1, <2>2
<1>11. part \in Int
  <2>1. FDiv(total, value) \in Int BY <1>1, <1>9, FDivType
  <2>2. FromNum(o.deposits[coll]) \in Int BY <1>1, Conversions
  <2> QED BY <2>1, <2>2, FMulType
<1> HIDE DEF part, settle
<1>12. withdraw \in Int
  <2>1. CollateralFor(part, small) \in Int
    <3>1. DustAmount \in Nat BY LiquidationAssumption
    <3> QED BY <1>11, <3>1, Conversions DEF CollateralFor
  <2> QED BY <1>1, <2>1
<1> HIDE DEF withdraw
<1>13. ToCeil(settle) \in Int BY <1>10, Conversions
<1> QED BY <1>7, <1>8, <1>10, <1>12, <1>13

LEMMA SeizedFacts ==
  ASSUME NEW o, SoundRecord(o), NEW debt \in Reserves, NEW coll \in Reserves,
         debt \in Borrows(o), coll \in Deposits(o), NEW amounts,
         amounts.settle \in Int, amounts.settle <= o.debts[debt],
         amounts.withdraw \in Int, amounts.withdraw <= o.deposits[coll]
  PROVE  LET t == Seized(o, debt, coll, amounts)
         IN /\ Coherent(t) /\ t.orders = o.orders /\ Only(o, t, {coll}, {debt})
            /\ Deposits(t) \subseteq Deposits(o) /\ Borrows(t) \subseteq Borrows(o)
<1> DEFINE u == [o EXCEPT !.debts[debt] = @ - amounts.settle,
                          !.deposits[coll] = @ - amounts.withdraw]
           v == [u EXCEPT !.hasDebt = Borrows(u) # {}]
           t == MarkedStale(v)
<1>1. o \in ObligationRecords BY DEF SoundRecord, Coherent
<1>2. \A x \in Reserves : o.deposits[x] \in Nat /\ o.debts[x] \in Nat BY <1>1, HealthFields
<1>3. o.debts[debt] - amounts.settle \in Nat /\ o.deposits[coll] - amounts.withdraw \in Nat
  BY <1>2
<1>4. u \in ObligationRecords
  <2> DEFINE x == o.debts[debt] - amounts.settle
             y == o.deposits[coll] - amounts.withdraw
  <2>1. u = [[o EXCEPT !.debts[debt] = x] EXCEPT !.deposits[coll] = y]
    BY <1>1 DEF ObligationRecords
  <2>2. x \in Nat /\ y \in Nat BY <1>3
  <2> HIDE DEF x, y, u
  <2> QED BY <1>1, <2>1, <2>2, PositionsSet
<1>5. /\ u.orders = o.orders
      /\ \A x \in Reserves : x # debt => u.debts[x] = o.debts[x]
      /\ \A x \in Reserves : x # coll => u.deposits[x] = o.deposits[x]
  BY <1>1 DEF ObligationRecords
<1> HIDE DEF u
<1>6. /\ v \in ObligationRecords /\ v.hasDebt = (Borrows(u) # {}) /\ v.debts = u.debts
      /\ v.deposits = u.deposits /\ v.orders = u.orders
  BY <1>4 DEF ObligationRecords
<1>7. t = Seized(o, debt, coll, amounts) BY DEF Seized, u
<1> HIDE DEF v
<1>8. t \in ObligationRecords /\ Alike(v, t) BY <1>6, MarkedFacts
<1> HIDE DEF t
<1>9. Borrows(t) = Borrows(u) BY <1>6, <1>8 DEF Borrows, Alike
<1>10. Coherent(t) BY <1>6, <1>8, <1>9 DEF Coherent, Alike
<1>11. t.orders = o.orders /\ Only(o, t, {coll}, {debt})
  BY <1>5, <1>6, <1>8 DEF Alike, Only
<1>12. Deposits(t) \subseteq Deposits(o) /\ Borrows(t) \subseteq Borrows(o)
  BY <1>11 DEF Only, Deposits, Borrows
<1> QED BY <1>7, <1>10, <1>11, <1>12

LEMMA OrdersRemovedFacts ==
  ASSUME NEW o, Coherent(o)
  PROVE  SoundRecord(OrdersRemoved(o)) /\ Only(o, OrdersRemoved(o), {}, {})
<1> DEFINE t == OrdersRemoved(o)
<1>1. o \in ObligationRecords BY DEF Coherent
<1>2. NoOrders \in [OrderSlots -> OrderRecords]
  <2>1. NoOrder \in OrderRecords BY DEF NoOrder, OrderRecords, Conditions
  <2> QED BY <2>1 DEF NoOrders
<1>3. t \in ObligationRecords BY <1>1, <1>2 DEF OrdersRemoved, ObligationRecords
<1>4. /\ t.orders = NoOrders /\ t.debts = o.debts /\ t.deposits = o.deposits
      /\ t.hasDebt = o.hasDebt
  BY <1>1 DEF OrdersRemoved, ObligationRecords
<1> HIDE DEF t
<1>5. Borrows(t) = Borrows(o) BY <1>4 DEF Borrows
<1>6. Coherent(t) BY <1>3, <1>4, <1>5 DEF Coherent
<1>7. OrdersHold(t) BY <1>4, OrdersHoldWithNone
<1>8. Only(o, t, {}, {}) BY <1>4 DEF Only
<1> QED BY <1>6, <1>7, <1>8 DEF SoundRecord, t

LEMMA OrderConsumedFacts ==
  ASSUME NEW o, SoundRecord(o), NEW i \in OrderSlots, IsActive(o.orders[i]), NEW repaid \in Int
  PROVE  SoundRecord(OrderConsumed(o, i, repaid)) /\ Only(o, OrderConsumed(o, i, repaid), {}, {})
<1> DEFINE order == o.orders[i]
           rest == Consumed(order, repaid)
           left == order.amount - FromNum(repaid)
           t == OrderConsumed(o, i, repaid)
<1>1. o \in ObligationRecords /\ o.hasDebt = (Borrows(o) # {}) /\ OrdersHold(o)
  BY DEF SoundRecord, Coherent
<1>2. order \in OrderRecords BY <1>1 DEF ObligationRecords
<1>3. NoOrder \in OrderRecords /\ ~IsActive(NoOrder)
  BY DEF NoOrder, OrderRecords, Conditions, IsActive
<1>4. rest = IF order.all THEN order
             ELSE IF left > 0 THEN [order EXCEPT !.amount = left] ELSE NoOrder
  BY DEF Consumed
<1>5. left \in Int
  <2>1. order.amount \in Nat /\ FromNum(repaid) \in Int
    BY <1>2, Conversions DEF OrderRecords
  <2> HIDE DEF order
  <2> QED BY <2>1
<1> HIDE DEF left, order
<1>6. rest \in OrderRecords
  <2>1. left > 0 => [order EXCEPT !.amount = left] \in OrderRecords
    BY <1>2, <1>5 DEF OrderRecords
  <2> QED BY <1>2, <1>3, <1>4, <2>1
<1>7. rest # NoOrder /\ rest # order =>
        rest.condition = order.condition /\ rest.all = order.all
  BY <1>2, <1>4 DEF OrderRecords
<1>8. t = [o EXCEPT !.orders[i] = rest] BY DEF OrderConsumed, order
<1> HIDE DEF rest, t
<1>9. t \in ObligationRecords BY <1>1, <1>6, <1>8 DEF ObligationRecords
<1>10. /\ t.debts = o.debts /\ t.deposits = o.deposits /\ t.hasDebt = o.hasDebt
       /\ t.orders[i] = rest /\ \A j \in OrderSlots : j # i => t.orders[j] = o.orders[j]
  BY <1>1, <1>8 DEF ObligationRecords
<1>11. Borrows(t) = Borrows(o) /\ Deposits(t) = Deposits(o)
  BY <1>10 DEF Borrows, Deposits
<1>12. SingleDebt(t) = SingleDebt(o) /\ SingleCollateral(t) = SingleCollateral(o)
  BY <1>11 DEF SingleDebt, SingleCollateral
<1>13. /\ ~IsActive(rest) => rest = NoOrder
       /\ IsActive(rest) =>
            /\ ~rest.all => SingleDebt(o)
            /\ rest.condition \in RatioConditions =>
                 SingleDebt(o) /\ (SingleCollateral(o) \/ Deposits(o) = {})
  <2>1. CASE rest = NoOrder BY <1>3, <2>1
  <2>2. CASE rest = order BY <1>1, <2>2 DEF OrdersHold, order
  <2>3. CASE rest # NoOrder /\ rest # order
    <3>1. rest.condition = order.condition /\ rest.all = order.all BY <1>7, <2>3
    <3>2. IsActive(order) BY DEF order
    <3>3. IsActive(rest) BY <3>1, <3>2 DEF IsActive
    <3> QED BY <1>1, <3>1, <3>2, <3>3 DEF OrdersHold, order
  <2> QED BY <2>1, <2>2, <2>3
<1>14. OrdersHold(t) BY <1>1, <1>10, <1>11, <1>12, <1>13 DEF OrdersHold
<1>15. Coherent(t) BY <1>1, <1>9, <1>10, <1>11 DEF Coherent
<1>16. Only(o, t, {}, {}) BY <1>10 DEF Only
<1> QED BY <1>14, <1>15, <1>16 DEF SoundRecord, t

LEMMA LiquidateFacts ==
  ASSUME NEW o, SoundRecord(o), NEW rs \in [Reserves -> ReserveRecords],
         NEW debt \in Reserves, NEW coll \in Reserves, NEW n \in Nat,
         rs[coll].price > 0, CanLiquidate(o, rs, debt, coll, n)
  PROVE  /\ SoundRecord(Liquidated(o, rs, debt, coll, n))
         /\ Only(o, Liquidated(o, rs, debt, coll, n), {coll}, {debt})
<1> DEFINE amounts == Amounts(o, rs, debt, coll, n)
           seized == Seized(o, debt, coll, amounts)
           i == OrderHit(o, rs, debt, coll)
           t == Liquidated(o, rs, debt, coll, n)
<1>1. o \in ObligationRecords /\ o.hasDebt = (Borrows(o) # {}) /\ OrdersHold(o)
  BY DEF SoundRecord, Coherent
<1>2. debt \in Borrows(o) /\ coll \in Deposits(o) BY DEF CanLiquidate
<1>3. /\ amounts.settle \in Int /\ amounts.settle <= o.debts[debt]
      /\ amounts.withdraw \in Int /\ amounts.withdraw <= o.deposits[coll]
      /\ amounts.repay \in Int
  BY <1>1, AmountsType
<1>4. t = IF ~seized.hasDebt THEN OrdersRemoved(seized)
          ELSE IF Reason(o, rs, debt, coll) = "order"
          THEN OrderConsumed(seized, i, amounts.repay)
          ELSE seized
  BY DEF Liquidated
<1> HIDE DEF amounts
<1>5. /\ Coherent(seized) /\ seized.orders = o.orders /\ Only(o, seized, {coll}, {debt})
      /\ Deposits(seized) \subseteq Deposits(o) /\ Borrows(seized) \subseteq Borrows(o)
  BY <1>2, <1>3, SeizedFacts
<1> HIDE DEF seized, t
<1>6. CASE ~seized.hasDebt
  <2>1. SoundRecord(t) /\ Only(seized, t, {}, {}) BY <1>4, <1>5, <1>6, OrdersRemovedFacts
  <2> QED BY <1>5, <2>1 DEF Only, t
<1>7. CASE seized.hasDebt
  <2>1. OrdersHold(seized)
    <3>1. Borrows(seized) # {} BY <1>5, <1>7 DEF Coherent
    <3> QED BY <1>1, <1>5, <3>1, OrdersHoldWithLess
  <2>2. SoundRecord(seized) BY <1>5, <2>1 DEF SoundRecord
  <2>3. CASE Reason(o, rs, debt, coll) = "order"
    <3>1. HitOrders(o, rs, debt, coll) # {} BY <2>3 DEF Reason
    <3>2. i \in OrderSlots /\ IsFirstHit(i, o, rs, debt, coll) BY <1>1, <3>1, FirstHitFacts
    <3>3. IsActive(o.orders[i])
      BY <3>2 DEF IsFirstHit, HitOrders, IsHit, StopLosses, TakeProfits, IsActive
    <3>4. t = OrderConsumed(seized, i, amounts.repay) BY <1>4, <1>7, <2>3
    <3>5. i \in OrderSlots /\ IsActive(seized.orders[i]) BY <1>5, <3>2, <3>3
    <3> HIDE DEF i
    <3>6. SoundRecord(t) /\ Only(seized, t, {}, {})
      BY <1>3, <2>2, <3>4, <3>5, OrderConsumedFacts
    <3> QED BY <1>5, <3>6 DEF Only, t
  <2>4. CASE Reason(o, rs, debt, coll) # "order"
    <3>1. t = seized BY <1>4, <1>7, <2>4
    <3> QED BY <1>5, <2>2, <3>1 DEF t
  <2> QED BY <2>3, <2>4
<1> QED BY <1>5, <1>6, <1>7 DEF Coherent, ObligationRecords

-------------------------------------------------------------------------------
(* A changed position leaves the obligation stale, and what a refresh keeps   *)
(* is a function of the positions, the group and the prices.                  *)

LEMMA MarkedIsStale ==
  ASSUME NEW o, "fresh" \in DOMAIN o
  PROVE  ~MarkedStale(o).fresh /\ "fresh" \in DOMAIN MarkedStale(o)
BY DEF MarkedStale

LEMMA WithdrawnIsStale ==
  ASSUME NEW o, "fresh" \in DOMAIN o, NEW r, NEW n
  PROVE  ~Withdrawn(o, r, n).fresh /\ "fresh" \in DOMAIN Withdrawn(o, r, n)
<1> DEFINE u == [o EXCEPT !.deposits[r] = @ - n]
           t == MarkedStale(u)
<1>1. "fresh" \in DOMAIN u OBVIOUS
<1> HIDE DEF u
<1>2. ~t.fresh /\ "fresh" \in DOMAIN t BY <1>1, MarkedIsStale
<1>3. Withdrawn(o, r, n) = Closed(t) BY DEF Withdrawn, u
<1> HIDE DEF t
<1>4. ~NewObligation.fresh /\ "fresh" \in DOMAIN NewObligation BY DEF NewObligation
<1> QED BY <1>2, <1>3, <1>4 DEF Closed

LEMMA WithdrawnWithinIsStale ==
  ASSUME NEW o, "fresh" \in DOMAIN o, NEW rs, NEW w, NEW m
  PROVE  ~WithdrawnWithin(o, rs, w, m).fresh
<1> DEFINE left == Withdrawn(o, w, WithdrawAmount(o, w, m, "liquidationThreshold"))
           v == Refreshed(left, rs)
<1>1. ~left.fresh /\ "fresh" \in DOMAIN left BY WithdrawnIsStale
<1>2. WithdrawnWithin(o, rs, w, m) = IF left = NewObligation THEN left ELSE MarkedStale(v)
  BY DEF WithdrawnWithin
<1> HIDE DEF left
<1>3. "fresh" \in DOMAIN v BY <1>1 DEF Refreshed
<1> HIDE DEF v
<1>4. ~MarkedStale(v).fresh BY <1>3, MarkedIsStale
<1> QED BY <1>1, <1>2, <1>4

LEMMA OwnerLeavesStale ==
  ASSUME NEW o \in ObligationRecords, NEW rs, NEW r, NEW n, NEW w, NEW m
  PROVE  /\ ~DepositMade(o, r, n).fresh /\ ~Borrowed(o, r, n).fresh
         /\ ~Withdrawn(o, r, n).fresh /\ ~Repaid(o, r, n).fresh
         /\ ~RepaidAndWithdrawn(o, rs, r, n, w, m).fresh
         /\ ~DepositedAndWithdrawn(o, rs, r, n, w, m).fresh
         /\ ~GroupChanged(o, n).fresh
<1>1. "fresh" \in DOMAIN o BY DEF ObligationRecords
<1>2. ASSUME NEW k
      PROVE  /\ ~DepositMade(o, r, k).fresh /\ "fresh" \in DOMAIN DepositMade(o, r, k)
             /\ ~Repaid(o, r, k).fresh /\ "fresh" \in DOMAIN Repaid(o, r, k)
  BY <1>1 DEF DepositMade, Repaid, WithHasDebt, MarkedStale
<1>3. ~Borrowed(o, r, n).fresh /\ ~GroupChanged(o, n).fresh
  BY <1>1 DEF Borrowed, GroupChanged, MarkedStale
<1>4. ~Withdrawn(o, r, n).fresh BY <1>1, WithdrawnIsStale
<1>5. ASSUME NEW x, "fresh" \in DOMAIN x, NEW us
      PROVE  "fresh" \in DOMAIN Refreshed(x, us)
  BY <1>5 DEF Refreshed
<1>6. ~RepaidAndWithdrawn(o, rs, r, n, w, m).fresh
  <2> DEFINE repaid == Repaid(o, r, SettleAmount(o, r, n))
             after == RepayReserves(o, rs, r, n, w)
             x == Refreshed(repaid, after)
  <2>1. RepaidAndWithdrawn(o, rs, r, n, w, m) = WithdrawnWithin(x, after, w, m)
    BY DEF RepaidAndWithdrawn
  <2>2. "fresh" \in DOMAIN repaid BY <1>2
  <2> HIDE DEF repaid, after
  <2>3. "fresh" \in DOMAIN x BY <1>5, <2>2
  <2> HIDE DEF x
  <2> QED BY <2>1, <2>3, WithdrawnWithinIsStale
<1>7. ~DepositedAndWithdrawn(o, rs, r, n, w, m).fresh
  <2> DEFINE made == DepositMade(o, r, n)
             x == Refreshed(made, rs)
  <2>1. DepositedAndWithdrawn(o, rs, r, n, w, m) = WithdrawnWithin(x, rs, w, m)
    BY DEF DepositedAndWithdrawn
  <2>2. "fresh" \in DOMAIN made BY <1>2
  <2> HIDE DEF made
  <2>3. "fresh" \in DOMAIN x BY <1>5, <2>2
  <2> HIDE DEF x
  <2> QED BY <2>1, <2>3, WithdrawnWithinIsStale
<1> QED BY <1>2, <1>3, <1>4, <1>6, <1>7

LEMMA LiquidationLeavesStale ==
  ASSUME NEW o \in ObligationRecords, NEW rs, NEW debt, NEW coll, NEW n
  PROVE  ~Liquidated(o, rs, debt, coll, n).fresh
<1> DEFINE amounts == Amounts(o, rs, debt, coll, n)
           u == [o EXCEPT !.debts[debt] = @ - amounts.settle,
                          !.deposits[coll] = @ - amounts.withdraw]
           v == [u EXCEPT !.hasDebt = Borrows(u) # {}]
           seized == Seized(o, debt, coll, amounts)
<1>1. "fresh" \in DOMAIN o BY DEF ObligationRecords
<1>2. "fresh" \in DOMAIN v BY <1>1
<1>3. seized = MarkedStale(v) BY DEF Seized
<1> HIDE DEF v
<1>4. ~seized.fresh /\ "fresh" \in DOMAIN seized BY <1>2, <1>3, MarkedIsStale
<1>5. Liquidated(o, rs, debt, coll, n) =
        IF ~seized.hasDebt THEN OrdersRemoved(seized)
        ELSE IF Reason(o, rs, debt, coll) = "order"
        THEN OrderConsumed(seized, OrderHit(o, rs, debt, coll), amounts.repay)
        ELSE seized
  BY DEF Liquidated
<1> HIDE DEF seized, amounts
<1>6. ~OrdersRemoved(seized).fresh BY <1>4 DEF OrdersRemoved
<1>7. ASSUME NEW i, NEW repaid
      PROVE  ~OrderConsumed(seized, i, repaid).fresh
  BY <1>4 DEF OrderConsumed
<1> QED BY <1>4, <1>5, <1>6, <1>7

LEMMA HealthSame ==
  ASSUME NEW o, NEW t, t.group = o.group, t.deposits = o.deposits, t.debts = o.debts,
         NEW rs, NEW us, \A r \in Reserves : us[r].price = rs[r].price
  PROVE  HealthOf(t, us) = HealthOf(o, rs)
<1>1. \A a, r : r \in Reserves => ValueOf(a, us, r) = ValueOf(a, rs, r) BY DEF ValueOf
<1>2. /\ InGroup(t) = InGroup(o) /\ Deposits(t) = Deposits(o) /\ Borrows(t) = Borrows(o)
  BY DEF InGroup, Deposits, Borrows
<1>3. \A r : /\ LtvOf(t, r) = LtvOf(o, r) /\ ThresholdOf(t, r) = ThresholdOf(o, r)
             /\ FactorOf(t, r) = FactorOf(o, r)
  BY <1>2 DEF LtvOf, ThresholdOf, FactorOf
<1>4. \A r, v : Weighted(t, r, v) = Weighted(o, r, v) BY <1>3 DEF Weighted
<1>5. \A pct : BackedBy(t, us, pct) = BackedBy(o, rs, pct)
  <2>1. ASSUME NEW pct
        PROVE  [r \in Reserves |->
                  FMul(ValueOf(FromNum(t.deposits[r]), us, r), FromPercent(pct[r]))]
               = [r \in Reserves |->
                    FMul(ValueOf(FromNum(o.deposits[r]), rs, r), FromPercent(pct[r]))]
    BY <1>1
  <2> QED BY <1>2, <2>1 DEF BackedBy
<1> DEFINE values == [r \in Reserves |-> ValueOf(FromNum(o.deposits[r]), rs, r)]
           debtValues == [r \in Reserves |-> ValueOf(o.debts[r], rs, r)]
           weighted == [r \in Reserves |-> Weighted(o, r, debtValues[r])]
           ltvs == [r \in Reserves |-> LtvOf(o, r)]
           thresholds == [r \in Reserves |-> ThresholdOf(o, r)]
           factors == [r \in Reserves |-> FactorOf(o, r)]
           health ==
             [values |-> values, debtValues |-> debtValues,
              deposited |-> Total(values, Deposits(o)),
              borrowed |-> Total(debtValues, Borrows(o)),
              debt |-> Total(weighted, Borrows(o)),
              allowed |-> Smaller(BackedBy(o, rs, ltvs), GlobalAllowed),
              unhealthy |-> BackedBy(o, rs, thresholds),
              lowestThreshold |->
                Lowest(thresholds,
                       {r \in Deposits(o) : values[r] >= SkipLtvBelow /\ thresholds[r] > 0}, U8Max),
              lowestLtv |-> Lowest(ltvs, Deposits(o), U8Max),
              highestFactor |->
                Highest(factors, {r \in Borrows(o) : debtValues[r] >= SkipFactorBelow}, 100),
              obsolete |-> (Deposits(o) \cup Borrows(o)) \cap Obsolete # {},
              disabled |-> ~InGroup(o) /\ Deposits(o) \cap GroupOnly # {}]
<1>6. HealthOf(o, rs) = health BY DEF HealthOf
<1>7. /\ values = [r \in Reserves |-> ValueOf(FromNum(t.deposits[r]), us, r)]
      /\ debtValues = [r \in Reserves |-> ValueOf(t.debts[r], us, r)]
      /\ ltvs = [r \in Reserves |-> LtvOf(t, r)]
      /\ thresholds = [r \in Reserves |-> ThresholdOf(t, r)]
      /\ factors = [r \in Reserves |-> FactorOf(t, r)]
  BY <1>1, <1>3
<1>8. weighted = [r \in Reserves |-> Weighted(t, r, debtValues[r])]
  BY <1>4
<1> HIDE DEF values, debtValues, weighted, ltvs, thresholds, factors
<1>9. HealthOf(t, us) = health BY <1>2, <1>5, <1>7, <1>8 DEF HealthOf
<1> QED BY <1>6, <1>9

-------------------------------------------------------------------------------
(* What the owner may leave is covered: the totals of a refresh are sums over  *)
(* all reserves, of which an operation changes one term.                      *)

\* What each reserve adds to the totals.
DebtTerms(o, rs) == [r \in Reserves |-> Weighted(o, r, ValueOf(o.debts[r], rs, r))]
DepositTerms(o, rs) == [r \in Reserves |-> ValueOf(FromNum(o.deposits[r]), rs, r)]
BackedTerms(o, rs, pct) ==
  [r \in Reserves |-> FMul(ValueOf(FromNum(o.deposits[r]), rs, r), FromPercent(pct[r]))]

Ltvs(o) == [r \in Reserves |-> LtvOf(o, r)]
Thresholds(o) == [r \in Reserves |-> ThresholdOf(o, r)]

LEMMA HealthParts ==
  ASSUME NEW o, NEW rs
  PROVE  /\ HealthOf(o, rs).deposited = Total(DepositTerms(o, rs), Deposits(o))
         /\ HealthOf(o, rs).debt = Total(DebtTerms(o, rs), Borrows(o))
         /\ HealthOf(o, rs).allowed = Smaller(BackedBy(o, rs, Ltvs(o)), GlobalAllowed)
         /\ HealthOf(o, rs).unhealthy = BackedBy(o, rs, Thresholds(o))
<1> DEFINE d == DepositTerms(o, rs)
           v == [r \in Reserves |-> ValueOf(o.debts[r], rs, r)]
           w == DebtTerms(o, rs)
<1>1. w = [r \in Reserves |-> Weighted(o, r, v[r])] BY DEF DebtTerms
<1>2. HealthOf(o, rs) =
  [values |-> d, debtValues |-> v,
   deposited |-> Total(d, Deposits(o)),
   borrowed |-> Total(v, Borrows(o)),
   debt |-> Total(w, Borrows(o)),
   allowed |-> Smaller(BackedBy(o, rs, Ltvs(o)), GlobalAllowed),
   unhealthy |-> BackedBy(o, rs, Thresholds(o)),
   lowestThreshold |->
     Lowest(Thresholds(o),
            {r \in Deposits(o) : d[r] >= SkipLtvBelow /\ Thresholds(o)[r] > 0}, U8Max),
   lowestLtv |-> Lowest(Ltvs(o), Deposits(o), U8Max),
   highestFactor |->
     Highest([r \in Reserves |-> FactorOf(o, r)],
             {r \in Borrows(o) : v[r] >= SkipFactorBelow}, 100),
   obsolete |-> (Deposits(o) \cup Borrows(o)) \cap Obsolete # {},
   disabled |-> ~InGroup(o) /\ Deposits(o) \cap GroupOnly # {}]
  BY <1>1 DEF HealthOf, DepositTerms, Ltvs, Thresholds
<1> HIDE DEF d, v, w
<1> QED BY <1>2 DEF d, w

LEMMA TermsType ==
  ASSUME NEW o \in ObligationRecords, NEW rs \in [Reserves -> ReserveRecords], NEW r \in Reserves
  PROVE  /\ DebtTerms(o, rs)[r] \in Nat
         /\ DepositTerms(o, rs)[r] \in Nat
         /\ BackedTerms(o, rs, Ltvs(o))[r] \in Nat
         /\ BackedTerms(o, rs, Thresholds(o))[r] \in Nat
         /\ BackedTerms(o, rs, Ltvs(o))[r] <= BackedTerms(o, rs, Thresholds(o))[r]
         /\ o.debts[r] = 0 => DebtTerms(o, rs)[r] = 0
         /\ o.deposits[r] = 0 =>
              /\ DepositTerms(o, rs)[r] = 0
              /\ BackedTerms(o, rs, Thresholds(o))[r] = 0
<1> DEFINE v == ValueOf(FromNum(o.deposits[r]), rs, r)
           d == ValueOf(o.debts[r], rs, r)
           p == LtvOf(o, r)
           q == ThresholdOf(o, r)
<1>1. /\ rs[r].price \in Nat /\ o.deposits[r] \in Nat /\ o.debts[r] \in Nat
      /\ One \in Nat \ {0}
  BY OneAssumption DEF ReserveRecords, ObligationRecords
<1>2. v = o.deposits[r] * rs[r].price BY <1>1, FromNumExact DEF ValueOf
<1>3. v \in Nat /\ (o.deposits[r] = 0 => v = 0) BY <1>1, <1>2
<1>4. d \in Nat /\ (o.debts[r] = 0 => d = 0)
  <2>1. d \in Nat BY <1>1, ValueType
  <2>2. 0 * rs[r].price = 0 /\ 0 \div One = 0 BY <1>1
  <2> QED BY <2>1, <2>2 DEF ValueOf, FMul
<1>5. p \in Nat /\ q \in Nat /\ p <= q
  <2> DEFINE x == IF InGroup(o) THEN o.group ELSE r
  <2>1. x \in Reserves \cup Groups BY DEF InGroup, ObligationRecords
  <2> HIDE DEF x
  <2>2. LoanToValue[x] <= LiquidationThreshold[x] BY <2>1, PositionAssumption
  <2> QED BY <2>2, PercentsType DEF LtvOf, ThresholdOf, x
<1> DEFINE f == FromPercent(p)
           g == FromPercent(q)
<1>6. f \in Nat /\ g \in Nat /\ f <= g
  <2>1. f \in Nat /\ g \in Nat BY <1>5, Conversions
  <2>2. p * One <= q * One /\ p * One \in Int /\ q * One \in Int BY <1>1, <1>5, Z3
  <2> DEFINE x == p * One
             y == q * One
             u == x \div 100
  <2>3. x \in Int /\ y \in Int /\ x <= y BY <2>2
  <2> HIDE DEF x, y
  <2>4. u \in Int /\ 100 * u <= x BY <2>3, QuotientBounds
  <2> HIDE DEF u
  <2>5. 100 * u <= y BY <2>3, <2>4
  <2>6. u <= y \div 100 BY <2>3, <2>4, <2>5, QuotientLeast
  <2> QED BY <2>1, <2>6 DEF FromPercent, u, x, y
<1>7. /\ DebtTerms(o, rs)[r] = Weighted(o, r, d)
      /\ DepositTerms(o, rs)[r] = v
      /\ BackedTerms(o, rs, Ltvs(o))[r] = FMul(v, f)
      /\ BackedTerms(o, rs, Thresholds(o))[r] = FMul(v, g)
  BY DEF DebtTerms, DepositTerms, BackedTerms, Ltvs, Thresholds
<1> HIDE DEF v, d, p, q, f, g
<1>8. Weighted(o, r, d) \in Nat /\ (d = 0 => Weighted(o, r, d) = 0) BY <1>4, WeightedType
<1>9. FMul(v, f) \in Nat /\ FMul(v, g) \in Nat BY <1>3, <1>6, FMulType
<1>10. FMul(v, f) <= FMul(v, g) BY <1>3, <1>6, FMulMonotone
<1>11. v = 0 => FMul(v, g) = 0
  <2>1. 0 * g = 0 /\ 0 \div One = 0 BY <1>1, <1>6
  <2> QED BY <2>1 DEF FMul
<1> QED BY <1>3, <1>4, <1>7, <1>8, <1>9, <1>10, <1>11

LEMMA TotalSum ==
  ASSUME NEW f, \A r \in Reserves : f[r] \in Nat, NEW S \in SUBSET Reserves,
         \A r \in Reserves \ S : f[r] = 0
  PROVE  /\ Total(f, S) = SumFunctionOnSet(f, Reserves)
         /\ Total(f, S) \in Nat
<1>1. Total(f, S) = SumFunctionOnSet(f, S) BY DEF Total, SumFunctionOnSet
<1>2. IsFiniteSet(Reserves) /\ IsFiniteSet(S) BY PositionAssumption, Members
<1>3. SumFunctionOnSet(f, Reserves) = SumFunctionOnSet(f, S)
  <2>1. \A r \in Reserves : f[r] \in Int OBVIOUS
  <2> QED BY <1>2, <2>1, SumRestricted
<1>4. SumFunctionOnSet(f, S) \in Nat BY <1>2, SumNatural
<1> QED BY <1>1, <1>3, <1>4

\* The totals of a refresh as sums over all reserves.
LEMMA HealthSums ==
  ASSUME NEW o \in ObligationRecords, NEW rs \in [Reserves -> ReserveRecords]
  PROVE  /\ HealthOf(o, rs).deposited = SumFunctionOnSet(DepositTerms(o, rs), Reserves)
         /\ HealthOf(o, rs).debt = SumFunctionOnSet(DebtTerms(o, rs), Reserves)
         /\ HealthOf(o, rs).unhealthy =
              SumFunctionOnSet(BackedTerms(o, rs, Thresholds(o)), Reserves)
         /\ HealthOf(o, rs).deposited \in Nat /\ HealthOf(o, rs).debt \in Nat
         /\ HealthOf(o, rs).unhealthy \in Nat
<1> DEFINE d == DepositTerms(o, rs)
           w == DebtTerms(o, rs)
           b == BackedTerms(o, rs, Thresholds(o))
<1>1. /\ HealthOf(o, rs).deposited = Total(d, Deposits(o))
      /\ HealthOf(o, rs).debt = Total(w, Borrows(o))
      /\ HealthOf(o, rs).unhealthy = Total(b, Deposits(o))
  BY HealthParts DEF BackedBy, BackedTerms
<1>2. /\ \A r \in Reserves : d[r] \in Nat /\ w[r] \in Nat /\ b[r] \in Nat
      /\ \A r \in Reserves \ Deposits(o) : d[r] = 0 /\ b[r] = 0
      /\ \A r \in Reserves \ Borrows(o) : w[r] = 0
  <2>1. \A r \in Reserves : o.deposits[r] \in Nat /\ o.debts[r] \in Nat
    BY DEF ObligationRecords
  <2>2. /\ \A r \in Reserves \ Deposits(o) : o.deposits[r] = 0
        /\ \A r \in Reserves \ Borrows(o) : o.debts[r] = 0
    BY <2>1 DEF Deposits, Borrows
  <2> QED BY <2>2, TermsType
<1>3. Deposits(o) \in SUBSET Reserves /\ Borrows(o) \in SUBSET Reserves
  BY DEF Deposits, Borrows
<1> HIDE DEF d, w, b
<1>4. /\ Total(d, Deposits(o)) = SumFunctionOnSet(d, Reserves) /\ Total(d, Deposits(o)) \in Nat
      /\ Total(b, Deposits(o)) = SumFunctionOnSet(b, Reserves) /\ Total(b, Deposits(o)) \in Nat
      /\ Total(w, Borrows(o)) = SumFunctionOnSet(w, Reserves) /\ Total(w, Borrows(o)) \in Nat
  BY <1>2, <1>3, TotalSum
<1> QED BY <1>1, <1>4 DEF d, w, b

\* What may be borrowed is within the liquidation limit.
LEMMA LimitBelow ==
  ASSUME NEW o \in ObligationRecords, NEW rs \in [Reserves -> ReserveRecords]
  PROVE  /\ BackedBy(o, rs, Ltvs(o)) <= HealthOf(o, rs).unhealthy
         /\ HealthOf(o, rs).allowed <= HealthOf(o, rs).unhealthy
<1> DEFINE a == BackedTerms(o, rs, Ltvs(o))
           b == BackedTerms(o, rs, Thresholds(o))
           S == Deposits(o)
<1>1. S \in SUBSET Reserves /\ IsFiniteSet(S) BY Members DEF Deposits
<1>2. \A r \in S : a[r] \in Int /\ b[r] \in Int /\ a[r] <= b[r] BY <1>1, TermsType
<1>3. /\ BackedBy(o, rs, Ltvs(o)) = SumFunctionOnSet(a, S)
      /\ HealthOf(o, rs).unhealthy = SumFunctionOnSet(b, S)
  BY HealthParts DEF BackedBy, BackedTerms, Total, SumFunctionOnSet
<1>4. HealthOf(o, rs).allowed = Smaller(BackedBy(o, rs, Ltvs(o)), GlobalAllowed)
  BY HealthParts
<1> HIDE DEF a, b, S
<1>5. SumFunctionOnSet(a, S) <= SumFunctionOnSet(b, S) BY <1>1, <1>2, SumMonotone
<1>6. SumFunctionOnSet(a, S) \in Int /\ SumFunctionOnSet(b, S) \in Int BY <1>1, <1>2, SumType
<1>7. GlobalAllowed \in Nat BY PositionAssumption
<1> QED BY <1>3, <1>4, <1>5, <1>6, <1>7 DEF Smaller

LEMMA CoveredWhen ==
  ASSUME NEW h, h.debt \in Nat, h.unhealthy \in Nat, NEW r \in Reserves,
         \/ h.debt <= h.unhealthy
         \/ h.debt <= h.unhealthy + BorrowFactor[r] \div 100 + 2
  PROVE  IsCovered(h)
<1> DEFINE b == BorrowFactor[r] \div 100
<1>1. b \in Nat
  <2>1. BorrowFactor[r] \in Nat BY PositionAssumption
  <2> QED BY <2>1
<1>2. h.debt <= h.unhealthy \/ h.debt <= h.unhealthy + b + 2 OBVIOUS
<1>3. h.debt <= h.unhealthy + b + 2
  <2> HIDE DEF b
  <2> QED BY <1>1, <1>2
<1> QED BY <1>3 DEF IsCovered

\* What the deposits back for borrowing, as a sum over all reserves.
LEMMA LimitSum ==
  ASSUME NEW o \in ObligationRecords, NEW rs \in [Reserves -> ReserveRecords]
  PROVE  /\ BackedBy(o, rs, Ltvs(o)) = SumFunctionOnSet(BackedTerms(o, rs, Ltvs(o)), Reserves)
         /\ BackedBy(o, rs, Ltvs(o)) \in Nat
<1> DEFINE b == BackedTerms(o, rs, Ltvs(o))
<1>1. BackedBy(o, rs, Ltvs(o)) = Total(b, Deposits(o)) BY DEF BackedBy, BackedTerms
<1>2. \A r \in Reserves : b[r] \in Nat BY TermsType
<1>3. \A r \in Reserves \ Deposits(o) : b[r] = 0
  <2>1. ASSUME NEW r \in Reserves \ Deposits(o) PROVE b[r] = 0
    <3>1. o.deposits[r] = 0 BY DEF Deposits, ObligationRecords
    <3>2. /\ b[r] \in Nat
          /\ b[r] <= BackedTerms(o, rs, Thresholds(o))[r]
          /\ BackedTerms(o, rs, Thresholds(o))[r] = 0
      BY <3>1, TermsType
    <3> HIDE DEF b
    <3> QED BY <3>2
  <2> QED BY <2>1
<1>4. Deposits(o) \in SUBSET Reserves BY DEF Deposits
<1> HIDE DEF b
<1>5. Total(b, Deposits(o)) = SumFunctionOnSet(b, Reserves) /\ Total(b, Deposits(o)) \in Nat
  BY <1>2, <1>3, <1>4, TotalSum
<1> QED BY <1>1, <1>5 DEF b

LEMMA LimitSame ==
  ASSUME NEW o, NEW t, t.group = o.group, t.deposits = o.deposits,
         NEW rs, NEW us, \A r \in Reserves : us[r].price = rs[r].price
  PROVE  BackedBy(t, us, Ltvs(t)) = BackedBy(o, rs, Ltvs(o))
<1>1. \A a, r : r \in Reserves => ValueOf(a, us, r) = ValueOf(a, rs, r) BY DEF ValueOf
<1>2. Deposits(t) = Deposits(o) BY DEF Deposits
<1>3. Ltvs(t) = Ltvs(o) BY DEF Ltvs, LtvOf, InGroup
<1> DEFINE pct == Ltvs(o)
<1>4. [r \in Reserves |-> FMul(ValueOf(FromNum(t.deposits[r]), us, r), FromPercent(pct[r]))]
      = [r \in Reserves |-> FMul(ValueOf(FromNum(o.deposits[r]), rs, r), FromPercent(pct[r]))]
  BY <1>1
<1> HIDE DEF pct
<1>5. BackedBy(t, us, pct) = BackedBy(o, rs, pct) BY <1>2, <1>4 DEF BackedBy
<1> QED BY <1>3, <1>5 DEF pct

\* The limit for liquidations is at most what is deposited: a threshold is at most 100
\* percent.
LEMMA LimitWithinDeposits ==
  ASSUME NEW o \in ObligationRecords, NEW rs \in [Reserves -> ReserveRecords]
  PROVE  HealthOf(o, rs).unhealthy <= HealthOf(o, rs).deposited
<1> DEFINE b == BackedTerms(o, rs, Thresholds(o))
           d == DepositTerms(o, rs)
<1>1. /\ HealthOf(o, rs).deposited = SumFunctionOnSet(d, Reserves)
      /\ HealthOf(o, rs).unhealthy = SumFunctionOnSet(b, Reserves)
  BY HealthSums
<1>2. ASSUME NEW r \in Reserves PROVE b[r] \in Int /\ d[r] \in Int /\ b[r] <= d[r]
  <2> DEFINE q == ThresholdOf(o, r)
             f == FromPercent(q)
             v == ValueOf(FromNum(o.deposits[r]), rs, r)
  <2>1. q \in 0..100 BY ThresholdPercent
  <2>2. b[r] = FMul(v, f) /\ d[r] = v /\ b[r] \in Nat /\ d[r] \in Nat
    BY TermsType DEF BackedTerms, DepositTerms, Thresholds
  <2>3. v \in Nat BY <2>2
  <2> HIDE DEF q, v, b, d
  <2>4. f \in Nat /\ f <= One BY <2>1, PercentBelow
  <2> HIDE DEF f
  <2>5. FMul(v, f) <= v BY <2>3, <2>4, FMulBelow
  <2> QED BY <2>2, <2>5
<1> HIDE DEF b, d
<1>3. IsFiniteSet(Reserves) BY PositionAssumption
<1>4. SumFunctionOnSet(b, Reserves) <= SumFunctionOnSet(d, Reserves) BY <1>2, <1>3, SumMonotone
<1> QED BY <1>1, <1>4

\* The debt is within what may be borrowed, but for the roundings of a new debt.
WithinLimit(o, rs) ==
  \E r \in Reserves :
    HealthOf(o, rs).debt <= BackedBy(o, rs, Ltvs(o)) + BorrowFactor[r] \div 100 + 2

\* The limit for borrowing is not above the one for liquidations.
LEMMA LimitCovers ==
  ASSUME NEW o \in ObligationRecords, NEW rs \in [Reserves -> ReserveRecords],
         WithinLimit(o, rs)
  PROVE  IsCovered(HealthOf(o, rs))
<1> DEFINE h == HealthOf(o, rs)
           limit == BackedBy(o, rs, Ltvs(o))
<1>1. PICK r \in Reserves : h.debt <= limit + BorrowFactor[r] \div 100 + 2 BY DEF WithinLimit
<1>2. limit \in Nat /\ limit <= h.unhealthy BY LimitSum, LimitBelow
<1>3. h.debt \in Nat /\ h.deposited \in Nat /\ h.unhealthy \in Nat BY HealthSums
<1>4. BorrowFactor[r] \div 100 \in Int
  <2>1. BorrowFactor[r] \in Nat BY PositionAssumption
  <2> QED BY <2>1
<1> HIDE DEF h, limit
<1>5. h.debt <= h.unhealthy + BorrowFactor[r] \div 100 + 2 BY <1>1, <1>2, <1>3, <1>4
<1>6. IsCovered(h) BY <1>3, <1>5, CoveredWhen
<1> QED BY <1>6 DEF h

\* What cannot be liquidated is worth less than its limit for liquidations.
LEMMA SoundCovers ==
  ASSUME NEW o \in ObligationRecords, NEW rs \in [Reserves -> ReserveRecords],
         NEW r \in Reserves, IsSound(o, rs)
  PROVE  IsCovered(HealthOf(o, rs))
<1> DEFINE h == HealthOf(o, rs)
<1>1. h.debt \in Nat /\ h.deposited \in Nat /\ h.unhealthy \in Nat BY HealthSums
<1>2. h.debt > 0 => h.deposited > 0 /\ ~IsUnhealthy(h) BY DEF IsSound
<1> HIDE DEF h
<1>3. h.debt <= h.unhealthy
  <2>1. CASE h.debt = 0 BY <1>1, <2>1
  <2>2. CASE h.debt # 0
    <3>1. h.deposited \in Nat \ {0} /\ h.unhealthy \in Int BY <1>1, <1>2, <2>2
    <3>2. ~(Ltv(h.debt, h.deposited) >= Ltv(h.unhealthy, h.deposited))
      BY <1>1, <1>2, <2>2 DEF IsUnhealthy, LoanToValueOf, UnhealthyLtv
    <3>3. Ltv(h.debt, h.deposited) \in Int /\ Ltv(h.unhealthy, h.deposited) \in Int
      <4>1. h.debt \in Int BY <1>1
      <4> QED BY <3>1, <4>1, FDivType DEF Ltv
    <3>4. Ltv(h.debt, h.deposited) < Ltv(h.unhealthy, h.deposited) BY <3>2, <3>3
    <3>5. h.debt < h.unhealthy BY <1>1, <3>1, <3>4, LtvBelow
    <3> QED BY <1>1, <3>5
  <2> QED BY <2>1, <2>2
<1>4. IsCovered(h) BY <1>1, <1>3, CoveredWhen
<1> QED BY <1>4 DEF h

\* The roundings of the debt, and those of the two loan to values, are in the margin.
LEMMA MarginIsSound ==
  ASSUME NEW o \in ObligationRecords, NEW rs \in [Reserves -> ReserveRecords],
         WithinLimit(o, rs), HasMargin(o, rs)
  PROVE  IsSound(o, rs)
<1> DEFINE h == HealthOf(o, rs)
           limit == BackedBy(o, rs, Ltvs(o))
           b(r) == BorrowFactor[r] \div 100
           q == h.deposited \div One
<1>1. PICK r \in Reserves : h.debt <= limit + b(r) + 2 BY DEF WithinLimit
<1>2. limit + q + b(r) + 3 <= h.unhealthy BY DEF HasMargin, Ltvs
<1>3. limit \in Nat BY LimitSum
<1>4. h.debt \in Nat /\ h.deposited \in Nat /\ h.unhealthy \in Nat BY HealthSums
<1>5. h.unhealthy <= h.deposited BY LimitWithinDeposits
<1>6. b(r) \in Nat
  <2>1. BorrowFactor[r] \in Nat BY PositionAssumption
  <2> QED BY <2>1
<1>7. q \in Nat
  <2> HIDE DEF h
  <2> QED BY <1>4, OneAssumption, Quotient
<1>8. h.debt + q + 1 <= h.unhealthy /\ h.deposited \in Nat \ {0}
  <2> HIDE DEF h, limit, b, q
  <2> QED BY <1>1, <1>2, <1>3, <1>4, <1>5, <1>6, <1>7
<1>9. ~IsUnhealthy(h)
  <2>1. h.debt + h.deposited \div One + 1 <= h.unhealthy BY <1>8
  <2> HIDE DEF h
  <2>2. Ltv(h.debt, h.deposited) < Ltv(h.unhealthy, h.deposited) BY <1>4, <1>8, <2>1, LtvApart
  <2>3. Ltv(h.debt, h.deposited) \in Int /\ Ltv(h.unhealthy, h.deposited) \in Int
    <3>1. h.debt \in Int /\ h.unhealthy \in Int BY <1>4
    <3> QED BY <1>8, <3>1, FDivType DEF Ltv
  <2> QED BY <2>2, <2>3 DEF IsUnhealthy, LoanToValueOf, UnhealthyLtv
<1> QED BY <1>8, <1>9 DEF IsSound

LEMMA NewWithinLimit ==
  ASSUME NEW us \in [Reserves -> ReserveRecords], NEW r \in Reserves
  PROVE  WithinLimit(NewObligation, us) /\ IsSound(NewObligation, us)
<1> DEFINE h == HealthOf(NewObligation, us)
           w == DebtTerms(NewObligation, us)
           limit == BackedBy(NewObligation, us, Ltvs(NewObligation))
<1>1. NewObligation \in ObligationRecords BY NewObligationFacts DEF SoundRecord, Coherent
<1>2. h.debt = SumFunctionOnSet(w, Reserves) BY <1>1, HealthSums
<1>3. \A x \in Reserves : w[x] = 0 BY <1>1, NewObligationFacts, TermsType
<1>4. limit \in Nat BY <1>1, LimitSum
<1>5. BorrowFactor[r] \div 100 \in Nat
  <2>1. BorrowFactor[r] \in Nat BY PositionAssumption
  <2> QED BY <2>1
<1> HIDE DEF h, w, limit
<1>6. SumFunctionOnSet(w, Reserves) = 0 BY <1>3, PositionAssumption, SumZero
<1>7. h.debt = 0 /\ h.debt <= limit + BorrowFactor[r] \div 100 + 2 BY <1>2, <1>4, <1>5, <1>6
<1> QED BY <1>7 DEF WithinLimit, IsSound, h, limit

\* A loan within what the refresh allowed.
LEMMA LoanWithin ==
  ASSUME NEW o \in ObligationRecords, NEW rs \in [Reserves -> ReserveRecords],
         NEW us \in [Reserves -> ReserveRecords], \A x \in Reserves : us[x].price = rs[x].price,
         NEW r \in Reserves, NEW amount \in Nat,
         Weighted(o, r, ValueOf(amount, rs, r)) <= HealthOf(o, rs).allowed - HealthOf(o, rs).debt
  PROVE  WithinLimit(Borrowed(o, r, amount), us)
<1> DEFINE u == [o EXCEPT !.debts[r] = @ + amount, !.hasDebt = TRUE]
           t == MarkedStale(u)
           h == HealthOf(o, rs)
           k == HealthOf(u, rs)
           limit == BackedBy(o, rs, Ltvs(o))
           F == FactorOf(o, r)
           x == ValueOf(o.debts[r], rs, r)
           y == ValueOf(amount, rs, r)
           z == ValueOf(o.debts[r] + amount, rs, r)
           f == FromPercent(F)
<1>1. Borrowed(o, r, amount) = t BY DEF Borrowed
<1>2. /\ rs[r].price \in Nat /\ o.debts[r] \in Nat /\ o.debts[r] + amount \in Nat
      /\ F \in Nat
  BY PercentsType DEF ReserveRecords, ObligationRecords
<1>3. f \in Nat BY <1>2, Conversions
<1>4. /\ u \in ObligationRecords /\ u.debts[r] = o.debts[r] + amount
      /\ u.deposits = o.deposits /\ u.group = o.group
      /\ \A s \in Reserves \ {r} : u.debts[s] = o.debts[s]
  <2> DEFINE m == [o EXCEPT !.debts[r] = @ + amount]
  <2>1. m \in ObligationRecords BY <1>2, PositionsSet
  <2>2. u = [m EXCEPT !.hasDebt = TRUE] OBVIOUS
  <2>3. /\ m.debts[r] = o.debts[r] + amount /\ m.deposits = o.deposits /\ m.group = o.group
        /\ \A s \in Reserves \ {r} : m.debts[s] = o.debts[s]
    BY DEF ObligationRecords
  <2> HIDE DEF m, u
  <2> QED BY <2>1, <2>2, <2>3 DEF ObligationRecords
<1>5. HealthOf(t, us) = k /\ BackedBy(t, us, Ltvs(t)) = limit
  <2>1. t.group = u.group /\ t.deposits = u.deposits /\ t.debts = u.debts
    BY <1>4 DEF MarkedStale, ObligationRecords
  <2>2. t.group = o.group /\ t.deposits = o.deposits BY <1>4, <2>1
  <2> HIDE DEF t, u
  <2>3. HealthOf(t, us) = HealthOf(u, rs) BY <2>1, HealthSame
  <2>4. BackedBy(t, us, Ltvs(t)) = BackedBy(o, rs, Ltvs(o)) BY <2>2, LimitSame
  <2> QED BY <2>3, <2>4
<1> HIDE DEF u, t
<1>6. h.debt = SumFunctionOnSet(DebtTerms(o, rs), Reserves) /\ h.debt \in Nat BY HealthSums
<1>7. k.debt = SumFunctionOnSet(DebtTerms(u, rs), Reserves) /\ k.debt \in Nat
  BY <1>4, HealthSums
<1>8. limit \in Nat BY LimitSum
<1>9. h.allowed <= limit /\ h.allowed \in Nat
  <2>1. HealthOf(o, rs) \in Health BY HealthType
  <2>2. h.allowed = Smaller(limit, GlobalAllowed) BY HealthParts
  <2>3. GlobalAllowed \in Nat BY PositionAssumption
  <2>4. h.allowed \in Nat BY <2>1 DEF Health
  <2> HIDE DEF h, limit
  <2> QED BY <1>8, <2>2, <2>3, <2>4 DEF Smaller
<1>10. x \in Nat /\ y \in Nat /\ z \in Nat BY <1>2, ValueType
<1>11. z <= x + y + 1 BY <1>2, FMulParts DEF ValueOf
<1>12. /\ DebtTerms(o, rs)[r] = FMul(x, f) /\ DebtTerms(u, rs)[r] = FMul(z, f)
       /\ \A s \in Reserves \ {r} : DebtTerms(u, rs)[s] = DebtTerms(o, rs)[s]
  BY <1>4 DEF DebtTerms, Weighted, FactorOf, InGroup
<1>13. FMul(y, f) <= h.allowed - h.debt BY DEF Weighted
<1>14. BorrowFactor[r] \in Nat /\ F <= BorrowFactor[r]
  <2>1. BorrowFactor[r] \in Nat /\ BorrowFactor[r] >= 100 BY PositionAssumption
  <2> QED BY <2>1 DEF FactorOf
<1> HIDE DEF x, y, z, F, limit
<1>15. FMul(z, f) <= FMul(x + y + 1, f)
  <2>1. x + y + 1 \in Nat BY <1>10
  <2> QED BY <1>3, <1>10, <1>11, <2>1, FMulMonotone
<1>16. FMul(x + y + 1, f) <= FMul(x, f) + FMul(y, f) + F \div 100 + 2
  BY <1>2, <1>10, WeightParts
<1>17. k.debt = h.debt - FMul(x, f) + FMul(z, f)
  <2> DEFINE a == DebtTerms(o, rs)
             b == DebtTerms(u, rs)
  <2>1. \A s \in Reserves : a[s] \in Int /\ b[s] \in Int BY <1>4, TermsType
  <2>2. \A s \in Reserves \ {r} : a[s] = b[s] BY <1>12
  <2>3. k.debt = SumFunctionOnSet(b, Reserves) /\ h.debt = SumFunctionOnSet(a, Reserves)
    BY <1>6, <1>7
  <2>4. a[r] = FMul(x, f) /\ b[r] = FMul(z, f) BY <1>12
  <2> HIDE DEF a, b
  <2>5. IsFiniteSet(Reserves) BY PositionAssumption
  <2>6. SumFunctionOnSet(b, Reserves) = SumFunctionOnSet(a, Reserves) - a[r] + b[r]
    BY <2>1, <2>2, <2>5, SumUpdate
  <2> QED BY <2>3, <2>4, <2>6
<1> HIDE DEF h, k, f
<1>18. /\ FMul(x, f) \in Int /\ FMul(y, f) \in Int /\ FMul(z, f) \in Int
       /\ FMul(x + y + 1, f) \in Int
  <2>1. x \in Int /\ y \in Int /\ z \in Int /\ x + y + 1 \in Int /\ f \in Int
    BY <1>3, <1>10
  <2> QED BY <2>1, FMulType
<1>19. F \div 100 <= BorrowFactor[r] \div 100
  <2> DEFINE q == F \div 100
             B == BorrowFactor[r]
  <2>1. q \in Int /\ 100 * q <= F BY <1>2, QuotientBounds DEF F
  <2>2. B \in Int /\ F <= B /\ F \in Int BY <1>2, <1>14 DEF F
  <2> HIDE DEF q, B
  <2>3. 100 * q <= B BY <2>1, <2>2
  <2>4. q <= B \div 100 BY <2>1, <2>2, <2>3, QuotientLeast
  <2> QED BY <2>4 DEF q, B
<1>20. F \div 100 \in Int /\ BorrowFactor[r] \div 100 \in Int
  BY <1>2, <1>14, QuotientBounds DEF F
<1>21. k.debt <= limit + BorrowFactor[r] \div 100 + 2
  <2> DEFINE b == BorrowFactor[r] \div 100
             q == F \div 100
             i == FMul(x, f)
             j == FMul(y, f)
             l == FMul(z, f)
             m == FMul(x + y + 1, f)
  <2>1. /\ b \in Int /\ q \in Int /\ q <= b /\ i \in Int /\ j \in Int /\ l \in Int /\ m \in Int
        /\ l <= m /\ m <= i + j + q + 2 /\ j <= h.allowed - h.debt /\ k.debt = h.debt - i + l
    BY <1>13, <1>15, <1>16, <1>17, <1>18, <1>19, <1>20
  <2> HIDE DEF b, q, i, j, l, m
  <2>2. k.debt <= limit + b + 2 BY <1>6, <1>7, <1>8, <1>9, <2>1
  <2> QED BY <2>2 DEF b
<1> QED BY <1>1, <1>5, <1>21 DEF WithinLimit

\* What the withdrawn collateral backed is within what was left to borrow.
LEMMA TakenWithin ==
  ASSUME NEW o \in ObligationRecords, NEW rs \in [Reserves -> ReserveRecords],
         NEW r \in Reserves, NEW m \in Nat, o.health = HealthOf(o, rs), Borrows(o) # {},
         CanWithdraw(o, rs, r, m, "maxLtv")
  PROVE  FMul(WithdrawAmount(o, r, m, "maxLtv") * rs[r].price, FromPercent(LtvOf(o, r)))
           <= o.health.allowed - o.health.debt
<1> DEFINE n == WithdrawAmount(o, r, m, "maxLtv")
           p == rs[r].price
           D == o.deposits[r]
           V == o.health.values[r]
           q == LtvOf(o, r)
           spare == o.health.allowed - o.health.debt
           most == MaxWithdrawValue(o, r, "maxLtv")
<1>1. /\ p \in Nat /\ D \in Nat \ {0} /\ q \in Nat
      /\ V = D * p /\ V \in Nat
  <2>1. p \in Nat /\ D \in Nat /\ q \in Nat BY PercentsType DEF ReserveRecords, ObligationRecords
  <2>2. D > 0 BY DEF CanWithdraw, Deposits
  <2>3. V = ValueOf(FromNum(D), rs, r) BY DEF HealthOf
  <2>4. V = D * p BY <2>1, <2>3, FromNumExact DEF ValueOf
  <2>5. D * p \in Nat
    <3> HIDE DEF D, p
    <3> QED BY <2>1, Z3
  <2> QED BY <2>1, <2>2, <2>4, <2>5
<1>2. o.health.allowed \in Nat /\ o.health.debt \in Nat BY HealthFields
<1>3. n \in Nat /\ n <= D BY WithdrawType
<1>4. MayWithdraw(o, r, m, "maxLtv") BY DEF CanWithdraw
<1>5. /\ o.health.allowed > o.health.debt
      /\ most = IF q = 0 THEN V ELSE (spare * 100) \div q
  <2>1. most # 0 BY <1>4 DEF MayWithdraw
  <2>2. most = IF o.health.allowed <= o.health.debt THEN 0
               ELSE IF q = 0 THEN V ELSE (spare * 100) \div q
    BY DEF MaxWithdrawValue
  <2> HIDE DEF most, q, V, spare
  <2>3. ~(o.health.allowed <= o.health.debt) BY <2>1, <2>2
  <2> QED BY <1>2, <2>2, <2>3
<1>6. spare \in Nat BY <1>2, <1>5
<1>7. most \in Nat
  <2> HIDE DEF most, q, V, spare
  <2>1. q # 0 => (spare * 100) \div q \in Nat
    <3>1. spare * 100 \in Nat BY <1>6
    <3> QED BY <1>1, <3>1, Quotient
  <2> QED BY <1>1, <1>5, <2>1
<1>8. n * p <= most
  <2>1. CASE m = MaxU64
    <3> DEFINE v == Smaller(most, V)
    <3>1. V # 0 BY <1>4, <2>1 DEF MayWithdraw
    <3>2. n = Smaller(D, ToFloor(FDiv(v, V) * D)) BY <2>1 DEF WithdrawAmount
    <3>3. v \in Nat /\ v <= most BY <1>1, <1>7 DEF Smaller
    <3> HIDE DEF n, v, V, D, p, most
    <3> DEFINE g == ToFloor(FDiv(v, V) * D)
    <3>4. D * p # 0 BY <1>1, <3>1
    <3>5. g * p <= v BY <1>1, <3>3, <3>4, PartRoundedDown
    <3>6. g \in Int
      <4>1. FDiv(v, V) \in Int
        <5>1. V \in Nat \ {0} /\ v \in Int BY <1>1, <3>1, <3>3
        <5> QED BY <5>1, FDivType
      <4>2. FDiv(v, V) * D \in Int BY <1>1, <4>1
      <4> QED BY <4>2, Conversions
    <3> HIDE DEF g
    <3>7. n <= g BY <1>1, <1>3, <3>2, <3>6 DEF Smaller, g
    <3>8. n * p <= g * p BY <1>1, <1>3, <3>6, <3>7, Z3
    <3>9. n * p \in Int /\ g * p \in Int BY <1>1, <1>3, <3>6
    <3> QED BY <1>7, <3>3, <3>5, <3>8, <3>9
  <2>2. CASE m # MaxU64
    <3> DEFINE v == FMul(V, MulDivCeil(FromNum(n), One, FromNum(D)))
    <3>1. n = Smaller(m, D) BY <2>2 DEF WithdrawAmount
    <3>2. v <= most BY <1>4, <2>2, <3>1 DEF MayWithdraw
    <3> HIDE DEF n, V, D, p, most
    <3>3. n * p <= v BY <1>1, <1>3, PartRoundedUp
    <3>4. v \in Int
      <4> DEFINE a == FromNum(n) * One + FromNum(D) - 1
                 d == FromNum(D)
      <4>1. a \in Int /\ d \in Nat \ {0}
        <5>1. One \in Nat \ {0} BY OneAssumption
        <5>2. FromNum(n) \in Int /\ FromNum(D) \in Nat \ {0} BY <1>1, <1>3, <5>1, Z3 DEF FromNum
        <5> HIDE DEF D
        <5> QED BY <5>1, <5>2
      <4>2. MulDivCeil(FromNum(n), One, FromNum(D)) = a \div d BY DEF MulDivCeil
      <4> HIDE DEF a, d
      <4>3. a \div d \in Int BY <4>1, QuotientBounds
      <4>4. V \in Int BY <1>1
      <4> QED BY <4>2, <4>3, <4>4, FMulType
    <3> HIDE DEF v
    <3>5. n * p \in Int BY <1>1, <1>3
    <3> QED BY <1>7, <3>2, <3>3, <3>4, <3>5
  <2> QED BY <2>1, <2>2
<1> HIDE DEF n, p, V, D, q, most, spare
<1>9. n * p \in Nat BY <1>1, <1>3, Z3
<1>10. CASE q = 0
  <2>1. FromPercent(q) = 0
    <3>1. 0 * One = 0 /\ 0 \div 100 = 0 BY OneAssumption
    <3> QED BY <1>10, <3>1 DEF FromPercent
  <2> DEFINE x == n * p
  <2>2. x \in Nat BY <1>9
  <2> HIDE DEF x
  <2>3. x * 0 = 0 /\ 0 \div One = 0 BY <2>2, OneAssumption
  <2>4. FMul(x, FromPercent(q)) = 0 BY <2>1, <2>3 DEF FMul
  <2> QED BY <1>6, <2>4 DEF x, n, p, q, spare
<1>11. CASE q # 0
  <2> DEFINE x == n * p
  <2>1. x \in Nat /\ q \in Nat \ {0} /\ x <= (spare * 100) \div q BY <1>1, <1>5, <1>8, <1>9, <1>11
  <2> HIDE DEF x
  <2>2. FMul(x, FromPercent(q)) <= spare BY <1>6, <2>1, BacksAtMost
  <2> QED BY <2>2 DEF x, n, p, q, spare
<1> QED BY <1>10, <1>11

\* A withdrawal, of which the code only values what is taken.
LEMMA WithdrawWithin ==
  ASSUME NEW o \in ObligationRecords, NEW rs \in [Reserves -> ReserveRecords],
         NEW us \in [Reserves -> ReserveRecords], \A x \in Reserves : us[x].price = rs[x].price,
         NEW r \in Reserves, NEW m \in Nat, o.health = HealthOf(o, rs),
         CanWithdraw(o, rs, r, m, "maxLtv")
  PROVE  WithinLimit(Withdrawn(o, r, WithdrawAmount(o, r, m, "maxLtv")), us)
<1> DEFINE n == WithdrawAmount(o, r, m, "maxLtv")
           u == [o EXCEPT !.deposits[r] = @ - n]
           t == MarkedStale(u)
           h == HealthOf(o, rs)
           k == HealthOf(u, rs)
           limit == BackedBy(o, rs, Ltvs(o))
           left == BackedBy(u, rs, Ltvs(u))
           value == n * rs[r].price
           pct == FromPercent(LtvOf(o, r))
           backed == FMul(value, pct)
<1>0. n \in Nat /\ n <= o.deposits[r] BY WithdrawType
<1>b. BorrowFactor[r] \div 100 \in Nat
  <2>1. BorrowFactor[r] \in Nat BY PositionAssumption
  <2> QED BY <2>1
<1>1. CASE Withdrawn(o, r, n) = NewObligation BY <1>1, NewWithinLimit
<1>2. CASE Withdrawn(o, r, n) # NewObligation
  <2>t. Borrows(o) # {} => backed <= h.allowed - h.debt BY TakenWithin
  <2> HIDE DEF n
  <2>1. Withdrawn(o, r, n) = t BY <1>2 DEF Withdrawn, Closed
  <2>2. /\ rs[r].price \in Nat /\ o.deposits[r] \in Nat /\ o.deposits[r] - n \in Nat
        /\ LtvOf(o, r) \in Nat
    BY <1>0, PercentsType DEF ReserveRecords, ObligationRecords
  <2>3. pct \in Nat BY <2>2, Conversions
  <2>4. /\ u \in ObligationRecords /\ u.deposits[r] = o.deposits[r] - n
        /\ u.debts = o.debts /\ u.group = o.group
        /\ \A x \in Reserves \ {r} : u.deposits[x] = o.deposits[x]
    <3>1. u \in ObligationRecords BY <2>2, PositionsSet
    <3> QED BY <3>1 DEF ObligationRecords
  <2>5. HealthOf(t, us) = k /\ BackedBy(t, us, Ltvs(t)) = left
    <3>1. t.group = u.group /\ t.deposits = u.deposits /\ t.debts = u.debts
      BY <2>4 DEF MarkedStale, ObligationRecords
    <3> HIDE DEF t, u
    <3>2. HealthOf(t, us) = HealthOf(u, rs) BY <3>1, HealthSame
    <3>3. BackedBy(t, us, Ltvs(t)) = BackedBy(u, rs, Ltvs(u)) BY <3>1, LimitSame
    <3> QED BY <3>2, <3>3
  <2> HIDE DEF u, t
  <2>6. h.debt = SumFunctionOnSet(DebtTerms(o, rs), Reserves) /\ h.debt \in Nat BY HealthSums
  <2>7. k.debt = SumFunctionOnSet(DebtTerms(u, rs), Reserves) /\ k.debt \in Nat
    BY <2>4, HealthSums
  <2>8. k.debt = h.debt
    <3>1. DebtTerms(u, rs) = DebtTerms(o, rs)
      BY <2>4 DEF DebtTerms, Weighted, FactorOf, InGroup
    <3> QED BY <2>6, <2>7, <3>1
  <2>9. /\ limit = SumFunctionOnSet(BackedTerms(o, rs, Ltvs(o)), Reserves) /\ limit \in Nat
        /\ left = SumFunctionOnSet(BackedTerms(u, rs, Ltvs(u)), Reserves) /\ left \in Nat
    BY <2>4, LimitSum
  <2>10. h.allowed <= limit /\ h.allowed \in Nat
    <3>1. HealthOf(o, rs) \in Health BY HealthType
    <3>2. h.allowed = Smaller(limit, GlobalAllowed) BY HealthParts
    <3>3. GlobalAllowed \in Nat BY PositionAssumption
    <3>4. h.allowed \in Nat BY <3>1 DEF Health
    <3> HIDE DEF h, limit
    <3> QED BY <2>9, <3>2, <3>3, <3>4 DEF Smaller
  <2> DEFINE rest == (o.deposits[r] - n) * rs[r].price
  <2>11. /\ value \in Nat /\ rest \in Nat
         /\ ValueOf(FromNum(o.deposits[r]), rs, r) = rest + value
         /\ ValueOf(FromNum(u.deposits[r]), rs, r) = rest
    <3> DEFINE a == o.deposits[r] - n
               p == rs[r].price
               D == o.deposits[r]
    <3>1. D = a + n /\ a \in Nat /\ p \in Nat /\ n \in Nat /\ D \in Nat BY <1>0, <2>2
    <3>2. /\ ValueOf(FromNum(o.deposits[r]), rs, r) = D * p
          /\ ValueOf(FromNum(u.deposits[r]), rs, r) = a * p
      BY <2>4, <3>1, FromNumExact DEF ValueOf
    <3>3. value = n * p /\ rest = a * p OBVIOUS
    <3> HIDE DEF a, p, D, value, rest
    <3>4. (a + n) * p = a * p + n * p /\ a * p \in Nat /\ n * p \in Nat BY <3>1, Z3
    <3> QED BY <3>1, <3>2, <3>3, <3>4
  <2> HIDE DEF rest, value
  <2>12. limit <= left + backed + 1
    <3> DEFINE f == BackedTerms(o, rs, Ltvs(o))
               g == BackedTerms(u, rs, Ltvs(u))
    <3>1. \A x \in Reserves : f[x] \in Int /\ g[x] \in Int BY <2>4, TermsType
    <3>2. Ltvs(u) = Ltvs(o) BY <2>4 DEF Ltvs, LtvOf, InGroup
    <3>3. \A x \in Reserves \ {r} : f[x] = g[x] BY <2>4, <3>2 DEF BackedTerms
    <3>4. f[r] = FMul(rest + value, pct) /\ g[r] = FMul(rest, pct)
      <4>1. LtvOf(u, r) = LtvOf(o, r) BY <2>4 DEF LtvOf, InGroup
      <4>2. /\ f[r] = FMul(ValueOf(FromNum(o.deposits[r]), rs, r), pct)
            /\ g[r] = FMul(ValueOf(FromNum(u.deposits[r]), rs, r), pct)
        BY <4>1 DEF BackedTerms, Ltvs
      <4> QED BY <2>11, <4>2
    <3>5. limit = SumFunctionOnSet(f, Reserves) /\ left = SumFunctionOnSet(g, Reserves)
      BY <2>9
    <3> HIDE DEF f, g, pct
    <3>f. IsFiniteSet(Reserves) BY PositionAssumption
    <3>6. SumFunctionOnSet(g, Reserves) = SumFunctionOnSet(f, Reserves) - f[r] + g[r]
      BY <3>1, <3>3, <3>f, SumUpdate
    <3>7. FMul(rest + value, pct) <= FMul(rest, pct) + backed + 1
      BY <2>3, <2>11, FMulParts
    <3>8. backed \in Int
      <4>1. value \in Int /\ pct \in Int BY <2>3, <2>11
      <4> QED BY <4>1, FMulType
    <3>9. f[r] \in Int /\ g[r] \in Int BY <3>1
    <3> HIDE DEF limit, left, backed
    <3> QED BY <2>9, <3>4, <3>5, <3>6, <3>7, <3>8, <3>9
  <2>13. backed \in Int
    <3>1. value \in Int /\ pct \in Int BY <2>3, <2>11
    <3> HIDE DEF pct
    <3> QED BY <3>1, FMulType
  <2>14. k.debt <= left + BorrowFactor[r] \div 100 + 2
    <3>1. CASE Borrows(o) # {}
      <4> HIDE DEF k, h, left, limit, backed
      <4> QED BY <1>b, <2>t, <2>6, <2>7, <2>8, <2>9, <2>10, <2>12, <2>13, <3>1
    <3>2. CASE Borrows(o) = {}
      <4>1. \A x \in Reserves : DebtTerms(o, rs)[x] = 0
        <5>1. \A x \in Reserves : o.debts[x] = 0 BY <3>2 DEF Borrows, ObligationRecords
        <5> QED BY <5>1, TermsType
      <4> DEFINE w == DebtTerms(o, rs)
      <4> HIDE DEF w
      <4>2. \A x \in Reserves : w[x] = 0 BY <4>1 DEF w
      <4>3. SumFunctionOnSet(w, Reserves) = 0 BY <4>2, PositionAssumption, SumZero
      <4>4. h.debt = 0 BY <2>6, <4>3 DEF w
      <4> HIDE DEF k, h, left
      <4> QED BY <1>b, <2>7, <2>8, <2>9, <4>4
    <3> QED BY <3>1, <3>2
  <2> QED BY <2>1, <2>5, <2>14 DEF WithinLimit, n
<1> QED BY <1>1, <1>2

\* The withdrawal that ends a combined handler is enforced on the values it leaves.
LEMMA WithinSound ==
  ASSUME NEW o, SoundRecord(o), NEW rs \in [Reserves -> ReserveRecords],
         NEW us \in [Reserves -> ReserveRecords], \A x \in Reserves : us[x].price = rs[x].price,
         NEW w \in Reserves, NEW m \in Nat, NEW ltv,
         CanWithdrawWithin(o, rs, w, m, ltv)
  PROVE  IsSound(WithdrawnWithin(o, rs, w, m), us)
<1> DEFINE n == WithdrawAmount(o, w, m, "liquidationThreshold")
           left == Withdrawn(o, w, n)
           after == Refreshed(left, rs)
           t == WithdrawnWithin(o, rs, w, m)
           h == HealthOf(left, rs)
<1>1. n \in Nat /\ n <= o.deposits[w]
  <2>1. o \in ObligationRecords BY DEF SoundRecord, Coherent
  <2>2. CanWithdraw(o, rs, w, m, "liquidationThreshold") BY DEF CanWithdrawWithin
  <2> QED BY <2>1, <2>2, WithdrawType
<1>2. left # NewObligation => Enforced(after, w, ltv) BY DEF CanWithdrawWithin
<1>3. t = IF left = NewObligation THEN left ELSE MarkedStale(after)
  BY DEF WithdrawnWithin
<1> HIDE DEF n, t
<1>4. SoundRecord(left) BY <1>1, WithdrawFacts
<1> HIDE DEF left
<1>5. CASE left = NewObligation BY <1>3, <1>5, NewWithinLimit DEF t
<1>6. CASE left # NewObligation
  <2>1. left \in ObligationRecords BY <1>4 DEF SoundRecord, Coherent
  <2>2. after.health = h BY <2>1 DEF Refreshed, ObligationRecords
  <2>3. t.group = left.group /\ t.deposits = left.deposits /\ t.debts = left.debts
    BY <1>3, <1>6, <2>1 DEF MarkedStale, Refreshed, ObligationRecords
  <2>4. HealthOf(t, us) = h BY <2>3, HealthSame
  <2>5. h.debt \in Nat /\ h.deposited \in Nat /\ h.unhealthy \in Nat BY <2>1, HealthSums
  <2>6. IF h.deposited = 0 THEN h.debt = 0 ELSE LoanToValueOf(h) < UnhealthyLtv(h)
    BY <1>2, <1>6, <2>2 DEF Enforced
  <2> HIDE DEF h
  <2>7. h.debt > 0 => h.deposited > 0 /\ ~IsUnhealthy(h)
    <3>1. CASE h.deposited = 0 BY <2>5, <2>6, <3>1
    <3>2. CASE h.deposited # 0
      <4>1. h.deposited \in Nat \ {0} /\ h.debt \in Int /\ h.unhealthy \in Int BY <2>5, <3>2
      <4>2. LoanToValueOf(h) < UnhealthyLtv(h) BY <2>6, <3>2
      <4>3. LoanToValueOf(h) \in Int /\ UnhealthyLtv(h) \in Int
        BY <4>1, FDivType DEF LoanToValueOf, UnhealthyLtv, Ltv
      <4> QED BY <4>1, <4>2, <4>3 DEF IsUnhealthy
    <3> QED BY <3>1, <3>2
  <2> QED BY <2>4, <2>7 DEF IsSound, t
<1> QED BY <1>5, <1>6

-------------------------------------------------------------------------------
(* The inductive invariant                                                    *)

\* A price that passes any check is one that was reported, and recent as long as the
\* reserve is fresh; a deprecated reserve is not.
ReservesInv ==
  /\ reserves \in [Reserves -> ReserveRecords]
  /\ priceAge \in [Reserves -> Int]
  /\ \A r \in Reserves :
       /\ reserves[r].level # NoChecks => reserves[r].price > 0
       /\ ~reserves[r].usable => ~reserves[r].fresh
       /\ IsFresh(reserves[r], LiquidationChecks) => priceAge[r] <= MaxPriceAge[r]

IInv ==
  /\ SoundRecord(obligation)
  /\ FreshMeansValued
  /\ ReservesInv
  /\ owed \in Nat
  /\ pricesSeen \in [Reserves -> Nat]

\* What a deprecated reserve holds and is owed stays as it is.
Frozen ==
  \A r \in Reserves : ~reserves[r].usable =>
    /\ obligation'.deposits[r] = obligation.deposits[r]
    /\ obligation'.debts[r] = obligation.debts[r]

LEMMA FrozenWhenOnly ==
  ASSUME NEW D, NEW B, Only(obligation, obligation', D, B),
         \A r \in D \cup B : reserves[r].usable
  PROVE  Frozen
BY DEF Only, Frozen

LEMMA PricesType ==
  ASSUME ReservesInv
  PROVE  Prices \in [Reserves -> Nat]
BY DEF ReservesInv, Prices, ReserveRecords

LEMMA InvInit == Init => IInv
<1> SUFFICES ASSUME Init PROVE IInv OBVIOUS
<1>1. SoundRecord(obligation) BY NewObligationFacts DEF Init
<1>2. MaxAge \in Nat BY LendingAssumption
<1>3. reserves \in [Reserves -> ReserveRecords]
  BY DEF Init, ReserveRecords, PriceLevels
<1>4. \A r \in Reserves : reserves[r].level = NoChecks /\ reserves[r].usable /\ ~reserves[r].fresh
  BY DEF Init
<1>5. priceAge \in [Reserves -> Int] BY <1>2 DEF Init
<1>6. ReservesInv BY <1>3, <1>4, <1>5 DEF ReservesInv, IsFresh
<1>7. owed \in Nat /\ pricesSeen \in [Reserves -> Nat] BY DEF Init, Zeros
<1>8. FreshMeansValued BY DEF Init, NewObligation, FreshMeansValued
<1> QED BY <1>1, <1>6, <1>7, <1>8 DEF IInv

LEMMA InvImplies ==
  IInv => TypeOK /\ OrdersSupported /\ CheckedPriceIsRecent /\ FreshMeansValued
<1> SUFFICES ASSUME IInv
             PROVE  TypeOK /\ OrdersSupported /\ CheckedPriceIsRecent /\ FreshMeansValued
  OBVIOUS
<1>1. TypeOK BY DEF IInv, TypeOK, SoundRecord, Coherent, ReservesInv
<1>2. OrdersSupported BY DEF IInv, SoundRecord, OrdersHold, OrdersSupported
<1>3. CheckedPriceIsRecent BY DEF IInv, ReservesInv, CheckedPriceIsRecent
<1> QED BY <1>1, <1>2, <1>3 DEF IInv

-------------------------------------------------------------------------------
(* What actions do to the reserves                                            *)

LEMMA StaleStep ==
  ASSUME ReservesInv, NEW S, reserves' = Stale(S), priceAge' = priceAge
  PROVE  ReservesInv'
<1>1. \A r \in Reserves : reserves[r] \in ReserveRecords BY DEF ReservesInv
<1>2. \A r \in Reserves :
        /\ reserves'[r] \in ReserveRecords
        /\ reserves'[r].price = reserves[r].price /\ reserves'[r].level = reserves[r].level
        /\ reserves'[r].usable = reserves[r].usable
        /\ reserves'[r].fresh => reserves[r].fresh
  BY <1>1 DEF Stale, ReserveRecords
<1>3. reserves' \in [Reserves -> ReserveRecords] BY <1>2 DEF Stale
<1> QED BY <1>2, <1>3 DEF ReservesInv, IsFresh

LEMMA DeprecatedStep ==
  ASSUME ReservesInv, NEW d \in Reserves, reserves' = Deprecated(reserves, d),
         priceAge' = priceAge
  PROVE  ReservesInv'
<1>1. \A r \in Reserves : reserves[r] \in ReserveRecords BY DEF ReservesInv
<1>2. reserves \in [Reserves -> ReserveRecords] BY DEF ReservesInv
<1>3. \A r \in Reserves :
        /\ reserves'[r] \in ReserveRecords
        /\ reserves'[r].price = reserves[r].price /\ reserves'[r].level = reserves[r].level
        /\ reserves'[r].fresh => reserves[r].fresh /\ reserves'[r].usable = reserves[r].usable
        /\ reserves'[r].usable = reserves[r].usable \/ ~reserves'[r].fresh
  BY <1>1, <1>2 DEF Deprecated, ReserveRecords
<1>4. reserves' \in [Reserves -> ReserveRecords] BY <1>2, <1>3 DEF Deprecated
<1> QED BY <1>3, <1>4 DEF ReservesInv, IsFresh

LEMMA SameReservesStep ==
  ASSUME ReservesInv, reserves' = reserves, priceAge' = priceAge
  PROVE  ReservesInv'
BY DEF ReservesInv

-------------------------------------------------------------------------------
(* What actions do to the values of the obligation                            *)

PricesKept == [r \in Reserves |-> [price |-> pricesSeen[r]]]

LEMMA ValuedWhenStale ==
  ASSUME ~obligation'.fresh
  PROVE  FreshMeansValued'
BY DEF FreshMeansValued

LEMMA ValuedWhenKept ==
  ASSUME FreshMeansValued, pricesSeen' = pricesSeen,
         obligation'.group = obligation.group, obligation'.fresh = obligation.fresh,
         obligation'.deposits = obligation.deposits, obligation'.debts = obligation.debts,
         obligation'.health = obligation.health
  PROVE  FreshMeansValued'
<1>1. HealthOf(obligation', PricesKept) = HealthOf(obligation, PricesKept)
  <2> DEFINE kept == PricesKept
             keptAfter == PricesKept
             after == obligation'
  <2>1. /\ after.group = obligation.group /\ after.deposits = obligation.deposits
        /\ after.debts = obligation.debts
    OBVIOUS
  <2>2. \A r \in Reserves : keptAfter[r].price = kept[r].price OBVIOUS
  <2> HIDE DEF kept, keptAfter, after
  <2>3. HealthOf(after, keptAfter) = HealthOf(obligation, kept) BY <2>1, <2>2, HealthSame
  <2> QED BY <2>3 DEF kept, keptAfter, after
<1> QED BY <1>1 DEF FreshMeansValued, PricesKept

-------------------------------------------------------------------------------
(* Every action keeps the invariant and leaves deprecated reserves alone      *)

LEMMA NewSlotStep ==
  ASSUME IInv, NEW secs \in Lengths, NEW interest \in Interests, NewSlot(secs, interest)
  PROVE  IInv' /\ Frozen
<1> DEFINE o == MarkedStale(obligation)
<1>1. secs \in Nat /\ interest \in Nat /\ MaxAge \in Nat BY LendingAssumption
<1>2. SoundRecord(obligation) /\ obligation \in ObligationRecords /\ ReservesInv
  BY DEF IInv, SoundRecord, Coherent
<1>3. o \in ObligationRecords /\ Alike(obligation, o) BY <1>2, MarkedFacts
<1>4. obligation' = [o EXCEPT !.called = Aged(@, secs)] BY DEF NewSlot
<1> HIDE DEF o
<1>5. \A age \in Nat \cup {-1} : Aged(age, secs) \in Nat \cup {-1}
  BY <1>1 DEF Aged, Smaller
<1>6. obligation' \in ObligationRecords /\ Alike(obligation, obligation')
  <2>1. o.called \in Nat \cup {-1} BY <1>3 DEF ObligationRecords, NotMarked
  <2>2. Aged(o.called, secs) \in Nat \cup {-1} BY <1>5, <2>1
  <2>3. obligation' \in ObligationRecords
    BY <1>3, <1>4, <2>2 DEF ObligationRecords, NotMarked
  <2>4. Alike(obligation, obligation') BY <1>3, <1>4 DEF Alike, ObligationRecords
  <2> QED BY <2>3, <2>4
<1>7. SoundRecord(obligation') /\ Only(obligation, obligation', {}, {})
  BY <1>2, <1>6, AlikeFacts
<1>8. \A r \in Reserves :
        /\ reserves'[r] \in ReserveRecords /\ ~reserves'[r].fresh
        /\ reserves'[r].price = reserves[r].price /\ reserves'[r].level = reserves[r].level
  <2>1. SUFFICES ASSUME NEW r \in Reserves
        PROVE  /\ reserves'[r] \in ReserveRecords /\ ~reserves'[r].fresh
               /\ reserves'[r].price = reserves[r].price /\ reserves'[r].level = reserves[r].level
    OBVIOUS
  <2>2. reserves[r] \in ReserveRecords BY <1>2 DEF ReservesInv
  <2> DEFINE x == Aged(reserves[r].depositCrossed, secs)
             y == Aged(reserves[r].borrowCrossed, secs)
  <2>3. x \in Nat \cup {-1} /\ y \in Nat \cup {-1}
    <3>1. reserves[r].depositCrossed \in Nat \cup {-1} /\ reserves[r].borrowCrossed \in Nat \cup {-1}
      BY <2>2 DEF ReserveRecords, NotCrossed
    <3> QED BY <1>5, <3>1
  <2>4. reserves'[r] = [reserves[r] EXCEPT !.fresh = FALSE, !.depositCrossed = x,
                                           !.borrowCrossed = y]
    BY DEF NewSlot
  <2> HIDE DEF x, y
  <2> QED BY <2>2, <2>3, <2>4 DEF ReserveRecords, NotCrossed
<1>9. ReservesInv'
  <2>1. reserves' \in [Reserves -> ReserveRecords] BY <1>8 DEF NewSlot
  <2>2. priceAge' \in [Reserves -> Int]
    <3>1. \A r \in Reserves : Smaller(priceAge[r] + secs, MaxAge) \in Int
      BY <1>1, <1>2 DEF ReservesInv, Smaller
    <3> QED BY <3>1 DEF NewSlot
  <2> QED BY <1>2, <1>8, <2>1, <2>2 DEF ReservesInv, IsFresh
<1>10. owed' \in Nat
  <2>1. owed \in Nat BY DEF IInv
  <2>2. owed' = IF Borrows(obligation) = {} THEN 0 ELSE owed + interest BY DEF NewSlot
  <2> QED BY <1>1, <2>1, <2>2
<1>11. pricesSeen' \in [Reserves -> Nat] BY DEF NewSlot, Zeros
<1>12. Frozen BY <1>7, FrozenWhenOnly
<1>13. FreshMeansValued'
  <2>1. ~o.fresh /\ "fresh" \in DOMAIN o
    <3>1. "fresh" \in DOMAIN obligation BY <1>2 DEF ObligationRecords
    <3> QED BY <3>1, MarkedIsStale DEF o
  <2> QED BY <1>4, <2>1, ValuedWhenStale
<1> QED BY <1>7, <1>9, <1>10, <1>11, <1>12, <1>13 DEF IInv

\* The actions on reserves alone.
LEMMA ReservesStep ==
  ASSUME IInv, ReservesInv', UNCHANGED <<obligation, owed, pricesSeen>>
  PROVE  IInv' /\ Frozen
<1>1. FreshMeansValued' BY ValuedWhenKept DEF IInv
<1> QED BY <1>1 DEF IInv, Frozen

\* What is no older than the limit by the program's count is not, with or without the
\* timestamps ahead of the clock.
LEMMA RecentWhenElapsed ==
  ASSUME NEW age \in Int, NEW limit \in Nat
  PROVE  /\ Elapsed(age) <= limit => age <= limit
         /\ Elapsed(age) < limit => age <= limit
BY DEF Elapsed, Larger

LEMMA RefreshWithPriceStep ==
  ASSUME IInv, NEW r \in Reserves, NEW price \in PriceTicks[r], NEW age \in ReportAges[r],
         NEW level \in ReportLevels, RefreshReserveWithPrice(r, price, age, level)
  PROVE  IInv' /\ Frozen
<1>1. ReservesInv BY DEF IInv
<1>2. price \in Nat /\ price > 0 /\ level \in PriceLevels
  BY LendingAssumption
<1>3. age \in Int /\ MaxPriceAge[r] \in Nat BY LendingAssumption
<1>4. reserves \in [Reserves -> ReserveRecords] /\ reserves[r] \in ReserveRecords
  BY <1>1 DEF ReservesInv
<1>5. reserves' = [reserves EXCEPT ![r] =
                     [reserves[r] EXCEPT !.price = price, !.level = level, !.fresh = TRUE]]
  BY <1>4 DEF RefreshReserveWithPrice, ReserveRecords
<1>6. reserves'[r] = [reserves[r] EXCEPT !.price = price, !.level = level, !.fresh = TRUE]
  BY <1>4, <1>5
<1>7. /\ reserves'[r] \in ReserveRecords /\ reserves'[r].price = price
      /\ reserves'[r].level = level /\ reserves'[r].usable
  BY <1>2, <1>4, <1>6 DEF ReserveRecords, RefreshReserveWithPrice
<1>8. \A x \in Reserves : x # r => reserves'[x] = reserves[x] /\ priceAge'[x] = priceAge[x]
  BY <1>1, <1>4, <1>5 DEF ReservesInv, RefreshReserveWithPrice
<1>9. reserves' \in [Reserves -> ReserveRecords] BY <1>4, <1>5, <1>6, <1>7
<1>10. /\ priceAge' \in [Reserves -> Int]
       /\ level # NoChecks => priceAge'[r] <= MaxPriceAge[r]
  <2>1. level # NoChecks => age <= MaxPriceAge[r]
    BY <1>3, RecentWhenElapsed DEF RefreshReserveWithPrice, AgePasses
  <2> QED BY <1>1, <1>3, <2>1 DEF ReservesInv, RefreshReserveWithPrice
<1>11. level >= LiquidationChecks => level # NoChecks
  BY DEF LiquidationChecks, NoChecks
<1>12. ReservesInv'
  <2>1. SUFFICES ASSUME NEW x \in Reserves
        PROVE  /\ reserves'[x].level # NoChecks => reserves'[x].price > 0
               /\ ~reserves'[x].usable => ~reserves'[x].fresh
               /\ IsFresh(reserves'[x], LiquidationChecks) => priceAge'[x] <= MaxPriceAge[x]
    BY <1>9, <1>10 DEF ReservesInv
  <2>2. CASE x = r BY <1>2, <1>3, <1>7, <1>10, <1>11, <2>2 DEF IsFresh
  <2>3. CASE x # r BY <1>1, <1>8, <2>3 DEF ReservesInv
  <2> QED BY <2>2, <2>3
<1> QED BY <1>12, ReservesStep DEF RefreshReserveWithPrice

LEMMA RefreshStep ==
  ASSUME IInv, NEW r \in Reserves, RefreshReserve(r)
  PROVE  IInv' /\ Frozen
<1>1. ReservesInv BY DEF IInv
<1>2. reserves \in [Reserves -> ReserveRecords] /\ reserves[r] \in ReserveRecords
  BY <1>1 DEF ReservesInv
<1> DEFINE level == SavedLevel(r)
<1>3. /\ level \in PriceLevels
      /\ level # NoChecks => level = reserves[r].level /\ priceAge[r] <= MaxPriceAge[r]
  <2>1. level \in PriceLevels BY <1>2 DEF SavedLevel, ReserveRecords, PriceLevels
  <2>2. priceAge[r] \in Int /\ MaxPriceAge[r] \in Nat
    BY <1>1, LendingAssumption DEF ReservesInv
  <2>3. Elapsed(priceAge[r]) < MaxPriceAge[r] => priceAge[r] <= MaxPriceAge[r]
    BY <2>2, RecentWhenElapsed
  <2> QED BY <2>1, <2>3 DEF SavedLevel
<1>4. reserves' = [reserves EXCEPT ![r] =
                     [reserves[r] EXCEPT !.level = level, !.fresh = TRUE]]
  BY <1>2 DEF RefreshReserve, ReserveRecords
<1> HIDE DEF level
<1>5. reserves'[r] = [reserves[r] EXCEPT !.level = level, !.fresh = TRUE]
  BY <1>2, <1>4
<1>6. /\ reserves'[r] \in ReserveRecords /\ reserves'[r].price = reserves[r].price
      /\ reserves'[r].level = level /\ reserves'[r].usable
  BY <1>2, <1>3, <1>5 DEF ReserveRecords, RefreshReserve
<1>7. \A x \in Reserves : x # r => reserves'[x] = reserves[x]
  BY <1>2, <1>4
<1>8. reserves' \in [Reserves -> ReserveRecords] BY <1>2, <1>4, <1>5, <1>6
<1>9. priceAge' = priceAge BY DEF RefreshReserve
<1>10. level >= LiquidationChecks => level # NoChecks
  BY DEF LiquidationChecks, NoChecks
<1>11. ReservesInv'
  <2>1. SUFFICES ASSUME NEW x \in Reserves
        PROVE  /\ reserves'[x].level # NoChecks => reserves'[x].price > 0
               /\ ~reserves'[x].usable => ~reserves'[x].fresh
               /\ IsFresh(reserves'[x], LiquidationChecks) => priceAge'[x] <= MaxPriceAge[x]
    BY <1>1, <1>8, <1>9 DEF ReservesInv
  <2>2. CASE x = r BY <1>1, <1>3, <1>6, <1>9, <1>10, <2>2 DEF ReservesInv, IsFresh
  <2>3. CASE x # r BY <1>1, <1>7, <1>9, <2>3 DEF ReservesInv
  <2> QED BY <2>2, <2>3
<1> QED BY <1>11, ReservesStep DEF RefreshReserve

\* Crossing a limit or returning within it touches the two times alone.
LEMMA LimitsStep ==
  ASSUME IInv, NEW r \in Reserves,
         CrossDepositLimit(r) \/ CrossBorrowLimit(r) \/ ReturnWithinLimits(r)
  PROVE  IInv' /\ Frozen
<1>1. ReservesInv BY DEF IInv
<1>2. reserves \in [Reserves -> ReserveRecords] /\ reserves[r] \in ReserveRecords
  BY <1>1 DEF ReservesInv
<1>3. PICK x \in Nat \cup {NotCrossed}, y \in Nat \cup {NotCrossed} :
        reserves' = [reserves EXCEPT ![r] =
                       [reserves[r] EXCEPT !.depositCrossed = x, !.borrowCrossed = y]]
  <2>1. CASE CrossDepositLimit(r)
    <3>1. reserves' = [reserves EXCEPT ![r] = [reserves[r] EXCEPT !.depositCrossed = 0]]
      BY <1>2, <2>1 DEF CrossDepositLimit
    <3>2. [reserves[r] EXCEPT !.depositCrossed = 0] =
            [reserves[r] EXCEPT !.depositCrossed = 0, !.borrowCrossed = reserves[r].borrowCrossed]
      BY <1>2 DEF ReserveRecords
    <3>3. reserves[r].borrowCrossed \in Nat \cup {NotCrossed} BY <1>2 DEF ReserveRecords
    <3> QED BY <3>1, <3>2, <3>3
  <2>2. CASE CrossBorrowLimit(r)
    <3>1. reserves' = [reserves EXCEPT ![r] = [reserves[r] EXCEPT !.borrowCrossed = 0]]
      BY <1>2, <2>2 DEF CrossBorrowLimit
    <3>2. [reserves[r] EXCEPT !.borrowCrossed = 0] =
            [reserves[r] EXCEPT !.depositCrossed = reserves[r].depositCrossed, !.borrowCrossed = 0]
      BY <1>2 DEF ReserveRecords
    <3>3. reserves[r].depositCrossed \in Nat \cup {NotCrossed} BY <1>2 DEF ReserveRecords
    <3> QED BY <3>1, <3>2, <3>3
  <2>3. CASE ReturnWithinLimits(r)
    <3>1. reserves' = [reserves EXCEPT ![r] = [reserves[r] EXCEPT
                         !.depositCrossed = NotCrossed, !.borrowCrossed = NotCrossed]]
      BY <1>2, <2>3 DEF ReturnWithinLimits, ReserveRecords
    <3> QED BY <3>1
  <2> QED BY <2>1, <2>2, <2>3
<1>4. priceAge' = priceAge /\ UNCHANGED <<obligation, owed, pricesSeen>>
  BY DEF CrossDepositLimit, CrossBorrowLimit, ReturnWithinLimits
<1>5. /\ reserves'[r] \in ReserveRecords /\ reserves'[r].price = reserves[r].price
      /\ reserves'[r].level = reserves[r].level /\ reserves'[r].usable = reserves[r].usable
      /\ reserves'[r].fresh = reserves[r].fresh
  <2>1. reserves'[r] = [reserves[r] EXCEPT !.depositCrossed = x, !.borrowCrossed = y]
    BY <1>2, <1>3
  <2> QED BY <1>2, <1>3, <2>1 DEF ReserveRecords
<1>6. \A z \in Reserves : z # r => reserves'[z] = reserves[z] BY <1>2, <1>3
<1>7. reserves' \in [Reserves -> ReserveRecords]
  <2>1. [reserves[r] EXCEPT !.depositCrossed = x, !.borrowCrossed = y] \in ReserveRecords
    BY <1>2, <1>3 DEF ReserveRecords
  <2> QED BY <1>2, <1>3, <2>1
<1>8. ReservesInv'
  BY <1>1, <1>4, <1>5, <1>6, <1>7 DEF ReservesInv, IsFresh
<1> QED BY <1>4, <1>8, ReservesStep

LEMMA DeprecateStep ==
  ASSUME IInv, NEW r \in Reserves, Deprecate(r)
  PROVE  IInv' /\ Frozen
<1>1. ReservesInv' BY DeprecatedStep DEF Deprecate, IInv
<1> QED BY <1>1, ReservesStep DEF Deprecate

LEMMA RefreshObligationStep ==
  ASSUME IInv, RefreshObligation
  PROVE  IInv' /\ Frozen
<1> DEFINE accrued == Accrued(obligation, owed)
<1>1. SoundRecord(obligation) /\ ReservesInv /\ owed \in Nat BY DEF IInv
<1>2. SoundRecord(accrued) /\ Only(obligation, accrued, {}, Borrows(obligation))
  BY <1>1, AccruedFacts
<1>3. obligation' = Refreshed(accrued, reserves) BY DEF RefreshObligation
<1> HIDE DEF accrued
<1>4. obligation' \in ObligationRecords /\ Alike(accrued, obligation')
  <2>1. reserves \in [Reserves -> ReserveRecords] BY <1>1 DEF ReservesInv
  <2> QED BY <1>2, <1>3, <2>1, RefreshedFacts
<1>5. SoundRecord(obligation') /\ Only(accrued, obligation', {}, {})
  BY <1>2, <1>4, AlikeFacts
<1>6. Only(obligation, obligation', {}, Borrows(obligation)) BY <1>2, <1>5 DEF Only
<1>7. Frozen
  <2>1. \A r \in Borrows(obligation) : reserves[r].usable
    BY DEF RefreshObligation, PositionsUsable
  <2> QED BY <1>6, <2>1, FrozenWhenOnly
<1>8. ReservesInv' BY <1>1, SameReservesStep DEF RefreshObligation
<1>9. owed' \in Nat /\ pricesSeen' \in [Reserves -> Nat]
  BY <1>1, PricesType DEF RefreshObligation
<1>10. FreshMeansValued'
  <2> DEFINE seen == [r \in Reserves |-> [price |-> pricesSeen'[r]]]
  <2>1. pricesSeen' = Prices BY DEF RefreshObligation
  <2>2. /\ obligation'.group = accrued.group /\ obligation'.deposits = accrued.deposits
        /\ obligation'.debts = accrued.debts /\ obligation'.health = HealthOf(accrued, reserves)
    <3>1. accrued \in ObligationRecords BY <1>2 DEF SoundRecord, Coherent
    <3> QED BY <1>3, <3>1 DEF Refreshed, ObligationRecords
  <2>3. \A r \in Reserves : seen[r].price = reserves[r].price BY <2>1 DEF Prices
  <2> HIDE DEF seen
  <2>4. HealthOf(obligation', seen) = HealthOf(accrued, reserves) BY <2>2, <2>3, HealthSame
  <2> QED BY <2>2, <2>4 DEF FreshMeansValued, seen
<1> QED BY <1>5, <1>7, <1>8, <1>9, <1>10 DEF IInv

LEMMA AmountsAreNatural ==
  ASSUME NEW r \in Reserves
  PROVE  /\ DepositAmounts[r] \subseteq Nat /\ BorrowAmounts[r] \subseteq Nat
         /\ WithdrawAmounts[r] \subseteq Nat /\ RepayAmounts[r] \subseteq Nat
BY LendingAssumption

\* An operation on the obligation that leaves reserves stale, all of them usable.
LEMMA OperationStep ==
  ASSUME IInv, NEW D, NEW B, SoundRecord(obligation'), Only(obligation, obligation', D, B),
         \A r \in D \cup B : reserves[r].usable, ReservesInv', UNCHANGED <<owed, pricesSeen>>,
         FreshMeansValued'
  PROVE  IInv' /\ Frozen
<1>1. Frozen BY FrozenWhenOnly
<1> QED BY <1>1 DEF IInv

LEMMA DepositStep ==
  ASSUME IInv, NEW r \in Reserves, NEW n \in DepositAmounts[r], DepositCollateral(r, n)
  PROVE  IInv' /\ Frozen
<1>1. SoundRecord(obligation) /\ ReservesInv /\ n \in Nat
  BY AmountsAreNatural DEF IInv
<1>2. obligation' = DepositMade(obligation, r, n) /\ reserves[r].usable
      /\ OrdersSupportedBy(DepositMade(obligation, r, n))
  BY DEF DepositCollateral, CanDeposit
<1>3. SoundRecord(obligation') /\ Only(obligation, obligation', {r}, {})
  BY <1>1, <1>2, DepositFacts
<1>4. ReservesInv' BY <1>1, StaleStep DEF DepositCollateral
<1>5. FreshMeansValued'
  <2>1. obligation \in ObligationRecords BY <1>1 DEF SoundRecord, Coherent
  <2>2. ~obligation'.fresh BY <1>2, <2>1, OwnerLeavesStale
  <2> QED BY <2>2, ValuedWhenStale
<1> QED BY <1>5, <1>2, <1>3, <1>4, OperationStep DEF DepositCollateral

LEMMA BorrowStep ==
  ASSUME IInv, NEW r \in Reserves, NEW n \in BorrowAmounts[r], NEW room \in Rooms,
         BorrowLiquidity(r, n, room)
  PROVE  IInv' /\ Frozen
<1> DEFINE amount == BorrowAmount(obligation, reserves, r, n, room)
<1>1. SoundRecord(obligation) /\ ReservesInv /\ n \in Nat /\ room \in Nat
  BY AmountsAreNatural, LendingAssumption DEF IInv
<1>2. CanBorrow(obligation, reserves, r, n, room) /\ reserves[r].usable
      /\ obligation' = Borrowed(obligation, r, amount)
  BY DEF BorrowLiquidity
<1>3. OrdersSupportedBy(Borrowed(obligation, r, amount)) BY <1>2 DEF CanBorrow
<1>4. amount \in Nat \ {0}
  <2>1. IsFresh(reserves[r], AllChecks) BY <1>2 DEF CanBorrow
  <2>2. reserves[r].level # NoChecks BY <2>1 DEF IsFresh, AllChecks, NoChecks
  <2>3. reserves[r].price > 0 BY <1>1, <2>2 DEF ReservesInv
  <2>4. obligation \in ObligationRecords /\ reserves \in [Reserves -> ReserveRecords]
    BY <1>1 DEF SoundRecord, Coherent, ReservesInv
  <2> QED BY <1>1, <1>2, <2>3, <2>4, BorrowType
<1> HIDE DEF amount
<1>5. SoundRecord(obligation') /\ Only(obligation, obligation', {}, {r})
  BY <1>1, <1>2, <1>3, <1>4, BorrowFacts
<1>6. ReservesInv' BY <1>1, StaleStep DEF BorrowLiquidity
<1>7. FreshMeansValued'
  <2>1. obligation \in ObligationRecords BY <1>1 DEF SoundRecord, Coherent
  <2>2. ~obligation'.fresh BY <1>2, <2>1, OwnerLeavesStale
  <2> QED BY <2>2, ValuedWhenStale
<1> QED BY <1>7, <1>2, <1>5, <1>6, OperationStep DEF BorrowLiquidity

LEMMA WithdrawStep ==
  ASSUME IInv, NEW r \in Reserves, NEW n \in WithdrawAmounts[r], WithdrawCollateral(r, n)
  PROVE  IInv' /\ Frozen
<1> DEFINE amount == WithdrawAmount(obligation, r, n, "maxLtv")
<1>1. SoundRecord(obligation) /\ ReservesInv /\ n \in Nat
  BY AmountsAreNatural DEF IInv
<1>2. CanWithdraw(obligation, reserves, r, n, "maxLtv") /\ reserves[r].usable
      /\ obligation' = Withdrawn(obligation, r, amount)
  BY DEF WithdrawCollateral
<1>3. amount \in Nat /\ amount <= obligation.deposits[r]
  <2>1. obligation \in ObligationRecords BY <1>1 DEF SoundRecord, Coherent
  <2> QED BY <1>1, <1>2, <2>1, WithdrawType
<1> HIDE DEF amount
<1>4. SoundRecord(obligation') /\ Only(obligation, obligation', {r}, {})
  BY <1>1, <1>2, <1>3, WithdrawFacts
<1>5. ReservesInv' BY <1>1, StaleStep DEF WithdrawCollateral
<1>6. FreshMeansValued'
  <2>1. obligation \in ObligationRecords BY <1>1 DEF SoundRecord, Coherent
  <2>2. ~obligation'.fresh BY <1>2, <2>1, OwnerLeavesStale
  <2> QED BY <2>2, ValuedWhenStale
<1> QED BY <1>6, <1>2, <1>4, <1>5, OperationStep DEF WithdrawCollateral

LEMMA RepayStep ==
  ASSUME IInv, NEW r \in Reserves, NEW n \in RepayAmounts[r], RepayLiquidity(r, n)
  PROVE  IInv' /\ Frozen
<1> DEFINE settle == SettleAmount(obligation, r, n)
<1>1. SoundRecord(obligation) /\ ReservesInv /\ n \in Nat
  BY AmountsAreNatural DEF IInv
<1>2. OrdersSupportedBy(Repaid(obligation, r, settle)) /\ reserves[r].usable
      /\ obligation' = Repaid(obligation, r, settle)
  BY DEF RepayLiquidity, CanRepay
<1>3. settle \in Int /\ settle <= obligation.debts[r]
  <2>1. obligation \in ObligationRecords BY <1>1 DEF SoundRecord, Coherent
  <2> QED BY <1>1, <2>1, SettleType
<1> HIDE DEF settle
<1>4. SoundRecord(obligation') /\ Only(obligation, obligation', {}, {r})
  BY <1>1, <1>2, <1>3, RepayFacts
<1>5. ReservesInv' BY <1>1, StaleStep DEF RepayLiquidity
<1>6. FreshMeansValued'
  <2>1. obligation \in ObligationRecords BY <1>1 DEF SoundRecord, Coherent
  <2>2. ~obligation'.fresh BY <1>2, <2>1, OwnerLeavesStale
  <2> QED BY <2>2, ValuedWhenStale
<1> QED BY <1>6, <1>2, <1>4, <1>5, OperationStep DEF RepayLiquidity

LEMMA RepayAndWithdrawStep ==
  ASSUME IInv, NEW r \in Reserves, NEW n \in RepayAmounts[r],
         NEW w \in Reserves, NEW m \in WithdrawAmounts[w], RepayAndWithdraw(r, n, w, m)
  PROVE  IInv' /\ Frozen
<1>1. SoundRecord(obligation) /\ ReservesInv /\ n \in Nat /\ m \in Nat
  BY AmountsAreNatural DEF IInv
<1>2. /\ CanRepayAndWithdraw(obligation, reserves, r, n, w, m)
      /\ reserves[r].usable /\ reserves[w].usable
      /\ obligation' = RepaidAndWithdrawn(obligation, reserves, r, n, w, m)
  BY DEF RepayAndWithdraw
<1>3. reserves \in [Reserves -> ReserveRecords] BY <1>1 DEF ReservesInv
<1>4. SoundRecord(obligation') /\ Only(obligation, obligation', {w}, {r})
  BY <1>1, <1>2, <1>3, RepaidAndWithdrawnFacts
<1>5. ReservesInv' BY <1>1, StaleStep DEF RepayAndWithdraw
<1>6. FreshMeansValued'
  <2>1. obligation \in ObligationRecords BY <1>1 DEF SoundRecord, Coherent
  <2>2. ~obligation'.fresh BY <1>2, <2>1, OwnerLeavesStale
  <2> QED BY <2>2, ValuedWhenStale
<1> QED BY <1>6, <1>2, <1>4, <1>5, OperationStep DEF RepayAndWithdraw

LEMMA DepositAndWithdrawStep ==
  ASSUME IInv, NEW r \in Reserves, NEW n \in DepositAmounts[r],
         NEW w \in Reserves, NEW m \in WithdrawAmounts[w], DepositAndWithdraw(r, n, w, m)
  PROVE  IInv' /\ Frozen
<1>1. SoundRecord(obligation) /\ ReservesInv /\ n \in Nat /\ m \in Nat
  BY AmountsAreNatural DEF IInv
<1>2. /\ CanDepositAndWithdraw(obligation, reserves, r, n, w, m)
      /\ reserves[r].usable /\ reserves[w].usable
      /\ obligation' = DepositedAndWithdrawn(obligation, reserves, r, n, w, m)
  BY DEF DepositAndWithdraw
<1>3. reserves \in [Reserves -> ReserveRecords] BY <1>1 DEF ReservesInv
<1>4. SoundRecord(obligation') /\ Only(obligation, obligation', {r, w}, {})
  BY <1>1, <1>2, <1>3, DepositedAndWithdrawnFacts
<1>5. ReservesInv' BY <1>1, StaleStep DEF DepositAndWithdraw
<1>6. FreshMeansValued'
  <2>1. obligation \in ObligationRecords BY <1>1 DEF SoundRecord, Coherent
  <2>2. ~obligation'.fresh BY <1>2, <2>1, OwnerLeavesStale
  <2> QED BY <2>2, ValuedWhenStale
<1> QED BY <1>6, <1>2, <1>4, <1>5, OperationStep DEF DepositAndWithdraw

LEMMA GroupStep ==
  ASSUME IInv, NEW g \in Groups \cup {NoGroup}, RequestElevationGroup(g)
  PROVE  IInv' /\ Frozen
<1>1. SoundRecord(obligation) /\ ReservesInv BY DEF IInv
<1>2. SoundRecord(obligation') /\ Only(obligation, obligation', {}, {})
  BY <1>1, GroupFacts DEF RequestElevationGroup
<1>3. ReservesInv' BY <1>1, SameReservesStep DEF RequestElevationGroup
<1>4. FreshMeansValued'
  <2>1. obligation \in ObligationRecords BY <1>1 DEF SoundRecord, Coherent
  <2>2. obligation' = GroupChanged(obligation, g) BY DEF RequestElevationGroup
  <2>3. ~obligation'.fresh BY <2>1, <2>2, OwnerLeavesStale
  <2> QED BY <2>3, ValuedWhenStale
<1> QED BY <1>4, <1>2, <1>3, OperationStep DEF RequestElevationGroup

LEMMA SetOrderStep ==
  ASSUME IInv, NEW i \in OrderSlots, NEW order \in OrderChoices, NEW enabled \in BOOLEAN,
         SetObligationOrder(i, order, enabled)
  PROVE  IInv' /\ Frozen
<1>1. SoundRecord(obligation) /\ ReservesInv /\ order \in OrderRecords
  BY LendingAssumption DEF IInv
<1>2. IsValid(order) /\ IsSupported(order, obligation) /\ obligation' = OrderSet(obligation, i, order)
  BY DEF SetObligationOrder, CanSetOrder
<1>3. SoundRecord(obligation') /\ Only(obligation, obligation', {}, {})
  BY <1>1, <1>2, OrderSetFacts
<1>4. ReservesInv' BY <1>1, SameReservesStep DEF SetObligationOrder
<1>5. FreshMeansValued'
  <2>1. obligation \in ObligationRecords BY <1>1 DEF SoundRecord, Coherent
  <2>2. UNCHANGED pricesSeen BY DEF SetObligationOrder
  <2>3. FreshMeansValued BY DEF IInv
  <2> QED BY <1>2, <2>1, <2>2, <2>3, ValuedWhenKept DEF OrderSet, ObligationRecords
<1> QED BY <1>5, <1>3, <1>4, OperationStep DEF SetObligationOrder

LEMMA LiquidateStep ==
  ASSUME IInv, NEW debt \in Reserves, NEW coll \in Reserves, NEW n \in LiquidationAmounts,
         LiquidateObligation(debt, coll, n)
  PROVE  IInv' /\ Frozen
<1>1. SoundRecord(obligation) /\ ReservesInv /\ n \in Nat
  BY LendingAssumption DEF IInv
<1>2. /\ CanLiquidate(obligation, reserves, debt, coll, n)
      /\ reserves[debt].usable /\ reserves[coll].usable
      /\ obligation' = Liquidated(obligation, reserves, debt, coll, n)
  BY DEF LiquidateObligation
<1>3. reserves[coll].price > 0
  <2>1. IsFresh(reserves[coll], LiquidationChecks) BY <1>2 DEF CanLiquidate
  <2>2. reserves[coll].level # NoChecks BY <2>1 DEF IsFresh, LiquidationChecks, NoChecks
  <2> QED BY <1>1, <2>2 DEF ReservesInv
<1>4. reserves \in [Reserves -> ReserveRecords] BY <1>1 DEF ReservesInv
<1>5. SoundRecord(obligation') /\ Only(obligation, obligation', {coll}, {debt})
  BY <1>1, <1>2, <1>3, <1>4, LiquidateFacts
<1>6. ReservesInv' BY <1>1, StaleStep DEF LiquidateObligation
<1>7. FreshMeansValued'
  <2>1. obligation \in ObligationRecords BY <1>1 DEF SoundRecord, Coherent
  <2>2. ~obligation'.fresh BY <1>2, <2>1, LiquidationLeavesStale
  <2> QED BY <2>2, ValuedWhenStale
<1> QED BY <1>7, <1>2, <1>5, <1>6, OperationStep DEF LiquidateObligation

LEMMA MarkStep ==
  ASSUME IInv, NEW target \in Targets, MarkForDeleveraging(target)
  PROVE  IInv' /\ Frozen
<1>1. SoundRecord(obligation) /\ ReservesInv /\ target \in Nat
      /\ obligation \in ObligationRecords
  BY LendingAssumption DEF IInv, SoundRecord, Coherent
<1>2. obligation' \in ObligationRecords /\ Alike(obligation, obligation')
  <2>1. \A x \in Nat \cup {NotMarked}, y \in Nat :
          /\ [obligation EXCEPT !.called = x, !.target = y] \in ObligationRecords
          /\ Alike(obligation, [obligation EXCEPT !.called = x, !.target = y])
    BY <1>1 DEF ObligationRecords, Alike
  <2>2. PICK x \in Nat \cup {NotMarked}, y \in Nat :
          obligation' = [obligation EXCEPT !.called = x, !.target = y]
    <3>1. CASE obligation' = [obligation EXCEPT !.called = NotMarked, !.target = 0]
      BY <3>1
    <3>2. CASE obligation' = [obligation EXCEPT !.called = 0, !.target = target]
      BY <1>1, <3>2
    <3> QED BY <3>1, <3>2 DEF MarkForDeleveraging
  <2> QED BY <2>1, <2>2
<1>3. SoundRecord(obligation') /\ Only(obligation, obligation', {}, {})
  BY <1>1, <1>2, AlikeFacts
<1>4. ReservesInv' BY <1>1, SameReservesStep DEF MarkForDeleveraging
<1>5. FreshMeansValued'
  <2>1. /\ obligation'.group = obligation.group /\ obligation'.fresh = obligation.fresh
        /\ obligation'.deposits = obligation.deposits /\ obligation'.debts = obligation.debts
        /\ obligation'.health = obligation.health
    BY <1>1 DEF MarkForDeleveraging, ObligationRecords
  <2>2. UNCHANGED pricesSeen /\ FreshMeansValued BY DEF MarkForDeleveraging, IInv
  <2> QED BY <2>1, <2>2, ValuedWhenKept
<1> QED BY <1>5, <1>3, <1>4, OperationStep DEF MarkForDeleveraging

LEMMA SocializeStep ==
  ASSUME IInv, NEW r \in Reserves, NEW n \in RepayAmounts[r], NEW wiped \in BOOLEAN,
         SocializeLoss(r, n, wiped)
  PROVE  IInv' /\ Frozen
<1> DEFINE forgiven == Smaller(FromNum(n), obligation.debts[r])
           u == [obligation EXCEPT !.debts[r] = @ - forgiven]
           left == WithHasDebt(u)
           v == IF left.hasDebt THEN left ELSE OrdersRemoved(left)
<1>1. SoundRecord(obligation) /\ ReservesInv /\ n \in Nat
      /\ obligation \in ObligationRecords /\ OrdersHold(obligation)
  BY AmountsAreNatural DEF IInv, SoundRecord, Coherent
<1>2. obligation' = MarkedStale(v) /\ r \in Borrows(obligation) /\ reserves[r].fresh
  BY DEF SocializeLoss, IsFresh
<1>3. u \in ObligationRecords
  <2>1. obligation.debts[r] \in Nat BY <1>1, HealthFields
  <2>2. FromNum(n) \in Nat BY <1>1, Conversions
  <2>3. obligation.debts[r] - forgiven \in Nat BY <2>1, <2>2 DEF Smaller
  <2> HIDE DEF forgiven
  <2> QED BY <1>1, <2>3, PositionsSet
<1>4. /\ u.deposits = obligation.deposits /\ u.orders = obligation.orders
      /\ \A x \in Reserves : x # r => u.debts[x] = obligation.debts[x]
  BY <1>1 DEF ObligationRecords
<1> HIDE DEF u
<1>5. /\ left \in ObligationRecords /\ left.hasDebt = (Borrows(u) # {})
      /\ left.debts = u.debts /\ left.deposits = u.deposits /\ left.orders = u.orders
  BY <1>3 DEF WithHasDebt, ObligationRecords
<1> HIDE DEF left
<1>6. Coherent(left)
  <2>1. Borrows(left) = Borrows(u) BY <1>5 DEF Borrows
  <2> QED BY <1>5, <2>1 DEF Coherent
<1>7. Only(obligation, left, {}, {r}) BY <1>4, <1>5 DEF Only
<1>8. SoundRecord(v) /\ Only(obligation, v, {}, {r})
  <2>1. CASE ~left.hasDebt
    <3>1. v = OrdersRemoved(left) BY <2>1
    <3>2. SoundRecord(v) /\ Only(left, v, {}, {}) BY <1>6, <3>1, OrdersRemovedFacts
    <3> QED BY <1>7, <3>2 DEF Only
  <2>2. CASE left.hasDebt
    <3>1. v = left BY <2>2
    <3>2. Borrows(left) # {} BY <1>6, <2>2 DEF Coherent
    <3>3. Deposits(left) = Deposits(obligation) BY <1>4, <1>5 DEF Deposits
    <3>4. Borrows(left) \subseteq Borrows(obligation) BY <1>2, <1>7 DEF Only, Borrows
    <3>5. left.orders = obligation.orders BY <1>4, <1>5
    <3>6. OrdersHold(left) BY <1>1, <3>2, <3>3, <3>4, <3>5, OrdersHoldWithLess
    <3> QED BY <1>6, <1>7, <3>1, <3>6 DEF SoundRecord
  <2> QED BY <1>5, <2>1, <2>2 DEF ObligationRecords
<1> HIDE DEF v
<1>9. obligation' \in ObligationRecords /\ Alike(v, obligation')
  BY <1>2, <1>8, MarkedFacts DEF SoundRecord, Coherent
<1>10. SoundRecord(obligation') /\ Only(v, obligation', {}, {})
  BY <1>8, <1>9, AlikeFacts
<1>11. Only(obligation, obligation', {}, {r}) BY <1>8, <1>10 DEF Only
<1>12. ReservesInv'
  <2>1. CASE wiped BY <1>1, <2>1, DeprecatedStep DEF SocializeLoss
  <2>2. CASE ~wiped BY <1>1, <2>2, StaleStep DEF SocializeLoss
  <2> QED BY <2>1, <2>2
<1>13. reserves[r].usable BY <1>1, <1>2 DEF ReservesInv
<1>14. FreshMeansValued'
  <2>1. v \in ObligationRecords BY <1>8 DEF SoundRecord, Coherent
  <2>2. "fresh" \in DOMAIN v BY <2>1 DEF ObligationRecords
  <2> QED BY <1>2, <2>2, MarkedIsStale, ValuedWhenStale
<1> QED BY <1>14, <1>10, <1>11, <1>12, <1>13, OperationStep DEF SocializeLoss

LEMMA InvNext ==
  ASSUME IInv, [Next]_vars
  PROVE  IInv' /\ Frozen
<1>1. CASE OwnerNext
  BY <1>1, DepositStep, BorrowStep, WithdrawStep, RepayStep, RepayAndWithdrawStep,
     DepositAndWithdrawStep, GroupStep, SetOrderStep DEF OwnerNext
<1>2. CASE LiquidatorNext
  BY <1>2, LiquidateStep DEF LiquidatorNext
<1>3. CASE CouncilNext
  BY <1>3, MarkStep, SocializeStep DEF CouncilNext
<1>4. CASE MarketNext
  <2>1. DeleveragingReserves \subseteq Reserves BY LiquidationAssumption
  <2> QED BY <1>4, <2>1, NewSlotStep, RefreshObligationStep, RefreshWithPriceStep,
             RefreshStep, DeprecateStep, LimitsStep DEF MarketNext
<1>5. CASE UNCHANGED vars
  BY <1>5, ReservesStep DEF vars, IInv, ReservesInv
<1> QED BY <1>1, <1>2, <1>3, <1>4, <1>5 DEF Next

\* The liquidator's transaction: what it refreshes is the obligation's own reserves.
LEMMA ConfirmedFacts ==
  ASSUME ReservesInv, NEW level \in ReportLevels, NEW r \in Reserves
  PROVE  /\ Confirmed(level)[r] \in ReserveRecords
         /\ Confirmed(level)[r].price = reserves[r].price
         /\ Confirmed(level)[r].usable = reserves[r].usable
         /\ Confirmed(level)[r].level # NoChecks => reserves[r].price > 0
         /\ ~reserves[r].usable => ~Confirmed(level)[r].fresh
         /\ r \notin Confirmable => Confirmed(level)[r] = reserves[r]
<1>1. reserves[r] \in ReserveRecords /\ level \in PriceLevels
  BY LendingAssumption DEF ReservesInv
<1>2. Confirmed(level)[r] = IF r \in Confirmable
                            THEN [reserves[r] EXCEPT !.level = level, !.fresh = TRUE]
                            ELSE reserves[r]
  BY DEF Confirmed
<1>3. /\ reserves[r].level # NoChecks => reserves[r].price > 0
      /\ ~reserves[r].usable => ~reserves[r].fresh
  BY DEF ReservesInv
<1>4. r \in Confirmable => reserves[r].usable /\ reserves[r].price > 0 BY DEF Confirmable
<1> QED BY <1>1, <1>2, <1>3, <1>4 DEF ReserveRecords

LEMMA TransactionStep ==
  ASSUME IInv, NEW level \in ReportLevels, NEW ages, NEW debt \in Reserves, NEW coll \in Reserves,
         NEW n \in LiquidationAmounts, LiquidatorTransaction(level, ages, debt, coll, n)
  PROVE  IInv' /\ Frozen
<1> DEFINE rs == Confirmed(level)
           accrued == Accrued(obligation, owed)
           o == Refreshed(accrued, rs)
<1>1. /\ SoundRecord(obligation) /\ ReservesInv /\ owed \in Nat /\ n \in Nat
      /\ pricesSeen \in [Reserves -> Nat]
  BY LendingAssumption DEF IInv
<1>2. /\ PositionsUsable(o, rs) /\ rs[debt].usable /\ rs[coll].usable
      /\ CanLiquidate(o, rs, debt, coll, n)
      /\ obligation' = Liquidated(o, rs, debt, coll, n)
      /\ reserves' = [r \in Reserves |-> [rs[r] EXCEPT !.fresh = @ /\ r \notin {debt, coll}]]
      /\ \A r \in Confirmable : ages[r] \in ReportAges[r] /\ AgePasses(r, ages[r])
      /\ priceAge' = [r \in Reserves |-> IF r \in Confirmable THEN ages[r] ELSE priceAge[r]]
      /\ owed' = 0 /\ pricesSeen' = Prices
  BY DEF LiquidatorTransaction, Current
<1>3. ASSUME NEW r \in Reserves
      PROVE  /\ rs[r] \in ReserveRecords /\ rs[r].price = reserves[r].price
             /\ rs[r].usable = reserves[r].usable
             /\ rs[r].level # NoChecks => reserves[r].price > 0
             /\ ~reserves[r].usable => ~rs[r].fresh
             /\ r \notin Confirmable => rs[r] = reserves[r]
  BY <1>1, ConfirmedFacts
<1>4. rs \in [Reserves -> ReserveRecords] BY <1>3 DEF Confirmed
<1>5. SoundRecord(accrued) /\ Only(obligation, accrued, {}, Borrows(obligation))
  BY <1>1, AccruedFacts
<1> HIDE DEF rs, accrued
<1>6. o \in ObligationRecords /\ Alike(accrued, o) /\ o.health = HealthOf(accrued, rs)
  BY <1>4, <1>5, RefreshedFacts
<1> HIDE DEF o
<1>7. SoundRecord(o) /\ Only(accrued, o, {}, {}) BY <1>5, <1>6, AlikeFacts
<1>8. rs[coll].price > 0
  <2>1. IsFresh(rs[coll], LiquidationChecks) BY <1>2 DEF CanLiquidate
  <2>2. rs[coll].level # NoChecks BY <2>1 DEF IsFresh, LiquidationChecks, NoChecks
  <2> QED BY <1>3, <2>2
<1>9. SoundRecord(obligation') /\ Only(o, obligation', {coll}, {debt})
  BY <1>1, <1>2, <1>4, <1>7, <1>8, LiquidateFacts
<1>10. Only(obligation, obligation', {coll}, Borrows(obligation) \cup {debt})
  BY <1>5, <1>7, <1>9 DEF Only
<1>11. Frozen
  <2>1. Borrows(obligation) \subseteq Borrows(o)
    <3>1. \A r \in Reserves : o.debts[r] = accrued.debts[r] /\ obligation.debts[r] \in Nat
      BY <1>1, <1>6 DEF Alike, SoundRecord, Coherent, ObligationRecords
    <3>2. \A r \in Borrows(obligation) : accrued.debts[r] = obligation.debts[r] + owed
      BY <1>1 DEF accrued, Accrued, Borrows, SoundRecord, Coherent, ObligationRecords
    <3> QED BY <1>1, <3>1, <3>2 DEF Borrows
  <2>2. \A r \in Borrows(obligation) : rs[r].usable BY <1>2, <2>1 DEF PositionsUsable
  <2>3. \A r \in {coll} \cup (Borrows(obligation) \cup {debt}) : reserves[r].usable
    BY <1>2, <1>3, <2>2 DEF Borrows
  <2> QED BY <1>10, <2>3, FrozenWhenOnly
<1>12. ReservesInv'
  <2>1. ASSUME NEW r \in Reserves
        PROVE  /\ reserves'[r] \in ReserveRecords
               /\ reserves'[r].price = rs[r].price /\ reserves'[r].level = rs[r].level
               /\ reserves'[r].usable = rs[r].usable
               /\ reserves'[r].fresh => rs[r].fresh
    <3>1. reserves'[r] = [rs[r] EXCEPT !.fresh = @ /\ r \notin {debt, coll}] BY <1>2
    <3> QED BY <1>3, <3>1 DEF ReserveRecords
  <2>2. reserves' \in [Reserves -> ReserveRecords] BY <1>2, <2>1
  <2>a. \A r \in Confirmable : r \in Reserves /\ ages[r] \in Int
    <3>1. Confirmable \subseteq Reserves BY DEF Confirmable, Deposits, Borrows
    <3> QED BY <1>2, <3>1, LendingAssumption
  <2>3. priceAge' \in [Reserves -> Int]
    <3>1. priceAge \in [Reserves -> Int] BY <1>1 DEF ReservesInv
    <3> QED BY <1>2, <2>a, <3>1
  <2>4. ASSUME NEW r \in Reserves, IsFresh(reserves'[r], LiquidationChecks)
        PROVE  priceAge'[r] <= MaxPriceAge[r]
    <3>1. CASE r \in Confirmable
      <4>1. MaxPriceAge[r] \in Nat BY LendingAssumption
      <4>2. Elapsed(ages[r]) <= MaxPriceAge[r] BY <1>2, <3>1 DEF AgePasses
      <4>3. ages[r] <= MaxPriceAge[r] BY <2>a, <3>1, <4>1, <4>2, RecentWhenElapsed
      <4> QED BY <1>2, <3>1, <4>3
    <3>2. CASE r \notin Confirmable
      <4>1. IsFresh(reserves[r], LiquidationChecks) BY <1>3, <2>1, <2>4, <3>2 DEF IsFresh
      <4>2. priceAge[r] <= MaxPriceAge[r] BY <1>1, <4>1 DEF ReservesInv
      <4> QED BY <1>2, <3>2, <4>2
    <3> QED BY <3>1, <3>2
  <2> QED BY <1>3, <2>1, <2>2, <2>3, <2>4 DEF ReservesInv
<1>13. FreshMeansValued'
  <2>1. ~obligation'.fresh BY <1>2, <1>6, LiquidationLeavesStale
  <2> QED BY <2>1, ValuedWhenStale
<1>14. pricesSeen' \in [Reserves -> Nat] /\ owed' \in Nat BY <1>1, <1>2, PricesType
<1> QED BY <1>9, <1>11, <1>12, <1>13, <1>14 DEF IInv

LEMMA InvFairNext ==
  ASSUME IInv, [FairNext]_vars
  PROVE  IInv' /\ Frozen
<1>1. CASE KeeperNext
  <2>1. PICK debt \in Borrows(obligation), coll \in Deposits(obligation),
             level \in ReportLevels \ {NoChecks}, n \in LiquidationAmounts,
             ages \in [Reserves -> UNION {ReportAges[r] : r \in Reserves}] :
               LiquidatorTransaction(level, ages, debt, coll, n)
    BY <1>1 DEF KeeperNext
  <2>2. debt \in Reserves /\ coll \in Reserves BY DEF Borrows, Deposits
  <2> QED BY <2>1, <2>2, TransactionStep
<1>2. CASE [Next]_vars BY <1>2, InvNext
<1> QED BY <1>1, <1>2 DEF FairNext

-------------------------------------------------------------------------------
(* The owner's actions leave the obligation within its limits                  *)

\* What the values kept in a fresh obligation are worth while its prices are current.
LEMMA KnownHealth ==
  ASSUME IInv, pricesSeen = Prices, obligation.fresh
  PROVE  obligation.health = HealthOf(obligation, reserves)
<1> DEFINE kept == PricesKept
           o == obligation
           rs == reserves
<1>1. o.health = HealthOf(o, kept) BY DEF IInv, FreshMeansValued, PricesKept
<1>2. \A r \in Reserves : kept[r].price = rs[r].price BY DEF PricesKept, Prices
<1> HIDE DEF kept, rs
<1>3. HealthOf(o, kept) = HealthOf(o, rs) BY <1>2, HealthSame
<1> QED BY <1>1, <1>3 DEF rs

LEMMA SamePrices ==
  ASSUME ReservesInv, ReservesInv', NEW members, reserves' = Stale(members)
  PROVE  /\ reserves \in [Reserves -> ReserveRecords]
         /\ reserves' \in [Reserves -> ReserveRecords]
         /\ \A r \in Reserves : reserves'[r].price = reserves[r].price
<1>1. reserves \in [Reserves -> ReserveRecords] /\ reserves' \in [Reserves -> ReserveRecords]
  BY DEF ReservesInv
<1>2. ASSUME NEW r \in Reserves PROVE reserves'[r].price = reserves[r].price
  <2>1. reserves[r] \in ReserveRecords BY <1>1
  <2>2. reserves'[r] = [reserves[r] EXCEPT !.fresh = @ /\ r \notin members] BY DEF Stale
  <2> QED BY <2>1, <2>2 DEF ReserveRecords
<1> QED BY <1>1, <1>2

Riskier == IsRiskier(obligation, obligation')
Covered == IsCovered(HealthOf(obligation, reserves))

Limited == WithinLimit(obligation, reserves)
Sound == IsSound(obligation, reserves)

LEMMA BorrowLimited ==
  ASSUME IInv, IInv', pricesSeen = Prices,
         NEW r \in Reserves, NEW n \in BorrowAmounts[r], NEW room \in Rooms,
         BorrowLiquidity(r, n, room)
  PROVE  Limited'
<1> DEFINE o == obligation
           rs == reserves
           us == reserves'
           amount == BorrowAmount(o, rs, r, n, room)
           value == ValueOf(amount, rs, r)
           factor == FromPercent(FactorOf(o, r))
           spare == o.health.allowed - o.health.debt
<1>1. ReservesInv /\ ReservesInv' /\ o \in ObligationRecords /\ n \in Nat /\ room \in Nat
  BY AmountsAreNatural, LendingAssumption DEF IInv, SoundRecord, Coherent
<1>2. /\ CanBorrow(o, rs, r, n, room) /\ obligation' = Borrowed(o, r, amount)
      /\ us = Stale({r})
  BY DEF BorrowLiquidity
<1>3. /\ rs \in [Reserves -> ReserveRecords] /\ us \in [Reserves -> ReserveRecords]
      /\ \A x \in Reserves : us[x].price = rs[x].price
  BY <1>1, <1>2, SamePrices
<1>4. /\ IsFresh(rs[r], AllChecks) /\ IsFresh(o, AllChecks) /\ o.health.allowed > o.health.debt
      /\ n # MaxU64 => Weighted(o, r, value) <= spare
  BY <1>2 DEF CanBorrow
<1>5. rs[r].price \in Nat \ {0}
  <2>1. rs[r].level # NoChecks BY <1>4 DEF IsFresh, AllChecks, NoChecks
  <2>2. rs[r].price > 0 BY <1>1, <2>1 DEF ReservesInv
  <2> QED BY <1>3, <2>2 DEF ReserveRecords
<1>6. o.health = HealthOf(o, rs) BY <1>4, KnownHealth DEF IsFresh
<1>7. amount \in Nat BY <1>1, <1>2, <1>3, <1>5, BorrowType
<1>8. spare \in Nat BY <1>1, <1>4, HealthFields
<1>9. factor \in Nat \ {0} BY <1>1, PercentsType, PercentPositive
<1>10. Weighted(o, r, value) <= spare
  <2>1. CASE n = MaxU64
    <3>1. amount = Smaller(room, FDiv(FDiv(spare, rs[r].price), factor))
      BY <2>1 DEF BorrowAmount
    <3>2. Weighted(o, r, value) = FMul(FMul(amount, rs[r].price), factor)
      BY DEF Weighted, ValueOf
    <3> DEFINE p == rs[r].price
    <3>3. p \in Nat \ {0} BY <1>5
    <3> HIDE DEF factor, spare, p, amount
    <3>4. FDiv(FDiv(spare, p), factor) \in Nat
      <4>1. FDiv(spare, p) \in Nat BY <1>8, <3>3, FDivType
      <4> QED BY <1>9, <4>1, FDivType
    <3>5. amount <= FDiv(FDiv(spare, p), factor)
      BY <1>1, <3>1, <3>4 DEF Smaller, p
    <3>6. FMul(FMul(amount, p), factor) <= spare BY <1>7, <1>8, <1>9, <3>3, <3>5, MostWithin
    <3> QED BY <3>2, <3>6 DEF p
  <2>2. CASE n # MaxU64 BY <1>4, <2>2
  <2> QED BY <2>1, <2>2
<1> HIDE DEF amount, us, rs, o
<1>11. Weighted(o, r, ValueOf(amount, rs, r)) <= HealthOf(o, rs).allowed - HealthOf(o, rs).debt
  BY <1>6, <1>10
<1>12. WithinLimit(Borrowed(o, r, amount), us)
  BY <1>1, <1>3, <1>7, <1>11, LoanWithin
<1> QED BY <1>2, <1>12 DEF Limited, us

LEMMA WithdrawalLimited ==
  ASSUME IInv, IInv', pricesSeen = Prices,
         NEW r \in Reserves, NEW n \in WithdrawAmounts[r], WithdrawCollateral(r, n)
  PROVE  Limited'
<1> DEFINE o == obligation
           rs == reserves
           us == reserves'
           t == Withdrawn(o, r, WithdrawAmount(o, r, n, "maxLtv"))
<1>1. ReservesInv /\ ReservesInv' /\ o \in ObligationRecords /\ n \in Nat
  BY AmountsAreNatural DEF IInv, SoundRecord, Coherent
<1>2. CanWithdraw(o, rs, r, n, "maxLtv") /\ obligation' = t /\ us = Stale({r})
  BY DEF WithdrawCollateral
<1>3. /\ rs \in [Reserves -> ReserveRecords] /\ us \in [Reserves -> ReserveRecords]
      /\ \A x \in Reserves : us[x].price = rs[x].price
  BY <1>1, <1>2, SamePrices
<1>4. o.fresh BY <1>2 DEF CanWithdraw, IsFresh
<1>5. o.health = HealthOf(o, rs) BY <1>4, KnownHealth
<1> HIDE DEF us, rs, o
<1>6. WithinLimit(t, us) BY <1>1, <1>2, <1>3, <1>5, WithdrawWithin
<1> QED BY <1>2, <1>6 DEF Limited, us

LEMMA RepayAndWithdrawSound ==
  ASSUME IInv, IInv', NEW r \in Reserves, NEW n \in RepayAmounts[r],
         NEW w \in Reserves, NEW m \in WithdrawAmounts[w], RepayAndWithdraw(r, n, w, m)
  PROVE  Sound'
<1> DEFINE o == obligation
           rs == reserves
           us == reserves'
           settle == SettleAmount(o, r, n)
           repaid == Repaid(o, r, settle)
           after == RepayReserves(o, rs, r, n, w)
           u == Refreshed(repaid, after)
           ltv == LoanToValueOf(o.health)
<1>1. ReservesInv /\ ReservesInv' /\ SoundRecord(o) /\ n \in Nat /\ m \in Nat
  BY AmountsAreNatural DEF IInv
<1>2. /\ CanRepayAndWithdraw(o, rs, r, n, w, m)
      /\ obligation' = RepaidAndWithdrawn(o, rs, r, n, w, m)
      /\ \E members : us = Stale(members)
  BY DEF RepayAndWithdraw
<1>3. /\ rs \in [Reserves -> ReserveRecords] /\ us \in [Reserves -> ReserveRecords]
      /\ \A x \in Reserves : us[x].price = rs[x].price
  BY <1>1, <1>2, SamePrices
<1>4. CanWithdrawWithin(u, after, w, m, ltv) BY <1>2 DEF CanRepayAndWithdraw
<1>5. obligation' = WithdrawnWithin(u, after, w, m) BY <1>2 DEF RepaidAndWithdrawn
<1>6. after \in [Reserves -> ReserveRecords] /\ \A x \in Reserves : after[x].price = rs[x].price
  <2> DEFINE fresh == settle < o.debts[r] \/ r = w
  <2>1. after = WithFresh(rs, r, fresh) /\ fresh \in BOOLEAN BY DEF RepayReserves
  <2> HIDE DEF fresh, rs, after
  <2>2. after \in [Reserves -> ReserveRecords] BY <1>3, <2>1, WithFreshType
  <2>3. \A x \in Reserves : after[x].price = rs[x].price
    BY <1>3, <2>1 DEF WithFresh, ReserveRecords
  <2> QED BY <2>2, <2>3
<1>7. SoundRecord(u)
  <2>1. OrdersSupportedBy(repaid) BY <1>2 DEF CanRepayAndWithdraw, CanRepay
  <2>2. settle \in Int /\ settle <= o.debts[r]
    BY <1>1, SettleType DEF SoundRecord, Coherent
  <2> HIDE DEF settle, o
  <2>3. SoundRecord(repaid) BY <1>1, <2>1, <2>2, RepayFacts
  <2> HIDE DEF repaid, after
  <2>4. u \in ObligationRecords /\ Alike(repaid, u) BY <1>6, <2>3, RefreshedFacts
  <2> HIDE DEF u
  <2> QED BY <2>3, <2>4, AlikeFacts
<1> HIDE DEF u, after, us, rs, ltv
<1>8. \A x \in Reserves : us[x].price = after[x].price BY <1>3, <1>6
<1>9. IsSound(WithdrawnWithin(u, after, w, m), us)
  BY <1>1, <1>3, <1>4, <1>6, <1>7, <1>8, WithinSound
<1> QED BY <1>5, <1>9 DEF Sound, us

LEMMA DepositAndWithdrawSound ==
  ASSUME IInv, IInv', NEW r \in Reserves, NEW n \in DepositAmounts[r],
         NEW w \in Reserves, NEW m \in WithdrawAmounts[w], DepositAndWithdraw(r, n, w, m)
  PROVE  Sound'
<1> DEFINE o == obligation
           rs == reserves
           us == reserves'
           made == DepositMade(o, r, n)
           u == Refreshed(made, rs)
           ltv == LoanToValueOf(o.health)
<1>1. ReservesInv /\ ReservesInv' /\ SoundRecord(o) /\ n \in Nat /\ m \in Nat
  BY AmountsAreNatural DEF IInv
<1>2. /\ CanDepositAndWithdraw(o, rs, r, n, w, m)
      /\ obligation' = DepositedAndWithdrawn(o, rs, r, n, w, m)
      /\ us = Stale({w})
  BY DEF DepositAndWithdraw
<1>3. /\ rs \in [Reserves -> ReserveRecords] /\ us \in [Reserves -> ReserveRecords]
      /\ \A x \in Reserves : us[x].price = rs[x].price
  BY <1>1, <1>2, SamePrices
<1>4. CanWithdrawWithin(u, rs, w, m, ltv) BY <1>2 DEF CanDepositAndWithdraw
<1>5. obligation' = WithdrawnWithin(u, rs, w, m) BY <1>2 DEF DepositedAndWithdrawn
<1>6. SoundRecord(u)
  <2>1. OrdersSupportedBy(made) BY <1>2 DEF CanDepositAndWithdraw, CanDeposit
  <2> HIDE DEF o
  <2>2. SoundRecord(made) BY <1>1, <2>1, DepositFacts
  <2> HIDE DEF made, rs
  <2>3. u \in ObligationRecords /\ Alike(made, u) BY <1>3, <2>2, RefreshedFacts
  <2> HIDE DEF u
  <2> QED BY <2>2, <2>3, AlikeFacts
<1> HIDE DEF u, us, rs, ltv
<1>7. IsSound(WithdrawnWithin(u, rs, w, m), us)
  BY <1>1, <1>3, <1>4, <1>6, WithinSound
<1> QED BY <1>5, <1>7 DEF Sound, us

LEMMA GroupLimited ==
  ASSUME IInv, IInv', NEW g \in Groups \cup {NoGroup}, RequestElevationGroup(g)
  PROVE  Limited'
<1> DEFINE o == obligation
           rs == reserves
           us == reserves'
           moved == [o EXCEPT !.group = g]
           t == GroupChanged(o, g)
           h == HealthOf(moved, rs)
           limit == BackedBy(moved, rs, Ltvs(moved))
<1>1. rs \in [Reserves -> ReserveRecords] /\ o \in ObligationRecords
  BY DEF IInv, SoundRecord, Coherent, ReservesInv
<1>2. CanRequestGroup(o, rs, g) /\ obligation' = t /\ us = rs
  BY DEF RequestElevationGroup
<1>3. PICK r \in Reserves : TRUE BY <1>2 DEF CanRequestGroup, Deposits
<1>4. moved \in ObligationRecords BY <1>1 DEF ObligationRecords
<1>5. t.group = moved.group /\ t.deposits = moved.deposits /\ t.debts = moved.debts
  BY <1>1 DEF GroupChanged, MarkedStale, ObligationRecords
<1>6. HealthOf(t, us) = h /\ BackedBy(t, us, Ltvs(t)) = limit
  <2> HIDE DEF t, moved, rs, us
  <2>1. \A x \in Reserves : us[x].price = rs[x].price BY <1>2
  <2>2. HealthOf(t, us) = HealthOf(moved, rs) BY <1>5, <2>1, HealthSame
  <2>3. BackedBy(t, us, Ltvs(t)) = BackedBy(moved, rs, Ltvs(moved)) BY <1>5, <2>1, LimitSame
  <2> QED BY <2>2, <2>3
<1>7. h.debt <= limit BY <1>2 DEF CanRequestGroup, Ltvs
<1> HIDE DEF moved, rs
<1>8. h.debt \in Nat /\ limit \in Nat BY <1>1, <1>4, HealthSums, LimitSum
<1>9. BorrowFactor[r] \div 100 \in Nat
  <2>1. BorrowFactor[r] \in Nat BY PositionAssumption
  <2> QED BY <2>1
<1> HIDE DEF h, limit
<1>10. h.debt <= limit + BorrowFactor[r] \div 100 + 2 BY <1>7, <1>8, <1>9
<1>11. WithinLimit(t, us) BY <1>6, <1>10 DEF WithinLimit
<1> QED BY <1>2, <1>11 DEF Limited, us

\* A deposit, a repayment and an order add no risk.
LEMMA SafeOperations ==
  ASSUME IInv, Riskier
  PROVE  /\ \A r \in Reserves : \A n \in DepositAmounts[r] : ~DepositCollateral(r, n)
         /\ \A r \in Reserves : \A n \in RepayAmounts[r] : ~RepayLiquidity(r, n)
         /\ \A i \in OrderSlots, order \in OrderChoices, enabled \in BOOLEAN :
              ~SetObligationOrder(i, order, enabled)
<1> DEFINE o == obligation
           t == obligation'
<1>1. SoundRecord(o) /\ o \in ObligationRecords BY DEF IInv, SoundRecord, Coherent
<1>2. \A x \in Reserves : o.deposits[x] \in Nat /\ o.debts[x] \in Nat
  BY <1>1 DEF ObligationRecords
<1>3. ASSUME t.group = o.group,
             \A x \in Reserves : t.deposits[x] >= o.deposits[x] /\ t.debts[x] <= o.debts[x],
             \A x \in Reserves : t.deposits[x] \in Int /\ t.debts[x] \in Int
      PROVE  FALSE
  <2>1. \E x \in Reserves : t.deposits[x] < o.deposits[x] \/ t.debts[x] > o.debts[x]
    BY <1>3 DEF Riskier, IsRiskier
  <2> QED BY <1>2, <1>3, <2>1
<1>4. ASSUME NEW r \in Reserves, NEW n \in DepositAmounts[r], DepositCollateral(r, n)
      PROVE  FALSE
  <2>1. n \in Nat BY AmountsAreNatural
  <2>2. t = DepositMade(o, r, n) BY <1>4 DEF DepositCollateral
  <2>3. /\ t.group = o.group /\ t.debts = o.debts
        /\ t.deposits = [o.deposits EXCEPT ![r] = @ + n]
    BY <1>1, <2>2 DEF DepositMade, MarkedStale, ObligationRecords
  <2>4. \A x \in Reserves : t.deposits[x] = IF x = r THEN o.deposits[x] + n ELSE o.deposits[x]
    BY <1>1, <2>3 DEF ObligationRecords
  <2> HIDE DEF o, t
  <2> QED BY <1>2, <1>3, <2>1, <2>3, <2>4
<1>5. ASSUME NEW r \in Reserves, NEW n \in RepayAmounts[r], RepayLiquidity(r, n)
      PROVE  FALSE
  <2> DEFINE settle == SettleAmount(o, r, n)
  <2>1. n \in Nat BY AmountsAreNatural
  <2>2. settle \in Nat BY <1>1, <2>1, SettleType
  <2>3. t = Repaid(o, r, settle) BY <1>5 DEF RepayLiquidity
  <2> HIDE DEF settle
  <2>4. /\ t.group = o.group /\ t.deposits = o.deposits
        /\ t.debts = [o.debts EXCEPT ![r] = @ - settle]
    BY <1>1, <2>3 DEF Repaid, WithHasDebt, MarkedStale, ObligationRecords
  <2>5. \A x \in Reserves : t.debts[x] = IF x = r THEN o.debts[x] - settle ELSE o.debts[x]
    BY <1>1, <2>4 DEF ObligationRecords
  <2> HIDE DEF o, t
  <2> QED BY <1>2, <1>3, <2>2, <2>4, <2>5
<1>6. ASSUME NEW i \in OrderSlots, NEW order \in OrderChoices, NEW enabled \in BOOLEAN,
             SetObligationOrder(i, order, enabled)
      PROVE  FALSE
  <2>1. t.group = o.group /\ t.deposits = o.deposits /\ t.debts = o.debts
    BY <1>1, <1>6 DEF SetObligationOrder, OrderSet, ObligationRecords
  <2> HIDE DEF o, t
  <2> QED BY <1>2, <1>3, <2>1
<1> QED BY <1>4, <1>5, <1>6

\* What an owner leaves is judged by the limit for borrowing or, where a withdrawal ends a
\* combined handler, by the limit for liquidations of a valuation anew.
LEMMA OwnerLimited ==
  ASSUME IInv, IInv', Riskier, pricesSeen = Prices, OwnerNext
  PROVE  Limited' \/ (Sound' /\ Reserves # {})
BY SafeOperations, BorrowLimited, WithdrawalLimited, RepayAndWithdrawSound,
   DepositAndWithdrawSound, GroupLimited DEF OwnerNext

LEMMA OwnerCovered ==
  ASSUME IInv, IInv', Riskier, pricesSeen = Prices, OwnerNext
  PROVE  Covered'
<1> DEFINE t == obligation'
           us == reserves'
<1>1. t \in ObligationRecords /\ us \in [Reserves -> ReserveRecords]
  BY DEF IInv, SoundRecord, Coherent, ReservesInv
<1>2. WithinLimit(t, us) \/ (IsSound(t, us) /\ Reserves # {})
  BY OwnerLimited DEF Limited, Sound
<1> HIDE DEF t, us
<1>3. IsCovered(HealthOf(t, us)) BY <1>1, <1>2, LimitCovers, SoundCovers
<1> QED BY <1>3 DEF Covered, t, us

LEMMA OwnerSound ==
  ASSUME IInv, IInv', Riskier, pricesSeen = Prices, OwnerNext, HasMargin(obligation, reserves)'
  PROVE  Sound'
<1> DEFINE t == obligation'
           us == reserves'
<1>1. t \in ObligationRecords /\ us \in [Reserves -> ReserveRecords]
  BY DEF IInv, SoundRecord, Coherent, ReservesInv
<1>2. WithinLimit(t, us) \/ IsSound(t, us) BY OwnerLimited DEF Limited, Sound
<1>3. HasMargin(t, us) OBVIOUS
<1> HIDE DEF t, us
<1>4. IsSound(t, us) BY <1>1, <1>2, <1>3, MarginIsSound
<1> QED BY <1>4 DEF Sound, t, us

-------------------------------------------------------------------------------
(* Orders are evaluated without a division by zero, but for roundings          *)

\* The ratio at which the obligation would be liquidated, from the one there is: never
\* lower but for what the product and the quotient round.
LEMMA PointPastRatio ==
  ASSUME NEW p \in Nat, NEW l \in Nat \ {0}, NEW u \in Nat, l < u
  PROVE  /\ FDiv(FMul(p, u), l) \in Int
         /\ p >= One - 1 => p <= FDiv(FMul(p, u), l)
         /\ p - One \div l - 1 <= FDiv(FMul(p, u), l)
<1> DEFINE m == FMul(p, u)
           q == One \div l
           a == m * One
<1>1. One \in Nat \ {0} BY OneAssumption
<1>2. q \in Int /\ One < l * q + l BY <1>1, QuotientBounds
<1>3. m \in Int /\ p * u < One * m + One
  <2>1. p * u \in Int OBVIOUS
  <2> QED BY <1>1, <2>1, QuotientBounds DEF FMul
<1> HIDE DEF m, q
<1>4. p * l + p <= p * u
  <2>1. p * (l + 1) <= p * u BY Z3
  <2>2. p * (l + 1) = p * l + p BY Z3
  <2> QED BY <2>1, <2>2
<1>5. a \in Int /\ a = One * m BY <1>1, <1>3, Z3
<1> HIDE DEF a
<1> DEFINE x == p * l
<1>6. x \in Int /\ x = l * p BY Z3
<1>7. p * u \in Int OBVIOUS
<1> HIDE DEF x
<1>8. x + p + 1 <= a + One BY <1>1, <1>3, <1>4, <1>5, <1>6, <1>7 DEF x
<1>9. a \div l = FDiv(m, l) /\ a \div l \in Int BY <1>5, Quotient DEF FDiv, a
<1>10. ASSUME p >= One - 1 PROVE p <= FDiv(m, l)
  <2>1. l * p <= a BY <1>1, <1>5, <1>6, <1>8, <1>10
  <2>2. p <= a \div l BY <1>5, <2>1, QuotientLeast
  <2> QED BY <1>9, <2>2
<1>11. p - q - 1 <= FDiv(m, l)
  <2> DEFINE y == l * q
             k == p - q - 1
  <2>1. y \in Int /\ l * k = l * p - y - l BY <1>2, Z3
  <2>2. One < y + l BY <1>2
  <2> HIDE DEF y
  <2>3. k \in Int BY <1>2
  <2> HIDE DEF k
  <2>4. l * k <= a BY <1>1, <1>5, <1>6, <1>8, <2>1, <2>2
  <2>5. k <= a \div l BY <1>5, <2>3, <2>4, QuotientLeast
  <2> QED BY <1>9, <2>5 DEF k
<1> QED BY <1>9, <1>10, <1>11 DEF m, q

\* Every order that is reached is one of a healthy obligation.
LEMMA EvaluatedPastRounding ==
  ASSUME IInv
  PROVE  OrdersEvaluatedPastRounding
<1> DEFINE o == obligation
           rs == reserves
           h == o.health
<1>1. SUFFICES ASSUME IsValued, \A r \in Reserves : IsFresh(rs[r], LiquidationChecks),
                      NEW debt \in Borrows(o), NEW coll \in Deposits(o), NEW i \in OrderSlots,
                      Reason(o, rs, debt, coll) \in {"order", "none"},
                      PastRounding(o.orders[i], debt, coll)
               PROVE  IsEvaluable(o.orders[i], o, rs, debt, coll)
  BY DEF OrdersEvaluatedPastRounding
<1> DEFINE order == o.orders[i]
           ltv == LoanToValueOf(h)
           limit == UnhealthyLtv(h)
           ratio == PriceRatio(rs, debt, coll)
<1>2. /\ o \in ObligationRecords /\ rs \in [Reserves -> ReserveRecords] /\ ReservesInv
      /\ order.threshold \in Nat /\ order.condition \in Conditions
  <2>1. o \in ObligationRecords BY DEF IInv, SoundRecord, Coherent
  <2>2. order \in OrderRecords BY <2>1 DEF ObligationRecords
  <2> QED BY <2>1, <2>2 DEF IInv, ReservesInv, OrderRecords
<1>3. coll \in Reserves /\ debt \in Reserves /\ o.deposits[coll] \in Nat \ {0}
  BY <1>2 DEF Deposits, Borrows, ObligationRecords
<1>4. rs[coll].price \in Nat \ {0} /\ rs[debt].price \in Nat
  <2>1. rs[coll].level # NoChecks BY <1>1, <1>3 DEF IsFresh, LiquidationChecks, NoChecks
  <2>2. rs[coll].price > 0 BY <1>2, <1>3, <2>1 DEF ReservesInv
  <2>3. rs[coll] \in ReserveRecords /\ rs[debt] \in ReserveRecords BY <1>2, <1>3
  <2> QED BY <2>2, <2>3 DEF ReserveRecords
<1>5. h = HealthOf(o, rs) BY <1>1 DEF IsValued
<1>6. h.debt \in Nat /\ h.unhealthy \in Nat /\ h.deposited \in Nat \ {0}
  <2> DEFINE d == DepositTerms(o, rs)
             n == o.deposits[coll]
             p == rs[coll].price
             rest == SumFunctionOnSet(d, Reserves \ {coll})
  <2>1. /\ h.deposited = SumFunctionOnSet(d, Reserves)
        /\ h.debt \in Nat /\ h.unhealthy \in Nat /\ h.deposited \in Nat
    BY <1>2, <1>5, HealthSums
  <2>2. \A r \in Reserves : d[r] \in Nat /\ d[r] \in Int BY <1>2, TermsType
  <2>3. d[coll] = n * p BY <1>2, <1>3, <1>4, FromNumExact DEF DepositTerms, ValueOf
  <2>4. n \in Nat \ {0} /\ p \in Nat \ {0} BY <1>3, <1>4
  <2> HIDE DEF d, n, p
  <2>5. n * p \in Nat \ {0} BY <2>4, Z3
  <2>6. IsFiniteSet(Reserves) /\ IsFiniteSet(Reserves \ {coll})
    BY PositionAssumption, FS_RemoveElement
  <2>7. SumFunctionOnSet(d, Reserves) = d[coll] + rest BY <1>3, <2>2, <2>6, SumRemove
  <2>8. rest \in Nat BY <2>2, <2>6, SumNatural
  <2> HIDE DEF rest, h
  <2> QED BY <2>1, <2>3, <2>5, <2>7, <2>8
<1>7. ltv \in Nat /\ limit \in Nat
  <2>1. h.deposited \in Nat \ {0} /\ h.debt \in Int /\ h.unhealthy \in Int BY <1>6
  <2> QED BY <1>6, <2>1, FDivType DEF LoanToValueOf, UnhealthyLtv, Ltv
<1>8. ltv < limit
  <2>1. ~IsUnhealthy(h) BY <1>1 DEF Reason
  <2> QED BY <1>7, <2>1 DEF IsUnhealthy
<1>9. ratio \in Nat
  <2>1. rs[debt].price \in Int BY <1>4
  <2> QED BY <1>4, <2>1, FDivType DEF PriceRatio
<1>10. CASE order.condition = "ltvAbove"
  <2>1. LiquidationPoint(order, o, rs, debt, coll) = limit
    BY <1>10 DEF LiquidationPoint, RatioConditions
  <2>2. IsHit(order, o, rs, debt, coll) => ltv > order.threshold
    BY <1>10 DEF IsHit, Compared, RatioConditions, TakeProfits
  <2> HIDE DEF order, ltv, limit
  <2>3. IsHit(order, o, rs, debt, coll) => order.threshold # limit
    BY <1>2, <1>7, <1>8, <2>2
  <2> QED BY <1>10, <2>1, <2>3 DEF IsEvaluable, order
<1>11. CASE order.condition = "ratioAbove"
  <2> DEFINE point == FDiv(FMul(ratio, limit), ltv)
             slack == One \div ltv
  <2>1. LiquidationPoint(order, o, rs, debt, coll) = point
    BY <1>11 DEF LiquidationPoint, RatioConditions
  <2>2. IsHit(order, o, rs, debt, coll) => ratio > order.threshold
    BY <1>11 DEF IsHit, Compared, RatioConditions, TakeProfits
  <2>3. ltv > 0 /\ (ratio >= One - 1 \/ ratio > order.threshold + slack + 1)
    BY <1>1, <1>11 DEF PastRounding
  <2> HIDE DEF order, ltv, limit, ratio
  <2>4. ltv \in Nat \ {0} BY <1>7, <2>3
  <2>5. /\ point \in Int /\ (ratio >= One - 1 => ratio <= point)
        /\ ratio - slack - 1 <= point
    BY <1>7, <1>8, <1>9, <2>4, PointPastRatio
  <2>6. slack \in Int BY <2>4, OneAssumption, Quotient
  <2> HIDE DEF point, slack
  <2>7. IsHit(order, o, rs, debt, coll) => order.threshold # point
    BY <1>2, <1>9, <2>2, <2>3, <2>5, <2>6
  <2> QED BY <1>11, <2>1, <2>3, <2>7 DEF IsEvaluable, order, ltv
<1>12. CASE order.condition \notin StopLosses
  <2>1. order.condition # "ratioAbove" BY <1>12 DEF StopLosses
  <2> QED BY <1>12, <2>1 DEF IsEvaluable
<1> QED BY <1>10, <1>11, <1>12 DEF StopLosses

-------------------------------------------------------------------------------
(* A liquidation does not raise the debt's share of the deposits                *)

\* The scale resolves a hundredth of a percent, as 2^60 does: what a bonus below 99 percent
\* leaves of the collateral is then more than the unit that a ratio is rounded by.
FineScale == One >= 10000

\* With the bonus, all that the collateral has over the debt, still less is taken than
\* would raise the loan to value.
LEMMA ShareOfBonus ==
  ASSUME FineScale, NEW ltv \in Nat, ltv < BadDebtPoint
  PROVE  /\ ltv < One
         /\ (ltv + 1) * (2 * One - ltv) <= One * One
<1> DEFINE u == One - ltv
<1>1. One \in Nat BY Scale
<1>2. 100 * ltv < 99 * One
  <2> DEFINE q == (99 * One) \div 100
  <2>1. q \in Int /\ 100 * q <= 99 * One BY <1>1, QuotientBounds
  <2>2. ltv < q BY DEF BadDebtPoint, FromPercent
  <2> HIDE DEF q
  <2> QED BY <1>1, <2>1, <2>2
<1>3. u \in Nat /\ u >= 101 /\ 100 * u >= One + 1 BY <1>1, <1>2 DEF FineScale
<1>4. (ltv + 1) * (2 * One - ltv) = One * One - u * u + One + u
  <2>1. ltv = One - u BY <1>1
  <2> HIDE DEF u
  <2>2. (One - u + 1) * (2 * One - (One - u)) = One * One - u * u + One + u BY <1>1, <1>3, Z3
  <2> QED BY <2>1, <2>2
<1> HIDE DEF u
<1>5. u * u >= 101 * u BY <1>3, Z3
<1>6. u * u \in Int /\ One * One \in Int BY <1>1, <1>3
<1>7. u * u >= One + u BY <1>1, <1>3, <1>5, <1>6
<1>8. ltv < One BY <1>1, <1>2
<1> DEFINE x == u * u
           y == One * One
<1> HIDE DEF x, y
<1>9. y - x + One + u <= y BY <1>1, <1>3, <1>6, <1>7 DEF x, y
<1> QED BY <1>4, <1>8, <1>9 DEF x, y

\* The value of a part of a debt, by the part's share of its value.
LEMMA PartWorth ==
  ASSUME NEW d \in Nat \ {0}, NEW p \in Nat, NEW l \in Nat
  PROVE  /\ FMul(FMul(d, p), FDiv(l, d)) \in Nat
         /\ One * FMul(FMul(d, p), FDiv(l, d)) <= l * p
<1> DEFINE v == (d * p) \div One
           w == (l * One) \div d
           m == (v * w) \div One
<1>1. One \in Nat \ {0} BY Scale
<1>2. d * p \in Nat /\ l * One \in Nat /\ l * p \in Nat BY <1>1
<1>3. v \in Nat /\ One * v <= d * p BY <1>1, <1>2, QuotientBounds, Quotient
<1>4. w \in Nat /\ d * w <= l * One BY <1>1, <1>2, QuotientBounds, Quotient
<1> HIDE DEF v, w
<1>5. v * w \in Nat BY <1>3, <1>4
<1>6. m \in Nat /\ One * m <= v * w BY <1>1, <1>5, QuotientBounds, Quotient
<1> HIDE DEF m
<1>7. One * (One * m) <= One * (v * w) BY <1>1, <1>3, <1>4, <1>6, Z3
<1>8. One * (v * w) = (One * v) * w BY <1>1, <1>3, <1>4, Z3
<1>9. (One * v) * w <= (d * p) * w BY <1>1, <1>3, <1>4, Z3
<1>10. (d * p) * w = (d * w) * p BY <1>4, Z3
<1>11. (d * w) * p <= (l * One) * p BY <1>1, <1>4, Z3
<1>12. (l * One) * p = One * (l * p) BY <1>1, Z3
<1> DEFINE a == One * m
           b == l * p
<1>13. a \in Int /\ b \in Int BY <1>1, <1>2, <1>6
<1>14. One * a <= One * b
  <2>1. /\ One * (One * m) \in Int /\ One * (v * w) \in Int /\ (d * p) * w \in Int
        /\ (l * One) * p \in Int
    BY <1>1, <1>3, <1>4, <1>6
  <2> DEFINE x1 == One * (One * m)
             x2 == One * (v * w)
             x3 == (d * p) * w
             x4 == (l * One) * p
  <2>2. x1 <= x2 /\ x2 <= x3 /\ x3 <= x4 BY <1>7, <1>8, <1>9, <1>10, <1>11
  <2>3. x1 \in Int /\ x2 \in Int /\ x3 \in Int /\ x4 \in Int BY <2>1
  <2> HIDE DEF x1, x2, x3, x4
  <2>4. x1 <= x4 BY <2>2, <2>3
  <2> QED BY <2>4, <1>12 DEF x1, x4
<1> HIDE DEF a, b
<1>15. a <= b BY <1>1, <1>13, <1>14, Z3
<1> QED BY <1>6, <1>15 DEF a, b, m, v, w, FMul, FDiv

\* What is taken for it, with the bonus, is no larger a share of the deposits.
LEMMA TotalWithin ==
  ASSUME NEW ltv \in Nat, ltv < One, (ltv + 1) * (2 * One - ltv) <= One * One,
         NEW m \in Nat, NEW bonus \in Int, bonus <= One - ltv,
         NEW x \in Int, x <= FMul(m, bonus + One)
  PROVE  (ltv + 1) * x <= m * One
<1> DEFINE t == (m * (bonus + One)) \div One
           k == ltv + 1
           c == 2 * One - ltv
<1>1. One \in Nat \ {0} BY Scale
<1>2. m * (bonus + One) \in Int BY <1>1
<1>3. t \in Int /\ One * t <= m * (bonus + One) BY <1>1, <1>2, QuotientBounds
<1>4. x <= t BY DEF FMul
<1> HIDE DEF t
<1>5. bonus + One <= c /\ c \in Nat /\ bonus + One \in Int BY <1>1
<1>6. k \in Nat /\ k * c <= One * One OBVIOUS
<1> HIDE DEF k, c
<1>7. m * (bonus + One) <= m * c BY <1>5, Z3
<1>8. One * x <= One * t BY <1>1, <1>3, <1>4, Z3
<1>9. One * x <= m * c
  <2>1. One * x \in Int /\ One * t \in Int /\ m * c \in Int BY <1>1, <1>3, <1>5
  <2> QED BY <1>2, <1>3, <1>7, <1>8, <2>1
<1>10. k * (One * x) <= k * (m * c)
  <2> DEFINE a == One * x
             b == m * c
  <2>1. a \in Int /\ b \in Int /\ a <= b BY <1>1, <1>5, <1>9
  <2> HIDE DEF a, b
  <2>2. k * a <= k * b BY <1>6, <2>1, Z3
  <2> QED BY <2>2 DEF a, b
<1>11. k * (m * c) = m * (k * c) BY <1>5, <1>6, Z3
<1>12. m * (k * c) <= m * (One * One)
  <2> DEFINE a == k * c
             b == One * One
  <2>1. a \in Int /\ b \in Int /\ a <= b BY <1>1, <1>5, <1>6
  <2> HIDE DEF a, b
  <2>2. m * a <= m * b BY <2>1, Z3
  <2> QED BY <2>2 DEF a, b
<1>13. k * (One * x) = One * (k * x) /\ m * (One * One) = One * (m * One) BY <1>1, <1>6, Z3
<1> DEFINE a == k * x
           b == m * One
<1>14. a \in Int /\ b \in Int BY <1>1, <1>6
<1>15. One * a <= One * b
  <2>1. k * (One * x) \in Int /\ k * (m * c) \in Int /\ m * (One * One) \in Int
    BY <1>1, <1>5, <1>6
  <2>2. k * (One * x) <= m * (One * One)
    <3> DEFINE y1 == k * (One * x)
               y2 == k * (m * c)
               y3 == m * (One * One)
    <3>1. y1 \in Int /\ y2 \in Int /\ y3 \in Int /\ y1 <= y2 /\ y2 <= y3
      BY <1>10, <1>11, <1>12, <2>1
    <3> HIDE DEF y1, y2, y3
    <3>2. y1 <= y3 BY <3>1
    <3> QED BY <3>2 DEF y1, y3
  <2> QED BY <1>13, <2>2
<1> HIDE DEF a, b
<1>16. a <= b BY <1>1, <1>14, <1>15, Z3
<1> QED BY <1>16 DEF a, b, k

LEMMA QuotientNatural ==
  ASSUME NEW a \in Nat, NEW d \in Nat \ {0}
  PROVE  /\ a \div d \in Nat
         /\ d * (a \div d) <= a
         /\ a < d * (a \div d) + d
         /\ a <= d * (a \div d) + d
         /\ a <= d * ((a \div d) + 1)
<1> DEFINE q == a \div d
<1>1. q \in Int /\ d * q <= a /\ a < d * q + d BY QuotientBounds
<1>2. q \in Nat BY Quotient
<1> HIDE DEF q
<1>3. d * (q + 1) = d * q + d BY <1>1, Z3
<1>4. d * q \in Int BY <1>1
<1> QED BY <1>1, <1>2, <1>3, <1>4 DEF q

\* Collateral withdrawn for less than all of it is worth no more than what it is for.
LEMMA WithdrawnWorth ==
  ASSUME NEW c \in Nat, NEW q \in Nat, c * q # 0, NEW t \in Int
  PROVE  /\ ToFloor(FMul(FromNum(c), FDiv(t, c * q))) \in Int
         /\ ToFloor(FMul(FromNum(c), FDiv(t, c * q))) * q <= t
<1> DEFINE v == c * q
           z == (t * One) \div v
           part == FMul(FromNum(c), z)
           w == part \div One
<1>1. One \in Nat \ {0} BY Scale
<1>2. v \in Nat \ {0} /\ t * One \in Int BY <1>1
<1>3. z \in Int /\ v * z <= t * One BY <1>2, QuotientBounds
<1> HIDE DEF z
<1>4. part = c * z
  <2>1. (c * One) * z = One * (c * z) /\ c * z \in Int BY <1>1, <1>3, Z3
  <2> DEFINE a == c * z
             k == (One * a) \div One
  <2>2. a \in Int /\ One * a \in Int BY <1>1, <2>1
  <2> HIDE DEF a
  <2>3. k \in Int /\ One * k <= One * a /\ One * a < One * k + One
    BY <1>1, <2>2, QuotientBounds
  <2> HIDE DEF k
  <2>4. One * k + One = One * (k + 1) BY <1>1, <2>3, Z3
  <2>5. k <= a BY <1>1, <2>2, <2>3, Z3
  <2>6. a < k + 1 BY <1>1, <2>2, <2>3, <2>4, Z3
  <2>7. k = a BY <2>2, <2>3, <2>5, <2>6
  <2> QED BY <2>1, <2>7 DEF FMul, FromNum, a, k
<1>5. part \in Int BY <1>3, <1>4
<1>6. w \in Int /\ One * w <= part BY <1>1, <1>5, QuotientBounds
<1> HIDE DEF w, part
<1>7. (One * w) * q <= (c * z) * q
  <2> DEFINE a == One * w
             b == c * z
  <2>1. a \in Int /\ b \in Int /\ a <= b BY <1>1, <1>3, <1>4, <1>6
  <2> HIDE DEF a, b
  <2>2. a * q <= b * q BY <2>1, Z3
  <2> QED BY <2>2 DEF a, b
<1>8. (c * z) * q = v * z BY <1>3, Z3
<1>9. (One * w) * q = One * (w * q) /\ t * One = One * t BY <1>1, <1>6, Z3
<1> DEFINE a == w * q
<1>10. a \in Int BY <1>6
<1>11. One * a <= One * t
  <2>1. /\ (One * w) * q \in Int /\ (c * z) * q \in Int /\ t * One \in Int
        /\ v * z \in Int
    BY <1>1, <1>2, <1>3, <1>6
  <2> QED BY <1>3, <1>7, <1>8, <1>9, <2>1
<1> HIDE DEF a
<1>12. a <= t BY <1>1, <1>10, <1>11, Z3
<1> QED BY <1>6, <1>12 DEF a, w, part, z, v, ToFloor, FDiv

\* A debt and deposits from which the same share is taken, but for s.
LEMMA ShareKept ==
  ASSUME NEW b \in Nat, NEW d \in Nat \ {0}, NEW x \in Nat, NEW s \in Nat,
         (FDiv(b, d) + 1) * x <= s * One
  PROVE  b * x <= s * d
<1> DEFINE y == (b * One) \div d
           k == y + 1
<1>1. One \in Nat \ {0} BY Scale
<1>2. b * One \in Nat BY <1>1
<1>3. y \in Nat /\ b * One < d * y + d BY <1>1, <1>2, QuotientNatural
<1>4. k * x <= s * One BY DEF FDiv
<1> HIDE DEF y
<1>5. k \in Nat /\ b * One <= d * k BY <1>1, <1>3, Z3
<1> HIDE DEF k
<1>6. (b * One) * x <= (d * k) * x
  <2> DEFINE e == b * One
             f == d * k
  <2>1. e \in Int /\ f \in Int /\ e <= f BY <1>1, <1>5
  <2> HIDE DEF e, f
  <2>2. e * x <= f * x BY <2>1, Z3
  <2> QED BY <2>2 DEF e, f
<1>7. (d * k) * x = d * (k * x) BY <1>5, Z3
<1>8. d * (k * x) <= d * (s * One)
  <2> DEFINE e == k * x
             f == s * One
  <2>1. e \in Int /\ f \in Int /\ e <= f BY <1>1, <1>4, <1>5
  <2> HIDE DEF e, f
  <2>2. d * e <= d * f BY <2>1, Z3
  <2> QED BY <2>2 DEF e, f
<1>9. (b * One) * x = One * (b * x) /\ d * (s * One) = One * (s * d) BY <1>1, Z3
<1> DEFINE e == b * x
           f == s * d
<1>10. e \in Int /\ f \in Int OBVIOUS
<1>11. One * e <= One * f
  <2> DEFINE y1 == (b * One) * x
             y2 == (d * k) * x
             y3 == d * (s * One)
  <2>1. y1 \in Int /\ y2 \in Int /\ y3 \in Int /\ y1 <= y2 /\ y2 <= y3
    BY <1>1, <1>5, <1>6, <1>7, <1>8
  <2>2. y1 = One * e /\ y3 = One * f BY <1>9
  <2> HIDE DEF y1, y2, y3, e, f
  <2> QED BY <2>1, <2>2
<1> HIDE DEF e, f
<1>12. e <= f BY <1>1, <1>10, <1>11, Z3
<1> QED BY <1>12 DEF e, f

\* A smaller share of smaller deposits is a smaller loan to value.
LEMMA LtvNotHigher ==
  ASSUME NEW b \in Nat, NEW d \in Nat \ {0}, NEW b1 \in Nat, NEW d1 \in Nat \ {0},
         b1 * d <= b * d1
  PROVE  FDiv(b1, d1) <= FDiv(b, d)
<1> DEFINE y == (b1 * One) \div d1
<1>1. One \in Nat \ {0} BY Scale
<1>2. b * One \in Nat /\ b1 * One \in Nat BY <1>1
<1>3. y \in Nat /\ d1 * y <= b1 * One BY <1>1, <1>2, QuotientNatural
<1> HIDE DEF y
<1>4. d * (d1 * y) <= d * (b1 * One)
  <2> DEFINE e == d1 * y
             f == b1 * One
  <2>1. e \in Int /\ f \in Int /\ e <= f BY <1>2, <1>3
  <2> HIDE DEF e, f
  <2>2. d * e <= d * f BY <2>1, Z3
  <2> QED BY <2>2 DEF e, f
<1>5. One * (b1 * d) <= One * (b * d1)
  <2> DEFINE e == b1 * d
             f == b * d1
  <2>1. e \in Int /\ f \in Int /\ e <= f OBVIOUS
  <2> HIDE DEF e, f
  <2>2. One * e <= One * f BY <1>1, <2>1, Z3
  <2> QED BY <2>2 DEF e, f
<1>6. /\ d * (b1 * One) = One * (b1 * d) /\ One * (b * d1) = d1 * (b * One)
      /\ d * (d1 * y) = d1 * (d * y)
  BY <1>1, <1>3, Z3
<1> DEFINE e == d * y
           f == b * One
<1>7. e \in Int /\ f \in Int BY <1>2, <1>3
<1>8. d1 * e <= d1 * f
  <2> DEFINE y1 == d * (d1 * y)
             y2 == One * (b1 * d)
             y3 == One * (b * d1)
  <2>1. y1 \in Int /\ y2 \in Int /\ y3 \in Int /\ y1 <= y2 /\ y2 <= y3
    BY <1>1, <1>3, <1>4, <1>5, <1>6
  <2>2. y1 = d1 * e /\ y3 = d1 * f BY <1>6
  <2> HIDE DEF y1, y2, y3, e, f
  <2> QED BY <2>1, <2>2
<1> HIDE DEF e, f
<1>9. e <= f BY <1>7, <1>8, Z3
<1>10. d * y <= b * One BY <1>9 DEF e, f
<1>11. y <= (b * One) \div d BY <1>2, <1>3, <1>10, QuotientLeast
<1> QED BY <1>11 DEF y, FDiv

\* What is left of a debt whose settled part is cut down to what the collateral pays for.
LEMMA CutDownWorth ==
  ASSUME NEW k \in Nat, NEW l \in Nat, NEW p \in Nat, NEW v \in Nat, NEW t \in Nat \ {0},
         k * t <= l * p, NEW s \in Nat, s = FMul(l, FDiv(v, t))
  PROVE  k * v <= (FMul(s, p) + 1) * One + p + (l * p) \div One + 1
<1> DEFINE y == (v * One) \div t
           r == (s * p) \div One
           u == (l * p) \div One
<1>1. One \in Nat \ {0} BY Scale
<1>2. v * One \in Nat /\ s * p \in Nat /\ l * p \in Nat BY <1>1
<1>3. y \in Nat /\ v * One <= t * (y + 1) BY <1>1, <1>2, QuotientNatural
<1>4. r \in Nat /\ s * p <= One * r + One BY <1>1, <1>2, QuotientNatural
<1>5. u \in Nat /\ l * p <= One * u + One BY <1>1, <1>2, QuotientNatural
<1>6. l * y <= One * s + One
  <2>1. s = FMul(l, y) BY DEF FDiv
  <2> HIDE DEF y
  <2>2. l * y \in Int BY <1>3
  <2>3. l * y < One * ((l * y) \div One) + One BY <1>1, <2>2, QuotientBounds
  <2>4. s = (l * y) \div One BY <2>1 DEF FMul
  <2> QED BY <1>1, <2>2, <2>3, <2>4
<1> HIDE DEF y, r, u
<1>7. k * (v * One) <= k * (t * (y + 1))
  <2> DEFINE e == v * One
             f == t * (y + 1)
  <2>1. e \in Int /\ f \in Int /\ e <= f BY <1>1, <1>2, <1>3
  <2> HIDE DEF e, f
  <2>2. k * e <= k * f BY <2>1, Z3
  <2> QED BY <2>2 DEF e, f
<1>8. (k * t) * (y + 1) <= (l * p) * (y + 1)
  <2> DEFINE e == k * t
             f == l * p
  <2>1. e \in Int /\ f \in Int /\ e <= f OBVIOUS
  <2> HIDE DEF e, f
  <2>2. e * (y + 1) <= f * (y + 1) BY <1>3, <2>1, Z3
  <2> QED BY <2>2 DEF e, f
<1>9. (l * p) * (y + 1) = (l * y) * p + l * p BY <1>3, Z3
<1>10. (l * y) * p <= (One * s + One) * p
  <2> DEFINE e == l * y
             f == One * s + One
  <2>1. e \in Int /\ f \in Int /\ e <= f BY <1>1, <1>3, <1>6
  <2> HIDE DEF e, f
  <2>2. e * p <= f * p BY <2>1, Z3
  <2> QED BY <2>2 DEF e, f
<1>11. (One * s + One) * p = One * (s * p) + One * p BY <1>1, Z3
<1>12. One * (s * p) <= One * (One * r + One)
  <2> DEFINE e == s * p
             f == One * r + One
  <2>1. e \in Int /\ f \in Int /\ e <= f BY <1>1, <1>2, <1>4
  <2> HIDE DEF e, f
  <2>2. One * e <= One * f BY <1>1, <2>1, Z3
  <2> QED BY <2>2 DEF e, f
<1>13. /\ k * (v * One) = One * (k * v) /\ k * (t * (y + 1)) = (k * t) * (y + 1)
       /\ One * (One * r + One) + One * p + (One * u + One)
            = One * ((r + 1) * One + p + u + 1)
  BY <1>1, <1>3, <1>4, <1>5, Z3
<1> DEFINE e == k * v
           f == (r + 1) * One + p + u + 1
<1>14. e \in Int /\ f \in Int BY <1>1, <1>4, <1>5
<1>15. One * e <= One * f
  <2> DEFINE y1 == k * (v * One)
             y2 == (k * t) * (y + 1)
             y3 == (l * y) * p
             y4 == l * p
             y5 == One * (s * p)
             y6 == One * p
             y7 == One * (One * r + One)
             y8 == One * u + One
             y9 == (l * p) * (y + 1)
  <2>1. /\ y1 \in Int /\ y2 \in Int /\ y3 \in Int /\ y4 \in Int /\ y5 \in Int
        /\ y6 \in Int /\ y7 \in Int /\ y8 \in Int /\ y9 \in Int
    BY <1>1, <1>2, <1>3, <1>4, <1>5
  <2>2. y1 <= y2 BY <1>7, <1>13
  <2>3. y2 <= y9 /\ y9 = y3 + y4 BY <1>8, <1>9
  <2>4. y3 <= y5 + y6 BY <1>10, <1>11
  <2>5. y5 <= y7 /\ y4 <= y8 BY <1>5, <1>12
  <2>6. y1 = One * e /\ One * f = y7 + y6 + y8 BY <1>13
  <2> HIDE DEF y1, y2, y3, y4, y5, y6, y7, y8, y9, e, f
  <2>7. y1 <= y7 + y6 + y8 BY <2>1, <2>2, <2>3, <2>4, <2>5
  <2> QED BY <2>6, <2>7
<1> HIDE DEF e, f
<1>16. e <= f BY <1>1, <1>14, <1>15, Z3
<1> QED BY <1>16 DEF e, f, r, u, FMul

\* Below 99 percent the bonus of every reason is at most what the collateral has over the
\* debt.
LEMMA BonusWithin ==
  ASSUME NEW o \in ObligationRecords, NEW rs \in [Reserves -> ReserveRecords],
         NEW debt \in Reserves, NEW coll \in Reserves,
         o.health.deposited # 0, NoFactorLtv(o.health) < BadDebtPoint,
         Reason(o, rs, debt, coll) # "none"
  PROVE  Bonus(o, rs, debt, coll) <= ToBadDebt(o.health)
<1> DEFINE reason == Reason(o, rs, debt, coll)
           room == ToBadDebt(o.health)
<1>1. room \in Nat /\ NoFactorLtv(o.health) \in Nat BY ToBadDebtType
<1>2. \A a : Smaller(a, room) <= room
  <2> HIDE DEF room
  <2> QED BY <1>1 DEF Smaller
<1>3. ASSUME NEW daily \in Nat, NEW mostBps \in Nat, NEW secs \in Nat
      PROVE  DeleveragingRate(o, daily, mostBps, secs) <= room
  <2> DEFINE rate == FromBps(DeleveragingBonus) + FMul(FromBps(daily), Days(secs))
             most == FromBps(mostBps)
  <2>1. SecsPerDay \in Nat \ {0} /\ DeleveragingBonus \in Nat BY LiquidationAssumption
  <2>2. Days(secs) \in Int
    <3>1. secs * One \in Int BY Scale
    <3> QED BY <2>1, <3>1, Quotient DEF Days
  <2>3. FMul(FromBps(daily), Days(secs)) \in Int /\ FromBps(DeleveragingBonus) \in Int
    <3>1. FromBps(daily) \in Int /\ FromBps(DeleveragingBonus) \in Int BY <2>1, Conversions
    <3> QED BY <2>2, <3>1, FMulType
  <2>4. rate \in Int /\ most \in Int BY <2>3, Conversions
  <2>5. DeleveragingRate(o, daily, mostBps, secs) = Smaller(rate, Smaller(most, room))
    BY DEF DeleveragingRate
  <2> HIDE DEF rate, most, room
  <2> QED BY <1>1, <2>4, <2>5 DEF Smaller
<1>4. CASE reason = "ltv"
  <2> DEFINE most == FromBps(Capped(Larger(MaxBonus[debt], MaxBonus[coll]),
                                    GroupCap(o, debt, coll)))
             least == FromBps(Larger(MinBonus[debt], MinBonus[coll]))
             excess == LoanToValueOf(o.health) - UnhealthyLtv(o.health)
  <2>1. ~(NoFactorLtv(o.health) >= BadDebtPoint)
    <3>1. BadDebtPoint \in Int BY Conversions DEF BadDebtPoint
    <3> QED BY <1>1, <3>1
  <2>2. UnhealthyBonus(o, debt, coll) = Smaller(Smaller(Larger(least, excess), most), room)
    BY <2>1 DEF UnhealthyBonus
  <2>3. Bonus(o, rs, debt, coll) = UnhealthyBonus(o, debt, coll) BY <1>4 DEF Bonus
  <2> HIDE DEF most, least, excess
  <2> QED BY <1>2, <2>2, <2>3
<1>5. CASE reason = "called"
  <2>1. IsCalled(o) BY <1>5 DEF Reason
  <2>2. o.called - MarginPeriod \in Nat
    <3>1. MarginPeriod \in Nat /\ o.called \in Int
      BY LiquidationAssumption DEF ObligationRecords, NotMarked
    <3> QED BY <2>1, <3>1 DEF IsCalled
  <2> DEFINE r == BonusReserve(debt, coll)
             most == Capped(MaxBonus[r], GroupCap(o, debt, coll))
  <2>3. r \in Reserves BY DEF BonusReserve
  <2> HIDE DEF r
  <2>4. DailyIncrease[r] \in Nat /\ MaxBonus[r] \in Nat BY <2>3, ConfigType
  <2>5. most \in Nat BY <2>4, CappedType
  <2>6. Bonus(o, rs, debt, coll) = DeleveragingRate(o, DailyIncrease[r], most, o.called - MarginPeriod)
    BY <1>5 DEF Bonus, CalledBonus, r
  <2> HIDE DEF most
  <2> QED BY <1>3, <2>2, <2>4, <2>5, <2>6
<1>6. ASSUME NEW r \in Reserves, NEW crossed \in Nat \cup {NotCrossed}, IsOverLimit(o, r, crossed)
      PROVE  OverLimitBonus(o, r, crossed) <= room
  <2>1. ReservePeriod[r] \in Nat /\ DailyIncrease[r] \in Nat /\ MaxBonus[r] \in Nat BY ConfigType
  <2>2. crossed - ReservePeriod[r] \in Nat BY <1>6, <2>1 DEF IsOverLimit, NotCrossed
  <2> QED BY <1>3, <2>1, <2>2 DEF OverLimitBonus
<1>7. CASE reason = "depositLimit"
  <2>1. IsOverLimit(o, coll, rs[coll].depositCrossed) BY <1>7 DEF Reason
  <2>2. rs[coll].depositCrossed \in Nat \cup {NotCrossed} BY DEF ReserveRecords
  <2> QED BY <1>6, <1>7, <2>1, <2>2 DEF Bonus
<1>8. CASE reason = "borrowLimit"
  <2>1. IsOverLimit(o, debt, rs[debt].borrowCrossed) BY <1>8 DEF Reason
  <2>2. rs[debt].borrowCrossed \in Nat \cup {NotCrossed} BY DEF ReserveRecords
  <2> QED BY <1>6, <1>8, <2>1, <2>2 DEF Bonus
<1>9. CASE reason = "order"
  <2>1. Bonus(o, rs, debt, coll) = OrderBonus(o, rs, debt, coll) BY <1>9 DEF Bonus
  <2>2. PICK rate : OrderBonus(o, rs, debt, coll) = Smaller(rate, room) BY DEF OrderBonus
  <2> QED BY <1>2, <2>1, <2>2
<1>10. reason \in {"ltv", "called", "depositLimit", "borrowLimit", "order"}
  BY DEF Reason
<1> QED BY <1>4, <1>5, <1>7, <1>8, <1>9, <1>10

\* What is settled and taken: a fair share, but where all of the collateral is taken for
\* what it pays for, or the least that is given.
FairAmounts(d, c, p, q, liquidated, small, ltv, bonus) ==
  LET k == ltv + 1
      value == c * q
      total == FMul(FMul(FMul(d, p), FDiv(liquidated, d)), bonus + One)
      settle == IF total > value /\ ~small
                THEN FMul(liquidated, FDiv(value, total)) ELSE liquidated
      withdraw == IF total >= value THEN c
                  ELSE CollateralFor(FMul(FromNum(c), FDiv(total, value)), small)
      taken == withdraw * q
  IN /\ settle \in Nat
     /\ \/ k * taken <= FMul(settle, p) * One
        \/ /\ withdraw = c
           /\ k * taken <= (FMul(settle, p) + 1) * One + p + FMul(d, p) + 1
        \/ withdraw = DustAmount

\* The amounts of a liquidation, as numbers: of what is settled and what is taken for it.
LEMMA AmountsShare ==
  ASSUME NEW d \in Nat \ {0}, NEW c \in Nat, NEW p \in Nat, NEW q \in Nat, c * q # 0,
         NEW liquidated \in Nat, liquidated <= d, NEW small \in BOOLEAN,
         NEW ltv \in Nat, ltv < One, (ltv + 1) * (2 * One - ltv) <= One * One,
         NEW bonus \in Int, bonus <= One - ltv
  PROVE  FairAmounts(d, c, p, q, liquidated, small, ltv, bonus)
<1> DEFINE k == ltv + 1
           value == c * q
           part == FMul(FMul(d, p), FDiv(liquidated, d))
           total == FMul(part, bonus + One)
           settle == IF total > value /\ ~small
                     THEN FMul(liquidated, FDiv(value, total)) ELSE liquidated
           withdraw == IF total >= value THEN c
                       ELSE CollateralFor(FMul(FromNum(c), FDiv(total, value)), small)
           taken == withdraw * q
<1>1. value \in Nat \ {0} OBVIOUS
<1>2. k = ltv + 1 /\ value = c * q /\ taken = withdraw * q
  OBVIOUS
<1>3. part = FMul(FMul(d, p), FDiv(liquidated, d)) /\ total = FMul(part, bonus + One)
  OBVIOUS
<1>4. settle = IF total > value /\ ~small
               THEN FMul(liquidated, FDiv(value, total)) ELSE liquidated
  OBVIOUS
<1>5. withdraw = IF total >= value THEN c
                 ELSE CollateralFor(FMul(FromNum(c), FDiv(total, value)), small)
  OBVIOUS
<1> HIDE DEF k, value, part, total, settle, withdraw, taken
<1>11. p \in Int /\ d \in Int /\ value \in Int /\ liquidated \in Int BY <1>1
<1>12. part \in Nat /\ One * part <= liquidated * p
  BY <1>3, PartWorth
<1>13. total \in Int
  <2>1. bonus + One \in Int BY Scale
  <2> QED BY <1>3, <1>12, <2>1, FMulType
<1>14. \A x \in Int : x <= total => k * x <= part * One
  BY <1>2, <1>3, <1>12, TotalWithin
<1>15. part <= FMul(liquidated, p)
  <2>1. liquidated * p \in Int /\ One \in Nat \ {0} BY Scale
  <2> QED BY <1>12, <2>1, QuotientLeast DEF FMul
<1>16. FMul(liquidated, p) \in Nat /\ k \in Nat
  <2>1. FMul(liquidated, p) \in Nat BY <1>11, FMulType
  <2> QED BY <1>2, <2>1
<1>17. settle \in Nat
  <2>1. CASE total > value /\ ~small
    <3>1. total \in Nat \ {0} BY <1>1, <1>13, <2>1
    <3>2. FDiv(value, total) \in Nat BY <1>1, <1>11, <3>1, FDivType
    <3>3. FDiv(value, total) \in Int BY <3>2
    <3>4. FMul(liquidated, FDiv(value, total)) \in Nat BY <1>11, <3>2, <3>3, FMulType, Zenon
    <3> QED BY <1>4, <2>1, <3>4
  <2>2. CASE ~(total > value /\ ~small) BY <1>4, <2>2
  <2> QED BY <2>1, <2>2
<1> DEFINE Fair == k * taken <= FMul(settle, p) * One
           Whole == /\ withdraw = c
                    /\ k * taken <= (FMul(settle, p) + 1) * One + p + FMul(d, p) + 1
\* All of the share, up to the total, is fair.
<1>18. ASSUME settle = liquidated, taken \in Int, taken <= total
       PROVE  Fair
  <2>1. k * taken <= part * One BY <1>14, <1>18
  <2>2. part * One <= FMul(liquidated, p) * One
    <3> DEFINE x == FMul(liquidated, p)
    <3>1. x \in Nat /\ part <= x BY <1>15, <1>16
    <3> HIDE DEF x
    <3>2. part * One <= x * One BY <1>12, <3>1, Scale, Z3
    <3> QED BY <3>2 DEF x
  <2>3. k * taken \in Int /\ part * One \in Int /\ FMul(liquidated, p) * One \in Int
    BY <1>12, <1>16, <1>18, Scale
  <2> QED BY <1>18, <2>1, <2>2, <2>3
<1>19. ASSUME total > value, ~small PROVE Whole
  <2>1. settle = FMul(liquidated, FDiv(value, total)) /\ withdraw = c
    BY <1>1, <1>4, <1>5, <1>13, <1>19
  <2>2. taken = value BY <1>2, <2>1
  <2>3. total \in Nat \ {0} BY <1>1, <1>4, <1>5, <1>13, <1>19
  <2>4. k * total <= liquidated * p
    <3>1. k * total <= part * One BY <1>13, <1>14
    <3>2. part * One = One * part BY <1>12, Scale, Z3
    <3>3. k * total \in Int /\ part * One \in Int /\ liquidated * p \in Int
      BY <1>12, <1>13, <1>16, Scale
    <3> QED BY <1>12, <3>1, <3>2, <3>3
  <2>5. k * value <= (FMul(settle, p) + 1) * One + p + (liquidated * p) \div One + 1
    <3>1. value \in Nat BY <1>1
    <3> QED BY <1>16, <1>17, <2>1, <2>3, <2>4, <3>1, CutDownWorth
  <2>6. FMul(liquidated, p) <= FMul(d, p)
    <3>1. d \in Nat OBVIOUS
    <3> QED BY <3>1, FMulMonotone
  <2>7. FMul(liquidated, p) = (liquidated * p) \div One BY DEF FMul
  <2>8. Whole
    <3> DEFINE x == k * value
               y == (FMul(settle, p) + 1) * One
               f == FMul(liquidated, p)
               g == FMul(d, p)
    <3>1. x \in Int /\ y \in Int /\ f \in Int /\ g \in Int
      <4>1. FMul(settle, p) \in Int /\ FMul(d, p) \in Int
        <5>1. settle \in Int BY <1>17
        <5> QED BY <1>11, <5>1, FMulType, Zenon
      <4> QED BY <1>1, <1>16, <4>1, Scale
    <3>2. x <= y + p + f + 1 BY <2>5, <2>7
    <3>3. f <= g BY <2>6
    <3> HIDE DEF x, y, f, g
    <3>4. x <= y + p + g + 1 BY <3>1, <3>2, <3>3
    <3> QED BY <2>1, <2>2, <3>4 DEF x, y, g
  <2> QED BY <2>8, Zenon
<1>20. ASSUME ~(total > value /\ ~small), total >= value PROVE Fair
  <2>1. settle = liquidated /\ withdraw = c BY <1>4, <1>5, <1>20
  <2>2. taken = value BY <1>2, <2>1
  <2>3. taken \in Int /\ taken <= total BY <1>11, <1>13, <1>20, <2>2
  <2> QED BY <1>18, <2>1, <2>3, Zenon
<1>21. ASSUME ~(total >= value), withdraw # DustAmount PROVE Fair
  <2>1. settle = liquidated BY <1>1, <1>4, <1>13, <1>21
  <2>2. withdraw = ToFloor(FMul(FromNum(c), FDiv(total, value))) BY <1>5, <1>21 DEF CollateralFor
  <2>3. taken \in Int /\ taken <= total
    <3>1. c \in Nat /\ q \in Nat /\ c * q # 0 OBVIOUS
    <3>2. /\ ToFloor(FMul(FromNum(c), FDiv(total, c * q))) \in Int
          /\ ToFloor(FMul(FromNum(c), FDiv(total, c * q))) * q <= total
      BY <1>13, <3>1, WithdrawnWorth
    <3>3. withdraw = ToFloor(FMul(FromNum(c), FDiv(total, c * q))) /\ taken = withdraw * q
      BY <1>2, <2>2, Zenon
    <3>4. withdraw \in Int /\ taken <= total BY <3>2, <3>3, Zenon
    <3>5. q \in Int /\ withdraw * q \in Int BY <3>4
    <3> QED BY <3>3, <3>4, <3>5, Zenon
  <2> QED BY <1>18, <2>1, <2>3, Zenon
<1>22. Fair \/ Whole \/ withdraw = DustAmount
  <2> HIDE DEF Fair, Whole
  <2>1. CASE ~(total >= value) /\ withdraw # DustAmount BY <1>21, <2>1, Zenon
  <2>2. CASE total >= value BY <1>19, <1>20, <2>2, Zenon
  <2> QED BY <2>1, <2>2, Zenon
<1> QED BY <1>17, <1>22, Zenon DEF FairAmounts, k, value, part, total, settle, withdraw, taken

\* What a liquidation withdraws is worth no larger a share of the deposits than what it
\* settles is of the debt, but where it takes all of the collateral and settles what that
\* pays for, or gives the least that is given.
LEMMA AmountsWorth ==
  ASSUME NEW o \in ObligationRecords, NEW rs \in [Reserves -> ReserveRecords],
         NEW debt \in Reserves, NEW coll \in Reserves, NEW n \in Nat,
         rs[coll].price > 0, CanLiquidate(o, rs, debt, coll, n),
         o.health = HealthOf(o, rs), FineScale, NoFactorLtv(o.health) < BadDebtPoint
  PROVE  LET amounts == Amounts(o, rs, debt, coll, n)
             k == NoFactorLtv(o.health) + 1
             p == rs[debt].price
             taken == amounts.withdraw * rs[coll].price
             settled == FMul(amounts.settle, p)
         IN /\ amounts.settle \in Nat /\ amounts.withdraw \in Int
            /\ \/ k * taken <= settled * One
               \/ /\ amounts.withdraw = o.deposits[coll]
                  /\ k * taken <= (settled + 1) * One + p + FMul(o.debts[debt], p) + 1
               \/ amounts.withdraw = DustAmount
<1> DEFINE d == o.debts[debt]
           c == o.deposits[coll]
           p == rs[debt].price
           q == rs[coll].price
           ltv == NoFactorLtv(o.health)
           k == ltv + 1
           liquidated == LiquidatedDebt(o, rs, debt, coll, n)
           small == IsSmall(o, rs, debt, coll)
           bonus == Bonus(o, rs, debt, coll)
           part == FMul(FMul(d, p), FDiv(liquidated, d))
           total == FMul(part, bonus + One)
           value == c * q
           given == FMul(FromNum(c), FDiv(total, value))
           settle == IF total > value /\ ~small THEN FMul(liquidated, FDiv(value, total))
                     ELSE liquidated
           withdraw == IF total >= value THEN c ELSE CollateralFor(given, small)
           taken == withdraw * q
<1>1. /\ d \in Nat \ {0} /\ c \in Nat /\ o.health.deposited # 0
      /\ o.health.values[coll] \in Nat \ {0} /\ o.health.debtValues[debt] \in Nat
  BY HealthFields DEF CanLiquidate, Borrows
<1>2. o.health.debtValues[debt] # 0
  <2>1. Weighted(o, debt, o.health.debtValues[debt]) # 0 BY DEF CanLiquidate
  <2> QED BY <1>1, <2>1, WeightedType
<1>3. p \in Nat /\ q \in Nat \ {0} BY DEF ReserveRecords
<1>4. o.health.values[coll] = value /\ o.health.debtValues[debt] = FMul(d, p)
  <2>1. o.health.values[coll] = FMul(FromNum(c), q) /\ o.health.debtValues[debt] = FMul(d, p)
    BY DEF HealthOf, ValueOf
  <2>2. c \in Nat /\ q \in Nat BY <1>1, <1>3
  <2> HIDE DEF c, q, d, p
  <2>3. FMul(FromNum(c), q) = c * q BY <2>2, FromNumExact
  <2> QED BY <2>1, <2>3
<1>5. value \in Nat \ {0} BY <1>1, <1>4
<1>6. /\ Reason(o, rs, debt, coll) # "none"
      /\ Reason(o, rs, debt, coll) = "order" => OrdersEvaluable(o, rs, debt, coll)
  BY DEF CanLiquidate
<1>7. liquidated \in Nat /\ liquidated <= d
  <2>1. Reason(o, rs, debt, coll) = "order" => HitOrders(o, rs, debt, coll) # {}
    BY DEF Reason
  <2> QED BY <1>2, <2>1, LiquidatedDebtType
<1>8. ltv \in Nat /\ ltv < One /\ (ltv + 1) * (2 * One - ltv) <= One * One
  <2>1. ltv \in Nat BY <1>1, ToBadDebtType
  <2> HIDE DEF ltv
  <2> QED BY <2>1, ShareOfBonus DEF ltv
<1>9. bonus \in Int /\ bonus <= One - ltv
  <2>1. bonus \in Int BY <1>1, <1>6, BonusType
  <2>2. bonus <= ToBadDebt(o.health) BY <1>1, <1>6, BonusWithin
  <2>3. ToBadDebt(o.health) = One - ltv
    BY <1>8, Scale DEF ToBadDebt, SaturatingSub
  <2> QED BY <2>1, <2>2, <2>3
<1>10. Amounts(o, rs, debt, coll, n) = [settle |-> settle, repay |-> ToCeil(settle), withdraw |-> withdraw]
  BY <1>4 DEF Amounts
<1>11. withdraw \in Int /\ withdraw <= c
  BY <1>10, AmountsType
<1>14. small \in BOOLEAN BY DEF IsSmall
<1> HIDE DEF liquidated, small, bonus, ltv, p, q, c, d
<1>13. c * q # 0 BY <1>5
<1>12. /\ settle \in Nat
       /\ \/ k * taken <= FMul(settle, p) * One
          \/ /\ withdraw = c
             /\ k * taken <= (FMul(settle, p) + 1) * One + p + FMul(d, p) + 1
          \/ withdraw = DustAmount
  <2>1. d \in Nat \ {0} /\ c \in Nat BY <1>1
  <2>2. p \in Nat /\ q \in Nat BY <1>3
  <2> HIDE DEF k, total, value, settle, withdraw, taken
  <2>3. FairAmounts(d, c, p, q, liquidated, small, ltv, bonus)
    BY <2>1, <2>2, <1>7, <1>8, <1>9, <1>13, <1>14, AmountsShare
  <2> QED BY <2>3, Zenon DEF FairAmounts, k, part, total, value, given, settle, withdraw, taken
<1> QED BY <1>10, <1>11, <1>12 DEF d, p, q, c, ltv

\* A withdrawal that is a fair share leaves a loan to value that is no higher.
LEMMA FairShare ==
  ASSUME NEW b \in Nat, NEW d \in Nat \ {0}, NEW s \in Nat, s <= b, NEW x \in Int, x < d,
         NEW m \in Nat, m <= s, (FDiv(b, d) + 1) * x <= m * One
  PROVE  FDiv(b - s, d - x) <= FDiv(b, d)
<1>1. One \in Nat \ {0} BY Scale
<1>2. m * One <= s * One BY <1>1, Z3
<1>3. FDiv(b, d) \in Nat BY FDivType
<1>4. (FDiv(b, d) + 1) * x <= s * One
  <2> DEFINE y == (FDiv(b, d) + 1) * x
             u == m * One
             v == s * One
  <2>1. y \in Int /\ u \in Int /\ v \in Int BY <1>1, <1>3
  <2>2. y <= u /\ u <= v BY <1>2
  <2> HIDE DEF y, u, v
  <2>3. y <= v BY <2>1, <2>2
  <2> QED BY <2>3 DEF y, v
<1>5. b * x <= s * d
  <2>1. CASE x \in Nat BY <1>4, <2>1, ShareKept
  <2>2. CASE x < 0
    <3>1. b * x <= 0 /\ 0 <= s * d BY <2>2, Z3
    <3>2. b * x \in Int /\ s * d \in Int OBVIOUS
    <3> QED BY <3>1, <3>2
  <2> QED BY <2>1, <2>2
<1>6. (b - s) * d <= b * (d - x)
  <2>1. (b - s) * d = b * d - s * d /\ b * (d - x) = b * d - b * x BY Z3
  <2>2. b * d \in Int /\ s * d \in Int /\ b * x \in Int OBVIOUS
  <2> QED BY <1>5, <2>1, <2>2
<1>7. b - s \in Nat /\ d - x \in Nat \ {0} OBVIOUS
<1> DEFINE b1 == b - s
           d1 == d - x
<1> HIDE DEF b1, d1
<1>8. b1 \in Nat /\ d1 \in Nat \ {0} /\ b1 * d <= b * d1 BY <1>6, <1>7 DEF b1, d1
<1>9. FDiv(b1, d1) <= FDiv(b, d) BY <1>8, LtvNotHigher
<1> QED BY <1>9 DEF b1, d1

\* The same of a withdrawal of all of a collateral, but for what its roundings are worth.
LEMMA WholeShare ==
  ASSUME NEW b \in Nat, NEW d \in Nat \ {0}, NEW s \in Nat, s <= b, NEW x \in Nat, x < d,
         NEW m \in Nat, m <= s, NEW p \in Nat, NEW v \in Nat, v <= b,
         (FDiv(b, d) + 1) * x <= (m + 1) * One + p + v + 1
  PROVE  (b - s) * d <= b * (d - x) + ((b \div One) + (p \div One) + 3) * d
<1> DEFINE e == b \div One
           f == p \div One
           g == s + (e + f + 3)
           y == (FDiv(b, d) + 1) * x
           h == e + f + 3
<1>1. One \in Nat \ {0} BY Scale
<1>2. e \in Nat /\ b <= One * e + One /\ b < One * e + One BY <1>1, QuotientNatural
<1>3. f \in Nat /\ p <= One * f + One BY <1>1, QuotientNatural
<1> HIDE DEF e, f
<1>4. y \in Int
  <2>1. FDiv(b, d) \in Nat BY FDivType
  <2> QED BY <2>1
<1>5. y <= (m + 1) * One + p + v + 1 OBVIOUS
<1> HIDE DEF y
<1>6. (m + 1) * One <= (s + 1) * One BY <1>1, Z3
<1>7. g * One = (s + 1) * One + One * e + One * f + 2 * One BY <1>1, <1>2, <1>3, Z3
<1>8. One * e \in Int /\ One * f \in Int /\ (m + 1) * One \in Int /\ (s + 1) * One \in Int
      /\ g * One \in Int /\ g \in Nat
  BY <1>1, <1>2, <1>3
<1>9. y <= g * One
  <2> DEFINE a1 == (m + 1) * One
             a2 == (s + 1) * One
             a3 == One * e
             a4 == One * f
             a5 == g * One
  <2>1. /\ y <= a1 + p + v + 1 /\ a1 <= a2 /\ a5 = a2 + a3 + a4 + 2 * One
        /\ b < a3 + One /\ p <= a4 + One
        /\ a1 \in Int /\ a2 \in Int /\ a3 \in Int /\ a4 \in Int /\ a5 \in Int
    BY <1>2, <1>3, <1>5, <1>6, <1>7, <1>8
  <2> HIDE DEF a1, a2, a3, a4, a5
  <2>2. y <= a5 BY <1>1, <1>4, <2>1
  <2> QED BY <2>2 DEF a5
<1> HIDE DEF g
<1>10. b * x <= g * d
  <2>1. (FDiv(b, d) + 1) * x <= g * One BY <1>9 DEF y
  <2> QED BY <1>8, <2>1, ShareKept
<1>11. h \in Nat /\ g = s + h BY <1>2, <1>3 DEF g
<1> HIDE DEF h
<1>12. (b - s) * d <= b * (d - x) + h * d
  <2>1. (b - s) * d = b * d - s * d /\ b * (d - x) = b * d - b * x BY Z3
  <2>2. g * d = s * d + h * d BY <1>11, Z3
  <2>3. b * d \in Int /\ s * d \in Int /\ b * x \in Int /\ h * d \in Int BY <1>11
  <2> QED BY <1>10, <2>1, <2>2, <2>3
<1> QED BY <1>12 DEF h, e, f

DebtValues(o, rs) == [r \in Reserves |-> ValueOf(o.debts[r], rs, r)]

LEMMA BorrowedSum ==
  ASSUME NEW o \in ObligationRecords, NEW rs \in [Reserves -> ReserveRecords]
  PROVE  /\ HealthOf(o, rs).borrowed = SumFunctionOnSet(DebtValues(o, rs), Reserves)
         /\ HealthOf(o, rs).borrowed \in Nat
         /\ \A r \in Reserves : DebtValues(o, rs)[r] \in Nat
<1> DEFINE v == DebtValues(o, rs)
<1>1. HealthOf(o, rs).borrowed = Total(v, Borrows(o)) BY DEF HealthOf, DebtValues
<1>2. /\ \A r \in Reserves : v[r] \in Nat
      /\ \A r \in Reserves \ Borrows(o) : v[r] = 0
  <2>1. \A r \in Reserves : o.debts[r] \in Nat /\ rs[r].price \in Nat
    BY DEF ObligationRecords, ReserveRecords
  <2>2. ASSUME NEW r \in Reserves PROVE v[r] \in Nat /\ (r \notin Borrows(o) => v[r] = 0)
    <3>1. o.debts[r] \in Nat BY <2>1
    <3>2. v[r] = ValueOf(o.debts[r], rs, r) BY DEF DebtValues
    <3>3. v[r] \in Nat BY <3>1, <3>2, ValueType
    <3>4. ASSUME r \notin Borrows(o) PROVE v[r] = 0
      <4>1. o.debts[r] = 0 BY <3>1, <3>4 DEF Borrows
      <4>2. 0 * rs[r].price = 0 BY <2>1
      <4>3. 0 \div One = 0 BY Scale
      <4> QED BY <3>2, <4>1, <4>2, <4>3 DEF ValueOf, FMul
    <3> QED BY <3>3, <3>4
  <2> QED BY <2>2
<1>3. Borrows(o) \in SUBSET Reserves BY DEF Borrows
<1> HIDE DEF v
<1>4. Total(v, Borrows(o)) = SumFunctionOnSet(v, Reserves) /\ Total(v, Borrows(o)) \in Nat
  BY <1>2, <1>3, TotalSum
<1> QED BY <1>1, <1>2, <1>4 DEF v

\* One debt changes, or one deposit: its value in the sum does.
LEMMA BorrowedChanges ==
  ASSUME NEW o \in ObligationRecords, NEW t \in ObligationRecords,
         NEW rs \in [Reserves -> ReserveRecords], NEW r \in Reserves,
         \A x \in Reserves \ {r} : t.debts[x] = o.debts[x]
  PROVE  /\ HealthOf(t, rs).borrowed =
              HealthOf(o, rs).borrowed - ValueOf(o.debts[r], rs, r) + ValueOf(t.debts[r], rs, r)
         /\ ValueOf(o.debts[r], rs, r) <= HealthOf(o, rs).borrowed
<1> DEFINE f == DebtValues(o, rs)
           g == DebtValues(t, rs)
<1>1. /\ HealthOf(o, rs).borrowed = SumFunctionOnSet(f, Reserves)
      /\ HealthOf(t, rs).borrowed = SumFunctionOnSet(g, Reserves)
      /\ \A x \in Reserves : f[x] \in Nat /\ g[x] \in Nat
  BY BorrowedSum
<1>2. f[r] = ValueOf(o.debts[r], rs, r) /\ g[r] = ValueOf(t.debts[r], rs, r) BY DEF DebtValues
<1>3. \A x \in Reserves \ {r} : f[x] = g[x] BY DEF DebtValues
<1>4. IsFiniteSet(Reserves) /\ IsFiniteSet(Reserves \ {r})
  BY PositionAssumption, FS_RemoveElement
<1> HIDE DEF f, g
<1>5. \A x \in Reserves : f[x] \in Int /\ g[x] \in Int BY <1>1
<1>6. SumFunctionOnSet(g, Reserves) = SumFunctionOnSet(f, Reserves) - f[r] + g[r]
  BY <1>3, <1>4, <1>5, SumUpdate
<1>7. f[r] <= SumFunctionOnSet(f, Reserves)
  <2>1. SumFunctionOnSet(f, Reserves) = f[r] + SumFunctionOnSet(f, Reserves \ {r})
    BY <1>4, <1>5, SumRemove
  <2>2. SumFunctionOnSet(f, Reserves \ {r}) \in Nat BY <1>1, <1>4, SumNatural
  <2> QED BY <1>1, <2>1, <2>2
<1> QED BY <1>1, <1>2, <1>6, <1>7

LEMMA DepositedChanges ==
  ASSUME NEW o \in ObligationRecords, NEW t \in ObligationRecords,
         NEW rs \in [Reserves -> ReserveRecords], NEW r \in Reserves,
         \A x \in Reserves \ {r} : t.deposits[x] = o.deposits[x]
  PROVE  HealthOf(t, rs).deposited =
           HealthOf(o, rs).deposited - o.deposits[r] * rs[r].price + t.deposits[r] * rs[r].price
<1> DEFINE f == DepositTerms(o, rs)
           g == DepositTerms(t, rs)
<1>1. /\ HealthOf(o, rs).deposited = SumFunctionOnSet(f, Reserves)
      /\ HealthOf(t, rs).deposited = SumFunctionOnSet(g, Reserves)
  BY HealthSums
<1>2. \A x \in Reserves : f[x] \in Int /\ g[x] \in Int BY TermsType
<1>3. f[r] = o.deposits[r] * rs[r].price /\ g[r] = t.deposits[r] * rs[r].price
  <2>1. o.deposits[r] \in Nat /\ t.deposits[r] \in Nat /\ rs[r].price \in Nat
    BY DEF ObligationRecords, ReserveRecords
  <2> QED BY <2>1, FromNumExact DEF DepositTerms, ValueOf
<1>4. \A x \in Reserves \ {r} : f[x] = g[x] BY DEF DepositTerms
<1>5. IsFiniteSet(Reserves) BY PositionAssumption
<1> HIDE DEF f, g
<1>6. SumFunctionOnSet(g, Reserves) = SumFunctionOnSet(f, Reserves) - f[r] + g[r]
  BY <1>2, <1>4, <1>5, SumUpdate
<1> QED BY <1>1, <1>3, <1>6

\* What the positions are after a liquidation.
LEMMA LiquidatedPositions ==
  ASSUME NEW o, SoundRecord(o), NEW rs \in [Reserves -> ReserveRecords],
         NEW debt \in Reserves, NEW coll \in Reserves, NEW n \in Nat,
         rs[coll].price > 0, CanLiquidate(o, rs, debt, coll, n)
  PROVE  LET t == Liquidated(o, rs, debt, coll, n)
             amounts == Amounts(o, rs, debt, coll, n)
         IN /\ t.debts[debt] = o.debts[debt] - amounts.settle
            /\ t.deposits[coll] = o.deposits[coll] - amounts.withdraw
            /\ t.group = o.group
            /\ \A x \in Reserves \ {debt} : t.debts[x] = o.debts[x]
            /\ \A x \in Reserves \ {coll} : t.deposits[x] = o.deposits[x]
<1> DEFINE amounts == Amounts(o, rs, debt, coll, n)
           x == o.debts[debt] - amounts.settle
           y == o.deposits[coll] - amounts.withdraw
           seized == Seized(o, debt, coll, amounts)
           t == Liquidated(o, rs, debt, coll, n)
<1>1. o \in ObligationRecords BY DEF SoundRecord, Coherent
<1>2. /\ seized.debts = [o.debts EXCEPT ![debt] = x]
      /\ seized.deposits = [o.deposits EXCEPT ![coll] = y]
      /\ seized.group = o.group
  <2> HIDE DEF amounts
  <2> QED BY <1>1 DEF Seized, MarkedStale, ObligationRecords
<1>3. /\ t.debts = seized.debts /\ t.deposits = seized.deposits /\ t.group = seized.group
  <2>1. t = IF ~seized.hasDebt THEN OrdersRemoved(seized)
            ELSE IF Reason(o, rs, debt, coll) = "order"
            THEN OrderConsumed(seized, OrderHit(o, rs, debt, coll), amounts.repay)
            ELSE seized
    BY DEF Liquidated
  <2> HIDE DEF amounts, t
  <2>2. \A i, repaid : LET u == OrderConsumed(seized, i, repaid)
                       IN /\ u.debts = seized.debts /\ u.deposits = seized.deposits
                          /\ u.group = seized.group
    BY <1>1 DEF OrderConsumed, Seized, MarkedStale, ObligationRecords
  <2>3. LET u == OrdersRemoved(seized)
        IN u.debts = seized.debts /\ u.deposits = seized.deposits /\ u.group = seized.group
    BY <1>1 DEF OrdersRemoved, Seized, MarkedStale, ObligationRecords
  <2> HIDE DEF seized
  <2> QED BY <2>1, <2>2, <2>3
<1>4. o.debts \in [Reserves -> Nat] /\ o.deposits \in [Reserves -> Nat]
  BY <1>1 DEF ObligationRecords
<1> HIDE DEF seized, t, amounts
<1> QED BY <1>2, <1>3, <1>4 DEF t, amounts

\* A liquidation of an obligation whose values are those of now, that takes no dust.
Liquidates(o, rs, us, debt, coll, n, t, k) ==
  /\ SoundRecord(o) /\ \A x \in Reserves : us[x].price = rs[x].price
  /\ rs[coll].price > 0 /\ CanLiquidate(o, rs, debt, coll, n)
  /\ o.health = HealthOf(o, rs) /\ NoFactorLtv(o.health) < BadDebtPoint
  /\ t = Liquidated(o, rs, debt, coll, n) /\ k = HealthOf(t, us) /\ k.deposited > 0
  /\ o.debts[debt] > t.debts[debt] /\ o.deposits[coll] > t.deposits[coll] =>
       ValueOf(o.debts[debt] - t.debts[debt], rs, debt)
         >= ValueOf(FromNum(DustAmount), rs, coll)
  /\ t.debts # o.debts /\ t.deposits # o.deposits

\* The share of the debt is no higher, or by what the roundings are worth.
Helped(o, t, k, price) ==
  \/ NoFactorLtv(k) <= NoFactorLtv(o.health)
  \/ /\ Deposits(t) # Deposits(o)
     /\ k.borrowed * o.health.deposited
          <= o.health.borrowed * k.deposited
             + ((o.health.borrowed \div One) + (price \div One) + 3) * o.health.deposited

LEMMA LiquidationHelpsAt ==
  ASSUME FineScale,
         NEW o, NEW rs \in [Reserves -> ReserveRecords], NEW us \in [Reserves -> ReserveRecords],
         NEW debt \in Reserves, NEW coll \in Reserves, NEW n \in Nat, NEW t, NEW k,
         Liquidates(o, rs, us, debt, coll, n, t, k)
  PROVE  Helped(o, t, k, rs[debt].price)
<1>0. /\ SoundRecord(o) /\ \A x \in Reserves : us[x].price = rs[x].price
      /\ rs[coll].price > 0 /\ CanLiquidate(o, rs, debt, coll, n)
      /\ o.health = HealthOf(o, rs) /\ NoFactorLtv(o.health) < BadDebtPoint
      /\ t = Liquidated(o, rs, debt, coll, n) /\ k = HealthOf(t, us) /\ k.deposited > 0
      /\ o.debts[debt] > t.debts[debt] /\ o.deposits[coll] > t.deposits[coll] =>
           ValueOf(o.debts[debt] - t.debts[debt], rs, debt)
             >= ValueOf(FromNum(DustAmount), rs, coll)
      /\ t.debts # o.debts /\ t.deposits # o.deposits
  BY Zenon DEF Liquidates
<1> DEFINE amounts == Amounts(o, rs, debt, coll, n)
           settle == amounts.settle
           withdraw == amounts.withdraw
           p == rs[debt].price
           q == rs[coll].price
           d == o.debts[debt]
           c == o.deposits[coll]
           m == FMul(settle, p)
           b == o.health.borrowed
           w == o.health.deposited
           s == FMul(d, p) - FMul(d - settle, p)
           x == withdraw * q
           ltv == FDiv(b, w)
<1>1. o \in ObligationRecords /\ debt \in Borrows(o) /\ coll \in Deposits(o)
      /\ withdraw # 0 /\ withdraw <= c
  BY <1>0 DEF SoundRecord, Coherent, CanLiquidate
<1>2. /\ b \in Nat /\ w \in Nat \ {0} /\ d \in Nat /\ c \in Nat /\ p \in Nat /\ q \in Nat \ {0}
  <2>1. w # 0 BY <1>0 DEF CanLiquidate
  <2>2. b \in Nat /\ w \in Nat /\ d \in Nat /\ c \in Nat BY <1>1, HealthFields
  <2>3. p \in Nat /\ q \in Nat \ {0} BY <1>0 DEF ReserveRecords
  <2> HIDE DEF b, w, d, c, p, q
  <2> QED BY <2>1, <2>2, <2>3
<1>3. /\ t.debts[debt] = d - settle /\ t.deposits[coll] = c - withdraw /\ t.group = o.group
      /\ \A y \in Reserves \ {debt} : t.debts[y] = o.debts[y]
      /\ \A y \in Reserves \ {coll} : t.deposits[y] = o.deposits[y]
  BY <1>0, LiquidatedPositions
<1>4. SoundRecord(t) /\ t \in ObligationRecords
  <2>2. SoundRecord(o) /\ rs[coll].price > 0 /\ CanLiquidate(o, rs, debt, coll, n)
    BY <1>0
  <2>0. SoundRecord(Liquidated(o, rs, debt, coll, n)) BY <2>2, LiquidateFacts
  <2>3. t = Liquidated(o, rs, debt, coll, n) BY <1>0
  <2>1. SoundRecord(t) BY <2>0, <2>3, Zenon
  <2> QED BY <2>1 DEF SoundRecord, Coherent
<1>5. d - settle \in Nat /\ c - withdraw \in Nat
  BY <1>3, <1>4, HealthFields
<1>6. NoFactorLtv(o.health) = ltv
  BY <1>2 DEF NoFactorLtv, Ltv
<1>7. /\ settle \in Nat /\ withdraw \in Int
      /\ \/ (ltv + 1) * x <= m * One
         \/ withdraw = c /\ (ltv + 1) * x <= (m + 1) * One + p + FMul(d, p) + 1
         \/ withdraw = DustAmount
  BY <1>0, <1>1, <1>6, AmountsWorth
<1> HIDE DEF amounts
<1>8. settle <= d
  <2> HIDE DEF settle, d
  <2> QED BY <1>2, <1>5, <1>7
<1>9. HealthOf(t, rs) = k BY <1>0, <1>3, HealthSame
\* The debt's value falls by s, at least what is settled is worth.
<1>10. /\ FMul(d, p) \in Nat /\ FMul(d - settle, p) \in Nat /\ m \in Nat
       /\ s \in Int /\ m <= s
  <2> DEFINE a == d - settle
  <2>1. a \in Nat /\ a + settle = d /\ settle \in Nat BY <1>5, <1>7, <1>2
  <2> HIDE DEF a, settle, d, p
  <2>2. FMul(a, p) + m <= FMul(a + settle, p) BY <1>2, <2>1, FMulParts, Zenon
  <2>3. d \in Int /\ a \in Int /\ settle \in Int /\ p \in Int BY <1>2, <2>1
  <2>4. FMul(d, p) \in Nat BY <1>2, <2>3, FMulType, Zenon
  <2>5. FMul(a, p) \in Nat BY <1>2, <2>1, <2>3, FMulType, Zenon
  <2>6. m \in Nat BY <1>2, <2>1, <2>3, FMulType, Zenon
  <2>7. FMul(a + settle, p) = FMul(d, p) BY <2>1, Zenon
  <2> DEFINE u1 == FMul(a, p)
             u2 == FMul(d, p)
  <2>8. u1 \in Nat /\ u2 \in Nat /\ m \in Nat /\ u1 + m <= u2
    BY <2>2, <2>4, <2>5, <2>6, <2>7, Zenon
  <2>9. s = u2 - u1 BY Zenon DEF a
  <2> HIDE DEF m, s, u1, u2
  <2>10. s \in Int /\ m <= s BY <2>8, <2>9
  <2> QED BY <2>4, <2>5, <2>6, <2>10, Zenon DEF a
<1>11. k.borrowed = b - s /\ k.borrowed \in Nat /\ FMul(d, p) <= b
  <2> DEFINE u == FMul(d, p)
             v == FMul(d - settle, p)
  <2>1. /\ k.borrowed = b - ValueOf(d, rs, debt) + ValueOf(d - settle, rs, debt)
        /\ ValueOf(d, rs, debt) <= b
    BY <1>0, <1>1, <1>3, <1>4, <1>9, BorrowedChanges
  <2>2. k.borrowed = b - u + v /\ u <= b /\ s = u - v BY <2>1 DEF ValueOf
  <2>3. u \in Nat /\ v \in Nat BY <1>10
  <2>4. k.borrowed \in Nat BY <1>4, <1>9, BorrowedSum
  <2> HIDE DEF b, s, u, v
  <2>5. k.borrowed = b - s BY <1>2, <2>2, <2>3
  <2> QED BY <2>2, <2>4, <2>5 DEF u
\* The deposits' value falls by x, exactly.
<1>12. k.deposited = w - x /\ x \in Int /\ x < w
  <2> DEFINE y == c - withdraw
  <2>1. k.deposited = w - c * q + y * q
    BY <1>0, <1>1, <1>3, <1>4, <1>9, DepositedChanges
  <2>2. y \in Nat /\ c = y + withdraw
    <3> HIDE DEF c, withdraw
    <3> QED BY <1>2, <1>5, <1>7
  <2>3. x = withdraw * q OBVIOUS
  <2> HIDE DEF y, c, q, withdraw, w, x
  <2>4. c * q = y * q + x /\ y * q \in Int /\ x \in Int
    <3>1. c * q = y * q + withdraw * q BY <1>2, <1>7, <2>2, Z3
    <3>2. y * q \in Int /\ withdraw * q \in Int BY <1>2, <1>7, <2>2
    <3> QED BY <2>3, <3>1, <3>2
  <2>5. k.deposited = w - x
    <3> DEFINE u == c * q
               v == y * q
    <3>1. k.deposited = w - u + v /\ u = v + x /\ v \in Int /\ x \in Int BY <2>1, <2>4
    <3> HIDE DEF u, v
    <3> QED BY <1>2, <3>1
  <2> QED BY <1>0, <1>2, <2>4, <2>5
<1>13. s \in Nat /\ s <= b
  <2> HIDE DEF b, s, m
  <2> QED BY <1>2, <1>10, <1>11
<1>14. NoFactorLtv(k) = FDiv(b - s, w - x)
  BY <1>11, <1>12, <1>2 DEF NoFactorLtv, Ltv
<1>15. CASE (ltv + 1) * x <= m * One
  <2> HIDE DEF b, w, s, x, m
  <2>1. FDiv(b - s, w - x) <= FDiv(b, w)
    BY <1>2, <1>10, <1>12, <1>13, <1>15, FairShare, Zenon
  <2> QED BY <1>6, <1>14, <2>1 DEF Helped
<1>16. CASE withdraw = c /\ (ltv + 1) * x <= (m + 1) * One + p + FMul(d, p) + 1
  <2>1. Deposits(t) # Deposits(o)
    <3>1. t.deposits[coll] = 0 BY <1>2, <1>3, <1>16
    <3>2. coll \notin Deposits(t) BY <3>1 DEF Deposits
    <3> QED BY <1>1, <3>2
  <2>0. x \in Nat BY <1>2, <1>16
  <2> DEFINE v == FMul(d, p)
  <2>2. v \in Nat /\ v <= b BY <1>10, <1>11
  <2>3. (ltv + 1) * x <= (m + 1) * One + p + v + 1 BY <1>16
  <2> HIDE DEF b, w, s, x, m, p, v
  <2>4. (b - s) * w <= b * (w - x) + ((b \div One) + (p \div One) + 3) * w
    BY <1>2, <1>10, <1>12, <1>13, <2>0, <2>2, <2>3, WholeShare, Zenon
  <2>5. k.borrowed * w <= b * k.deposited + ((b \div One) + (p \div One) + 3) * w
    BY <1>11, <1>12, <2>4
  <2> QED BY <2>1, <2>5 DEF Helped, b, w, p
<1>17. CASE withdraw = DustAmount
  <2>1. d > d - settle /\ c > c - withdraw
    <3>1. settle # 0
      <4>1. SUFFICES ASSUME settle = 0 PROVE t.debts = o.debts BY <1>0
      <4>2. t.debts[debt] = o.debts[debt] BY <1>2, <1>3, <4>1
      <4>3. t.debts \in [Reserves -> Nat] /\ o.debts \in [Reserves -> Nat]
        BY <1>1, <1>4 DEF ObligationRecords
      <4> QED BY <1>3, <4>2, <4>3
    <3>2. withdraw \in Nat /\ withdraw # 0 BY <1>1, <1>17, LiquidationAssumption
    <3> HIDE DEF settle, withdraw, c, d
    <3> QED BY <1>2, <1>7, <3>1, <3>2
  <2>2. ValueOf(d - t.debts[debt], rs, debt) >= ValueOf(FromNum(DustAmount), rs, coll)
    BY <1>0, <1>3, <2>1
  <2>3. ValueOf(FromNum(DustAmount), rs, coll) = x
    <3>1. withdraw \in Nat /\ q \in Nat BY <1>2, <1>17, LiquidationAssumption
    <3> HIDE DEF withdraw, q
    <3>2. FMul(FromNum(withdraw), q) = withdraw * q BY <3>1, FromNumExact, Zenon
    <3> QED BY <1>17, <3>2 DEF ValueOf, q
  <2>4. ValueOf(d - t.debts[debt], rs, debt) = m
    <3>1. d - t.debts[debt] = settle BY <1>2, <1>3, <1>7
    <3> QED BY <3>1 DEF ValueOf
  <2>5. x <= m BY <1>10, <1>12, <2>2, <2>3, <2>4
  <2>8. x \in Nat BY <1>2, <1>17, LiquidationAssumption
  <2>6. ltv \in Nat /\ ltv < One
    <3>1. ltv \in Nat BY <1>2, FDivType
    <3> HIDE DEF ltv
    <3>2. NoFactorLtv(o.health) = ltv BY <1>6
    <3> QED BY <1>0, <3>1, <3>2, ShareOfBonus
  <2>7. (ltv + 1) * x <= m * One
    <3> HIDE DEF ltv, x, m
    <3>1. ltv + 1 <= One /\ One \in Nat BY <2>6, Scale
    <3>2. (ltv + 1) * x <= One * x BY <2>8, <2>6, <3>1, Z3
    <3>3. One * x <= One * m BY <1>10, <2>8, <2>5, <3>1, Z3
    <3>4. One * m = m * One BY <1>10, <3>1, Z3
    <3> DEFINE u1 == (ltv + 1) * x
               u2 == One * x
               u3 == m * One
    <3>5. u1 \in Int /\ u2 \in Int /\ u3 \in Int BY <1>10, <1>12, <2>6, <3>1
    <3>6. u1 <= u2 /\ u2 <= u3 BY <3>2, <3>3, <3>4
    <3> HIDE DEF u1, u2, u3
    <3>7. u1 <= u3 BY <3>5, <3>6
    <3> QED BY <3>7 DEF u1, u3
  <2> QED BY <1>15, <2>7
<1> QED BY <1>7, <1>15, <1>16, <1>17

LEMMA LiquidatorHelps ==
  ASSUME FineScale, IInv, IInv'
  PROVE  HelpsPastRounding
<1> DEFINE before == HealthOf(obligation, reserves)
           after == HealthOf(obligation', reserves')
<1>0. SUFFICES
        ASSUME obligation'.debts # obligation.debts, obligation'.deposits # obligation.deposits,
               pricesSeen = Prices, LiquidatorNext, ~IsDust(obligation, obligation'),
               NoFactorLtv(before) < BadDebtPoint, after.deposited > 0
        PROVE  \/ NoFactorLtv(after) <= NoFactorLtv(before)
               \/ /\ Deposits(obligation') # Deposits(obligation)
                  /\ \E r \in Reserves :
                       after.borrowed * before.deposited
                         <= before.borrowed * after.deposited
                            + ((before.borrowed \div One) + (reserves[r].price \div One) + 3)
                                * before.deposited
  BY DEF HelpsPastRounding
<1>1. PICK debt \in Reserves, coll \in Reserves, n \in LiquidationAmounts :
        LiquidateObligation(debt, coll, n)
  BY <1>0 DEF LiquidatorNext
<1>2. /\ CanLiquidate(obligation, reserves, debt, coll, n)
      /\ obligation' = Liquidated(obligation, reserves, debt, coll, n)
      /\ reserves' = Stale({debt, coll})
  BY <1>1 DEF LiquidateObligation
<1>3. /\ SoundRecord(obligation) /\ ReservesInv /\ ReservesInv'
      /\ obligation \in ObligationRecords /\ n \in Nat
  BY LendingAssumption DEF IInv, SoundRecord, Coherent
<1>4. /\ reserves \in [Reserves -> ReserveRecords] /\ reserves' \in [Reserves -> ReserveRecords]
      /\ \A x \in Reserves : reserves'[x].price = reserves[x].price
  <2>1. ReservesInv /\ ReservesInv' BY <1>3
  <2>2. reserves' = Stale({debt, coll}) BY <1>2
  <2>3. PICK members : reserves' = Stale(members) BY <2>2
  <2> QED BY <2>1, <2>3, SamePrices
<1>5. reserves[coll].price > 0
  <2>1. IsFresh(reserves[coll], LiquidationChecks) BY <1>2 DEF CanLiquidate
  <2>2. reserves[coll].level # NoChecks BY <2>1 DEF IsFresh, LiquidationChecks, NoChecks
  <2> QED BY <1>3, <2>2 DEF ReservesInv
<1>6. obligation.health = before
  <2>1. obligation.fresh BY <1>2 DEF CanLiquidate, IsFresh
  <2> QED BY <1>0, <2>1, KnownHealth
<1>7. obligation.debts[debt] > obligation'.debts[debt]
      /\ obligation.deposits[coll] > obligation'.deposits[coll] =>
        ValueOf(obligation.debts[debt] - obligation'.debts[debt], reserves, debt)
          >= ValueOf(FromNum(DustAmount), reserves, coll)
  <2> DEFINE a == obligation.debts[debt] - obligation'.debts[debt]
             u == ValueOf(a, reserves, debt)
             v == ValueOf(FromNum(DustAmount), reserves, coll)
  <2>1. SoundRecord(obligation') BY DEF IInv
  <2>2. a \in Int /\ FromNum(DustAmount) \in Int
        /\ obligation.debts[debt] \in Nat /\ obligation'.debts[debt] \in Nat
        /\ obligation.deposits[coll] \in Nat /\ obligation'.deposits[coll] \in Nat
    BY <1>3, <2>1, Conversions, LiquidationAssumption DEF SoundRecord, Coherent, ObligationRecords
  <2> HIDE DEF a
  <2>3. u \in Int /\ v \in Int BY <1>4, <2>2, ValueType
  <2>4. obligation'.debts[debt] < obligation.debts[debt]
        /\ obligation'.deposits[coll] < obligation.deposits[coll] => ~(u < v)
    BY <1>0 DEF IsDust, a
  <2> HIDE DEF u, v
  <2>5. obligation.debts[debt] > obligation'.debts[debt]
        /\ obligation.deposits[coll] > obligation'.deposits[coll] => u >= v
    BY <2>2, <2>3, <2>4
  <2> QED BY <2>5 DEF u, v, a
<1> DEFINE o == obligation
           t == obligation'
           rs == reserves
           us == reserves'
<1>8. before.deposited = o.health.deposited /\ before.borrowed = o.health.borrowed
  BY <1>6
<1>9. SoundRecord(o) /\ \A x \in Reserves : us[x].price = rs[x].price
  BY <1>3, <1>4
<1>12. rs[coll].price > 0 /\ CanLiquidate(o, rs, debt, coll, n)
  BY <1>2, <1>5
<1>13. o.health = HealthOf(o, rs) /\ NoFactorLtv(o.health) < BadDebtPoint
  BY <1>0, <1>6
<1>14. t = Liquidated(o, rs, debt, coll, n) /\ after = HealthOf(t, us) /\ after.deposited > 0
  BY <1>0, <1>2
<1>15. o.debts[debt] > t.debts[debt] /\ o.deposits[coll] > t.deposits[coll] =>
         ValueOf(o.debts[debt] - t.debts[debt], rs, debt)
           >= ValueOf(FromNum(DustAmount), rs, coll)
  BY <1>7
<1>16. t.debts # o.debts /\ t.deposits # o.deposits
  BY <1>0
<1>10. rs \in [Reserves -> ReserveRecords] /\ us \in [Reserves -> ReserveRecords] /\ n \in Nat
  BY <1>3, <1>4
<1> HIDE DEF before, after, o, t, rs, us
<1>17. Liquidates(o, rs, us, debt, coll, n, t, after)
  BY <1>9, <1>12, <1>13, <1>14, <1>15, <1>16, Zenon DEF Liquidates
<1>11. Helped(o, t, after, rs[debt].price)
  BY <1>10, <1>17, LiquidationHelpsAt
<1> QED BY <1>6, <1>11 DEF Helped, o, t, rs, us, before, after

-------------------------------------------------------------------------------
(* The rules of liquidations leave a pair                                     *)

\* What a liquidation of a pair demands of the pair, whatever its reason.
RanksFirst(o, debt, coll) ==
  /\ debt \in Borrows(o) /\ coll \in Deposits(o)
  /\ ThresholdOf(o, coll) # 0
  /\ o.health.values[coll] # 0
  /\ Weighted(o, debt, o.health.debtValues[debt]) # 0
  /\ \A reason \in Reasons : HasPriority(o, reason, debt, coll)

\* The least values from which positions count for the priorities leave out those
\* worth nothing, or there are none.
CountsOnlyWorth(o) ==
  /\ SkipLtvBelow > 0 \/ \A r \in Deposits(o) : o.health.values[r] # 0
  /\ SkipFactorBelow > 0 \/ \A r \in Borrows(o) : o.health.debtValues[r] # 0

FactorsOf(o) == [r \in Reserves |-> FactorOf(o, r)]

\* The positions that count for the priorities.
Seizable(o) == {r \in Deposits(o) : o.health.values[r] >= SkipLtvBelow /\ ThresholdOf(o, r) > 0}
Payable(o) == {r \in Borrows(o) : o.health.debtValues[r] >= SkipFactorBelow}

\* The terms and the two extremes of a valuation, by the names used here.
LEMMA PriorityParts ==
  ASSUME NEW o \in ObligationRecords, NEW rs \in [Reserves -> ReserveRecords],
         o.health = HealthOf(o, rs)
  PROVE  /\ \A r \in Reserves :
              /\ o.health.values[r] = DepositTerms(o, rs)[r]
              /\ Weighted(o, r, o.health.debtValues[r]) = DebtTerms(o, rs)[r]
         /\ o.health.lowestThreshold = Lowest(Thresholds(o), Seizable(o), U8Max)
         /\ o.health.highestFactor = Highest(FactorsOf(o), Payable(o), 100)
<1> DEFINE d == DepositTerms(o, rs)
           v == [r \in Reserves |-> ValueOf(o.debts[r], rs, r)]
           w == DebtTerms(o, rs)
           health ==
  [values |-> d, debtValues |-> v,
   deposited |-> Total(d, Deposits(o)),
   borrowed |-> Total(v, Borrows(o)),
   debt |-> Total(w, Borrows(o)),
   allowed |-> Smaller(BackedBy(o, rs, Ltvs(o)), GlobalAllowed),
   unhealthy |-> BackedBy(o, rs, Thresholds(o)),
   lowestThreshold |->
     Lowest(Thresholds(o),
            {r \in Deposits(o) : d[r] >= SkipLtvBelow /\ Thresholds(o)[r] > 0}, U8Max),
   lowestLtv |-> Lowest(Ltvs(o), Deposits(o), U8Max),
   highestFactor |->
     Highest(FactorsOf(o), {r \in Borrows(o) : v[r] >= SkipFactorBelow}, 100),
   obsolete |-> (Deposits(o) \cup Borrows(o)) \cap Obsolete # {},
   disabled |-> ~InGroup(o) /\ Deposits(o) \cap GroupOnly # {}]
<1>1. w = [r \in Reserves |-> Weighted(o, r, v[r])] BY DEF DebtTerms
<1>2. HealthOf(o, rs) = health
  BY <1>1 DEF HealthOf, DepositTerms, Ltvs, Thresholds, FactorsOf
<1>3. \A r \in Reserves : Thresholds(o)[r] = ThresholdOf(o, r) BY DEF Thresholds
<1>4. Deposits(o) \subseteq Reserves BY DEF Deposits
<1> HIDE DEF d, v, w
<1>5. o.health.values = d /\ o.health.debtValues = v BY <1>2
<1>6. Seizable(o) = {r \in Deposits(o) : d[r] >= SkipLtvBelow /\ Thresholds(o)[r] > 0}
  BY <1>3, <1>4, <1>5 DEF Seizable
<1>7. Payable(o) = {r \in Borrows(o) : v[r] >= SkipFactorBelow} BY <1>5 DEF Payable
<1>8. /\ o.health.lowestThreshold = Lowest(Thresholds(o), Seizable(o), U8Max)
      /\ o.health.highestFactor = Highest(FactorsOf(o), Payable(o), 100)
  BY <1>2, <1>6, <1>7
<1>9. \A r \in Reserves : Weighted(o, r, o.health.debtValues[r]) = w[r] BY <1>1, <1>5
<1> QED BY <1>5, <1>8, <1>9 DEF d, w

\* The collateral with the lowest threshold.
LEMMA CollateralRanks ==
  ASSUME NEW o \in ObligationRecords, NEW rs \in [Reserves -> ReserveRecords],
         o.health = HealthOf(o, rs), o.health.unhealthy > 0, CountsOnlyWorth(o)
  PROVE  \E coll \in Deposits(o) :
           /\ ThresholdOf(o, coll) # 0 /\ o.health.values[coll] # 0
           /\ ThresholdOf(o, coll) <= o.health.lowestThreshold
<1> DEFINE S == Seizable(o)
           t == Thresholds(o)
           Values == {t[r] : r \in S} \cup {U8Max}
           low == Lowest(t, S, U8Max)
<1>1. o.health.lowestThreshold = low BY PriorityParts
<1>2. S \in SUBSET Reserves /\ S \subseteq Deposits(o) BY DEF Seizable, Deposits
<1>3. \A r \in Reserves : t[r] = ThresholdOf(o, r) /\ t[r] \in Nat BY PercentsType DEF Thresholds
<1>4. \A r \in Reserves : o.health.values[r] \in Nat BY HealthFields
<1>5. low \in Values
  <2>1. Values \subseteq Int /\ U8Max \in Values BY <1>2, <1>3 DEF U8Max
  <2>2. \A r \in S : t[r] \in Values OBVIOUS
  <2> HIDE DEF S, t, Values
  <2> QED BY <1>2, <2>1, <2>2, LowestType
<1> HIDE DEF low
<1>6. CASE \E r \in S : low = t[r]
  <2>1. PICK r \in S : low = t[r] BY <1>6
  <2>2. r \in Deposits(o) /\ r \in Reserves BY <1>2
  <2>3. o.health.values[r] >= SkipLtvBelow /\ ThresholdOf(o, r) > 0 BY DEF Seizable
  <2>4. o.health.values[r] # 0
    <3>1. SkipLtvBelow \in Nat BY PositionAssumption
    <3> QED BY <1>4, <2>2, <2>3, <3>1 DEF CountsOnlyWorth
  <2>5. ThresholdOf(o, r) <= low BY <1>3, <2>1, <2>2
  <2> HIDE DEF S, t
  <2> QED BY <1>1, <1>3, <2>2, <2>3, <2>4, <2>5
<1>7. CASE low = U8Max
  <2> DEFINE b == BackedTerms(o, rs, Thresholds(o))
  <2>1. o.health.unhealthy = SumFunctionOnSet(b, Reserves) BY HealthSums
  <2>2. \E r \in Reserves : b[r] # 0
    <3> HIDE DEF b
    <3> QED BY <2>1, PositionAssumption, SumZero
  <2>3. PICK r \in Reserves : b[r] # 0 BY <2>2
  <2>4. r \in Deposits(o) BY <2>3, TermsType DEF Deposits, ObligationRecords
  <2>5. b[r] = FMul(o.health.values[r], FromPercent(ThresholdOf(o, r)))
    BY PriorityParts DEF BackedTerms, DepositTerms, Thresholds
  <2>6. o.health.values[r] # 0 /\ ThresholdOf(o, r) # 0
    <3>1. o.health.values[r] \in Nat /\ ThresholdOf(o, r) \in Nat BY <1>3, <1>4
    <3> HIDE DEF b
    <3> QED BY <2>3, <2>5, <3>1, NothingBacked
  <2>7. ThresholdOf(o, r) <= 100 BY ThresholdPercent
  <2>8. ThresholdOf(o, r) <= low BY <1>3, <1>7, <2>7 DEF U8Max
  <2> QED BY <1>1, <2>4, <2>6, <2>8
<1> QED BY <1>5, <1>6, <1>7

\* The debt with the highest borrow factor.
LEMMA DebtRanks ==
  ASSUME NEW o \in ObligationRecords, NEW rs \in [Reserves -> ReserveRecords],
         o.health = HealthOf(o, rs), o.health.debt > 0, CountsOnlyWorth(o)
  PROVE  \E debt \in Borrows(o) :
           /\ Weighted(o, debt, o.health.debtValues[debt]) # 0
           /\ BorrowFactor[debt] >= o.health.highestFactor
<1> DEFINE S == Payable(o)
           f == FactorsOf(o)
           bottom == 100
           Values == {f[r] : r \in S} \cup {bottom}
           high == Highest(f, S, bottom)
<1>1. o.health.highestFactor = high BY PriorityParts
<1>2. S \in SUBSET Reserves /\ S \subseteq Borrows(o) BY DEF Payable, Borrows
<1>3. \A r \in Reserves : f[r] = FactorOf(o, r) /\ f[r] \in Nat /\ f[r] >= bottom
  BY PercentsType DEF FactorsOf
<1>4. \A r \in Reserves : o.health.debtValues[r] \in Nat BY HealthFields
<1>5. \A r \in Reserves : BorrowFactor[r] \in Nat /\ BorrowFactor[r] >= bottom /\ BorrowFactor[r] >= f[r]
  BY <1>3, PositionAssumption DEF FactorOf
<1>6. bottom \in Nat OBVIOUS
<1>7. \A r \in Reserves : FromPercent(f[r]) \in Nat /\ One <= FromPercent(f[r])
  BY <1>3, PercentAbove, Conversions
<1> HIDE DEF bottom
<1>8. high \in Values
  <2>1. Values \subseteq Int /\ bottom \in Values BY <1>2, <1>3, <1>6
  <2>2. \A r \in S : f[r] \in Values OBVIOUS
  <2> HIDE DEF S, f, Values
  <2> QED BY <1>2, <2>1, <2>2, HighestType
<1> HIDE DEF high
<1>9. CASE \E r \in S : high = f[r]
  <2>1. PICK r \in S : high = f[r] BY <1>9
  <2>2. r \in Borrows(o) /\ r \in Reserves BY <1>2
  <2>3. o.health.debtValues[r] >= SkipFactorBelow BY DEF Payable
  <2>4. o.health.debtValues[r] # 0
    <3>1. SkipFactorBelow \in Nat BY PositionAssumption
    <3> QED BY <1>4, <2>2, <2>3, <3>1 DEF CountsOnlyWorth
  <2>5. Weighted(o, r, o.health.debtValues[r]) # 0
    <3> DEFINE v == o.health.debtValues[r]
               p == FromPercent(f[r])
    <3>1. v \in Nat /\ v # 0 /\ p \in Nat /\ One <= p BY <1>4, <1>7, <2>2, <2>4
    <3>2. Weighted(o, r, v) = FMul(v, p) BY <1>3, <2>2 DEF Weighted
    <3> HIDE DEF v, p
    <3>3. v <= FMul(v, p) /\ FMul(v, p) \in Int BY <3>1, FMulAbove, FMulType
    <3> QED BY <3>1, <3>2, <3>3 DEF v
  <2>6. BorrowFactor[r] >= high BY <1>5, <2>1, <2>2
  <2> QED BY <1>1, <2>2, <2>5, <2>6
<1>10. CASE high = bottom
  <2> DEFINE w == DebtTerms(o, rs)
  <2>1. o.health.debt = SumFunctionOnSet(w, Reserves) BY HealthSums
  <2>2. \E r \in Reserves : w[r] # 0
    <3> HIDE DEF w
    <3> QED BY <2>1, PositionAssumption, SumZero
  <2>3. PICK r \in Reserves : w[r] # 0 BY <2>2
  <2>4. r \in Borrows(o) BY <2>3, TermsType DEF Borrows, ObligationRecords
  <2>5. Weighted(o, r, o.health.debtValues[r]) # 0 BY <2>3, PriorityParts
  <2>6. BorrowFactor[r] >= high BY <1>5, <1>10
  <2> QED BY <1>1, <2>4, <2>5, <2>6
<1> QED BY <1>8, <1>9, <1>10

\* Both together are a pair: the two rules do not depend on each other.
LEMMA SomePairRanks ==
  ASSUME NEW o \in ObligationRecords, NEW rs \in [Reserves -> ReserveRecords],
         o.health = HealthOf(o, rs), o.health.debt > 0, o.health.unhealthy > 0,
         CountsOnlyWorth(o)
  PROVE  \E debt, coll \in Reserves : RanksFirst(o, debt, coll)
<1>1. PICK coll \in Deposits(o) :
        /\ ThresholdOf(o, coll) # 0 /\ o.health.values[coll] # 0
        /\ ThresholdOf(o, coll) <= o.health.lowestThreshold
  BY CollateralRanks
<1>2. PICK debt \in Borrows(o) :
        /\ Weighted(o, debt, o.health.debtValues[debt]) # 0
        /\ BorrowFactor[debt] >= o.health.highestFactor
  BY DebtRanks
<1>3. RanksFirst(o, debt, coll) BY <1>1, <1>2 DEF RanksFirst, HasPriority
<1>4. debt \in Reserves /\ coll \in Reserves BY DEF Borrows, Deposits
<1> QED BY <1>3, <1>4

\* The fee is at most what is withdrawn, if that is anything.
LEMMA FeeWithin ==
  ASSUME NEW w \in Nat \ {0}, NEW bonus \in Nat, NEW pct \in 0..100
  PROVE  LiquidationFee(w, bonus, pct) <= w
<1> DEFINE a == FromNum(w)
           b == bonus + One
           kept == FDiv(a, b)
           f == FromPercent(pct)
           part == FMul(a - kept, f)
           fee == ToCeil(part)
<1>1. One \in Nat \ {0} BY OneAssumption
<1>2. a \in Nat /\ a = One * w BY <1>1, Conversions, Z3 DEF FromNum
<1>3. b \in Nat \ {0} /\ One <= b BY <1>1
<1> HIDE DEF a, b
<1>4. kept \in Nat /\ kept <= a
  <2> DEFINE x == a * One
             y == a * b
  <2>1. x \in Int /\ y \in Int /\ x <= y BY <1>1, <1>2, <1>3, Z3
  <2>2. y < b * a + b BY <1>2, <1>3, Z3
  <2>3. b * a \in Int BY <1>2, <1>3
  <2> HIDE DEF x, y
  <2>4. x < b * a + b BY <1>3, <2>1, <2>2, <2>3
  <2>5. x \div b <= a BY <1>2, <1>3, <2>1, <2>4, QuotientMost
  <2>6. FDiv(a, b) = x \div b BY DEF FDiv, x
  <2>7. FDiv(a, b) \in Nat BY <1>2, <1>3, FDivType
  <2> QED BY <2>5, <2>6, <2>7
<1> HIDE DEF kept
<1>5. a - kept \in Nat /\ a - kept <= a BY <1>2, <1>4
<1>6. f \in Nat /\ f <= One BY PercentBelow
<1> HIDE DEF f
<1>7. part \in Nat /\ part <= a
  <2> DEFINE x == a - kept
  <2>1. x \in Nat /\ x <= a BY <1>5
  <2> HIDE DEF x
  <2>2. FMul(x, f) \in Nat /\ FMul(x, f) <= x BY <1>6, <2>1, FMulType, FMulBelow
  <2>3. FMul(x, f) <= a BY <1>2, <2>1, <2>2
  <2> QED BY <2>2, <2>3 DEF x
<1> HIDE DEF part
<1>8. fee <= w
  <2> DEFINE x == part + One - 1
  <2>1. One * w \in Int BY <1>1
  <2>2. x \in Int /\ x < One * w + One BY <1>1, <1>2, <1>7, <2>1
  <2> HIDE DEF x
  <2>3. x \div One <= w BY <1>1, <2>2, QuotientMost
  <2> QED BY <2>3 DEF ToCeil, x
<1>9. fee \in Int BY <1>7, Conversions
<1>10. LiquidationFee(w, bonus, pct) = Larger(fee, 1)
  BY DEF LiquidationFee, a, b, kept, f, part
<1> HIDE DEF fee
<1> QED BY <1>8, <1>9, <1>10 DEF Larger

\* A small debt is settled whole, and a unit of the collateral pays for it at least.
LEMMA SmallAmounts ==
  ASSUME NEW o \in ObligationRecords, NEW rs \in [Reserves -> ReserveRecords],
         NEW debt \in Borrows(o), NEW coll \in Deposits(o), NEW n \in Nat,
         o.health.deposited # 0, o.health.values[coll] # 0, DustAmount = 1,
         IsUnhealthy(o.health), o.health.debtValues[debt] < MinFullValue
  PROVE  LET amounts == Amounts(o, rs, debt, coll, n)
         IN /\ amounts.settle = o.debts[debt] /\ amounts.repay # 0
            /\ amounts.withdraw \in Nat \ {0} /\ amounts.withdraw <= o.deposits[coll]
<1> DEFINE d == o.debts[debt]
           D == o.deposits[coll]
           v == o.health.debtValues[debt]
           value == o.health.values[coll]
           bonus == Bonus(o, rs, debt, coll)
           total == FMul(FMul(v, FDiv(d, d)), bonus + One)
           part == FMul(FromNum(D), FDiv(total, value))
           withdraw == IF total >= value THEN D ELSE CollateralFor(part, TRUE)
<1>1. debt \in Reserves /\ coll \in Reserves /\ d > 0 /\ D > 0 BY DEF Borrows, Deposits
<1>2. d \in Nat \ {0} /\ D \in Nat \ {0} /\ v \in Nat /\ value \in Nat \ {0}
  BY <1>1, HealthFields
<1>3. One \in Nat \ {0} BY OneAssumption
<1>4. Reason(o, rs, debt, coll) = "ltv" BY DEF Reason
<1>5. bonus \in Nat
  <2>1. bonus = UnhealthyBonus(o, debt, coll) BY <1>4 DEF Bonus
  <2> QED BY <1>1, <2>1, UnhealthyBonusType
<1>6. IsSmall(o, rs, debt, coll) BY <1>4 DEF IsSmall
<1>7. LiquidatedDebt(o, rs, debt, coll, n) = d BY <1>6 DEF LiquidatedDebt
<1>8. Amounts(o, rs, debt, coll, n) = [settle |-> d, repay |-> ToCeil(d), withdraw |-> withdraw]
  BY <1>6, <1>7 DEF Amounts
<1> HIDE DEF bonus, d, D, v, value
<1>9. total \in Nat
  <2> DEFINE q == FDiv(d, d)
             m == FMul(v, q)
             b == bonus + One
  <2>1. q \in Nat /\ q \in Int /\ v \in Int BY <1>2, FDivType
  <2> HIDE DEF q
  <2>2. m \in Nat /\ m \in Int BY <1>2, <2>1, FMulType
  <2> HIDE DEF m
  <2>3. b \in Nat /\ b \in Int BY <1>3, <1>5
  <2> HIDE DEF b
  <2>4. FMul(m, b) \in Nat BY <2>2, <2>3, FMulType
  <2> QED BY <2>4 DEF m, b, q
<1> HIDE DEF total
<1>10. withdraw \in Nat \ {0} /\ withdraw <= D
  <2>1. CASE total >= value BY <1>2, <2>1
  <2>2. CASE ~(total >= value)
    <3>1. FDiv(total, value) \in Nat /\ FDiv(total, value) <= One
      BY <1>2, <1>9, <2>2, FDivType, FDivBelow
    <3>2. FromNum(D) \in Nat /\ FromNum(D) = One * D BY <1>2, <1>3, Conversions, Z3 DEF FromNum
    <3>3. part \in Nat /\ part <= FromNum(D)
      <4> DEFINE x == FromNum(D)
                 y == FDiv(total, value)
      <4>1. x \in Nat /\ y \in Nat /\ y <= One /\ x \in Int /\ y \in Int BY <3>1, <3>2
      <4> HIDE DEF x, y
      <4>2. FMul(x, y) \in Nat /\ FMul(x, y) <= x BY <4>1, FMulType, FMulBelow
      <4> QED BY <4>2 DEF x, y
    <3> HIDE DEF part
    <3>4. FromNum(DustAmount) = One BY <1>3 DEF FromNum
    <3>5. CASE part < One
      <4>1. withdraw = 1 BY <2>2, <3>4, <3>5 DEF CollateralFor
      <4> HIDE DEF withdraw
      <4> QED BY <1>2, <4>1
    <3>6. CASE ~(part < One)
      <4>1. withdraw = part \div One BY <2>2, <3>4, <3>6 DEF CollateralFor, ToFloor
      <4>2. 1 <= part \div One
        <5>1. One * 1 <= part BY <1>3, <3>3, <3>6
        <5> QED BY <1>3, <3>3, <5>1, QuotientLeast
      <4>3. part \div One <= D
        <5>1. One * D \in Int BY <1>2, <1>3
        <5>2. part < One * D + One BY <1>3, <3>2, <3>3, <5>1
        <5> QED BY <1>2, <1>3, <3>3, <5>2, QuotientMost
      <4>4. part \div One \in Int BY <1>3, <3>3, QuotientBounds
      <4> HIDE DEF withdraw
      <4> QED BY <1>2, <4>1, <4>2, <4>3, <4>4
    <3> QED BY <3>5, <3>6
  <2> QED BY <2>1, <2>2
<1> HIDE DEF withdraw
<1>11. ToCeil(d) # 0
  <2>1. One * 1 <= d + One - 1 /\ d + One - 1 \in Int BY <1>2, <1>3
  <2> DEFINE x == d + One - 1
  <2>2. x \in Int /\ One * 1 <= x BY <2>1
  <2> HIDE DEF x
  <2>3. 1 <= x \div One /\ x \div One \in Int BY <1>3, <2>2, QuotientLeast, QuotientBounds
  <2> QED BY <2>3 DEF ToCeil, x
<1> QED BY <1>8, <1>10, <1>11 DEF d, D

\* Nothing else stands in the way of a small debt that comes first.
LEMMA SmallLiquidation ==
  ASSUME NEW o \in ObligationRecords, NEW rs \in [Reserves -> ReserveRecords],
         NEW debt \in Reserves, NEW coll \in Reserves, RanksFirst(o, debt, coll),
         IsFresh(o, LiquidationChecks),
         IsFresh(rs[debt], LiquidationChecks), IsFresh(rs[coll], LiquidationChecks),
         o.health.deposited # 0, o.health.debt # 0, IsUnhealthy(o.health),
         o.health.debtValues[debt] < MinFullValue, DustAmount = 1,
         NEW n \in Nat, FromNum(n) >= o.debts[debt]
  PROVE  CanLiquidate(o, rs, debt, coll, n)
<1> DEFINE amounts == Amounts(o, rs, debt, coll, n)
           bonus == Bonus(o, rs, debt, coll)
<1>1. debt \in Borrows(o) /\ coll \in Deposits(o) /\ o.health.values[coll] # 0
  BY DEF RanksFirst
<1>2. Reason(o, rs, debt, coll) = "ltv" BY DEF Reason
<1>3. /\ amounts.repay # 0
      /\ amounts.withdraw \in Nat \ {0} /\ amounts.withdraw <= o.deposits[coll]
  BY <1>1, SmallAmounts
<1>4. bonus \in Nat
  <2>1. bonus = UnhealthyBonus(o, debt, coll) BY <1>2 DEF Bonus
  <2> QED BY <2>1, UnhealthyBonusType
<1>5. FeeOf(o, rs, debt, coll, amounts.withdraw)
        = LiquidationFee(amounts.withdraw, bonus, ProtocolFee[coll])
  BY <1>2 DEF FeeOf
<1>6. ProtocolFee[coll] \in 0..100 BY LiquidationAssumption
<1>7. n # 0
  <2>1. o.debts[debt] > 0 /\ o.debts[debt] \in Nat BY <1>1, HealthFields DEF Borrows
  <2>2. FromNum(0) = 0 BY OneAssumption DEF FromNum
  <2> QED BY <2>1, <2>2
<1>8. HasPriority(o, "ltv", debt, coll) BY DEF RanksFirst, Reasons
<1> HIDE DEF amounts, bonus
<1>9. FeeOf(o, rs, debt, coll, amounts.withdraw) <= amounts.withdraw
  BY <1>3, <1>4, <1>5, <1>6, FeeWithin
<1> HIDE DEF RanksFirst
<1>10. /\ ThresholdOf(o, coll) # 0
       /\ Weighted(o, debt, o.health.debtValues[debt]) # 0
  BY DEF RanksFirst
<1>11. \E reason \in {Reason(o, rs, debt, coll)} :
         /\ reason \in {"order", "none"} => OrdersEvaluable(o, rs, debt, coll)
         /\ reason # "none" /\ HasPriority(o, reason, debt, coll)
  BY <1>2, <1>8
<1>12. \E a \in {Amounts(o, rs, debt, coll, n)} :
         /\ a.repay # 0 /\ a.withdraw # 0
         /\ a.withdraw <= o.deposits[coll]
         /\ FeeOf(o, rs, debt, coll, a.withdraw) <= a.withdraw
  BY <1>3, <1>9 DEF amounts
<1> QED BY <1>1, <1>7, <1>10, <1>11, <1>12 DEF CanLiquidate

\* The rules of which debt and which collateral come first agree on a pair.
PriorityLeavesAPair ==
  LET h == obligation.health
  IN obligation.fresh /\ CountsOnlyWorth(obligation) /\ h.debt > 0 /\ h.unhealthy > 0
     => \E debt, coll \in Reserves : RanksFirst(obligation, debt, coll)

\* LiquidationPossible of an obligation whose debts are all below the minimum for a
\* partial liquidation, by anyone who can pay one of them.
SmallDebtsLiquidatable ==
  LET h == obligation.health
  IN /\ IsFresh(obligation, LiquidationChecks) /\ CountsOnlyWorth(obligation)
     /\ \A r \in Deposits(obligation) \cup Borrows(obligation) :
          IsFresh(reserves[r], LiquidationChecks)
     /\ h.debt > 0 /\ h.unhealthy > 0 /\ IsUnhealthy(h)
     /\ \A r \in Borrows(obligation) : h.debtValues[r] < MinFullValue
     => \E debt, coll \in Reserves :
          \A n \in Nat : FromNum(n) >= obligation.debts[debt]
            => CanLiquidate(obligation, reserves, debt, coll, n)

LEMMA ValuedBySomePrices ==
  ASSUME IInv, obligation.fresh
  PROVE  \E rs \in [Reserves -> ReserveRecords] : obligation.health = HealthOf(obligation, rs)
<1> DEFINE kept == PricesKept
           rs == [r \in Reserves |-> [reserves[r] EXCEPT !.price = pricesSeen[r]]]
           o == obligation
<1>1. reserves \in [Reserves -> ReserveRecords] /\ pricesSeen \in [Reserves -> Nat]
  BY DEF IInv, ReservesInv
<1>2. rs \in [Reserves -> ReserveRecords] BY <1>1 DEF ReserveRecords
<1>3. o.health = HealthOf(o, kept) BY DEF IInv, FreshMeansValued, PricesKept
<1>4. \A r \in Reserves : rs[r].price = kept[r].price BY <1>1 DEF ReserveRecords, PricesKept
<1> HIDE DEF kept, rs, o
<1>5. HealthOf(o, rs) = HealthOf(o, kept) BY <1>4, HealthSame
<1> QED BY <1>2, <1>3, <1>5 DEF o

LEMMA InvLeavesAPair == IInv => PriorityLeavesAPair
<1> SUFFICES ASSUME IInv, obligation.fresh, CountsOnlyWorth(obligation),
                    obligation.health.debt > 0, obligation.health.unhealthy > 0
             PROVE  \E debt, coll \in Reserves : RanksFirst(obligation, debt, coll)
  BY DEF PriorityLeavesAPair
<1>1. obligation \in ObligationRecords BY DEF IInv, SoundRecord, Coherent
<1>2. PICK rs \in [Reserves -> ReserveRecords] : obligation.health = HealthOf(obligation, rs)
  BY ValuedBySomePrices
<1> QED BY <1>1, <1>2, SomePairRanks

LEMMA InvLiquidatesSmall ==
  ASSUME IInv, DustAmount = 1
  PROVE  SmallDebtsLiquidatable
<1> DEFINE o == obligation
           h == o.health
<1> SUFFICES ASSUME IsFresh(o, LiquidationChecks), CountsOnlyWorth(o),
                    \A r \in Deposits(o) \cup Borrows(o) : IsFresh(reserves[r], LiquidationChecks),
                    IsUnhealthy(h), h.debt > 0, h.unhealthy > 0,
                    \A r \in Borrows(o) : h.debtValues[r] < MinFullValue
             PROVE  \E debt, coll \in Reserves :
                      \A n \in Nat : FromNum(n) >= o.debts[debt]
                        => CanLiquidate(o, reserves, debt, coll, n)
  BY DEF SmallDebtsLiquidatable
<1>1. o \in ObligationRecords /\ reserves \in [Reserves -> ReserveRecords]
  BY DEF IInv, SoundRecord, Coherent, ReservesInv
<1>2. o.fresh BY DEF IsFresh
<1>3. PICK debt \in Reserves, coll \in Reserves : RanksFirst(o, debt, coll)
  BY <1>2, InvLeavesAPair DEF PriorityLeavesAPair
<1>4. PICK rs \in [Reserves -> ReserveRecords] : h = HealthOf(o, rs)
  BY <1>2, ValuedBySomePrices
<1>5. h.deposited # 0
  <2>1. h.unhealthy <= h.deposited BY <1>1, <1>4, LimitWithinDeposits
  <2>2. h.deposited \in Nat /\ h.unhealthy \in Nat BY <1>1, HealthFields
  <2> QED BY <2>1, <2>2
<1>6. h.debt # 0 BY <1>1, HealthFields
<1>7. debt \in Borrows(o) /\ coll \in Deposits(o) BY <1>3 DEF RanksFirst
<1> HIDE DEF o, h
<1>8. ASSUME NEW n \in Nat, FromNum(n) >= o.debts[debt]
      PROVE  CanLiquidate(o, reserves, debt, coll, n)
  BY <1>1, <1>3, <1>5, <1>6, <1>7, <1>8, SmallLiquidation DEF h
<1> QED BY <1>8

-------------------------------------------------------------------------------
(* Who is liquidated, and how long a margin call runs                         *)

\* A reason to liquidate is either the health of the obligation or one that HasOtherCause
\* names.
LEMMA ReasonHasCause ==
  ASSUME NEW o, NEW rs \in [Reserves -> ReserveRecords], NEW debt \in Reserves,
         NEW coll \in Reserves, Reason(o, rs, debt, coll) # "none"
  PROVE  IsUnhealthy(o.health) \/ HasOtherCause(o, rs)
<1>1. CASE IsUnhealthy(o.health) BY <1>1
<1>2. CASE IsCalled(o) BY <1>2 DEF IsCalled, HasOtherCause
<1>3. ASSUME NEW r \in Reserves, NEW crossed \in {rs[r].depositCrossed, rs[r].borrowCrossed},
             IsOverLimit(o, r, crossed)
      PROVE  HasOtherCause(o, rs)
  <2>1. r \in DeleveragingReserves /\ crossed >= ReservePeriod[r] BY <1>3 DEF IsOverLimit
  <2>2. /\ rs[r].depositCrossed \in Int /\ rs[r].borrowCrossed \in Int
        /\ ReservePeriod[r] \in Int
    BY LiquidationAssumption DEF ReserveRecords, NotCrossed
  <2>3. Larger(rs[r].depositCrossed, rs[r].borrowCrossed) >= ReservePeriod[r]
    BY <2>1, <2>2 DEF Larger
  <2> QED BY <2>1, <2>3 DEF HasOtherCause
<1>4. CASE OrderExecution /\ HitOrders(o, rs, debt, coll) # {}
  <2>1. PICK i \in OrderSlots : IsHit(o.orders[i], o, rs, debt, coll)
    BY <1>4 DEF HitOrders
  <2>2. IsActive(o.orders[i]) BY <2>1 DEF IsHit, StopLosses, TakeProfits, IsActive
  <2> QED BY <1>4, <2>2 DEF HasOtherCause
<1>5. \/ IsUnhealthy(o.health) \/ IsCalled(o)
      \/ IsOverLimit(o, coll, rs[coll].depositCrossed)
      \/ IsOverLimit(o, debt, rs[debt].borrowCrossed)
      \/ OrderExecution /\ HitOrders(o, rs, debt, coll) # {}
  BY DEF Reason
<1> QED BY <1>1, <1>2, <1>3, <1>4, <1>5

LEMMA LiquidatorSpares ==
  ASSUME IInv, pricesSeen = Prices, LiquidatorNext
  PROVE  ~Sound \/ HasOtherCause(obligation, reserves)
<1>1. PICK debt \in Reserves, coll \in Reserves, n \in LiquidationAmounts :
        LiquidateObligation(debt, coll, n)
  BY DEF LiquidatorNext
<1>2. CanLiquidate(obligation, reserves, debt, coll, n)
  BY <1>1 DEF LiquidateObligation
<1>3. /\ obligation.fresh /\ obligation.health.debt # 0
      /\ Reason(obligation, reserves, debt, coll) # "none"
  BY <1>2 DEF CanLiquidate, IsFresh
<1>4. reserves \in [Reserves -> ReserveRecords] /\ obligation \in ObligationRecords
  BY DEF IInv, ReservesInv, SoundRecord, Coherent
<1>5. obligation.health = HealthOf(obligation, reserves) BY <1>3, KnownHealth
<1>6. obligation.health.debt > 0
  <2>1. obligation.health.debt \in Nat BY <1>4 DEF ObligationRecords, Health
  <2> QED BY <1>3, <2>1
<1>7. IsUnhealthy(obligation.health) \/ HasOtherCause(obligation, reserves)
  BY <1>3, <1>4, ReasonHasCause
<1> QED BY <1>5, <1>6, <1>7 DEF Sound, IsSound

\* t is a successor of o with the same margin call.
HasCall(o) == {"called", "target"} \subseteq DOMAIN o
Carries(o, t) == HasCall(t) /\ t.called = o.called /\ t.target = o.target

LEMMA CarriedOn ==
  ASSUME NEW o, HasCall(o), NEW x, NEW y, NEW z
  PROVE  /\ Carries(o, MarkedStale(o)) /\ Carries(o, Refreshed(o, x))
         /\ Carries(o, Accrued(o, x)) /\ Carries(o, WithHasDebt(o))
         /\ Carries(o, OrdersRemoved(o)) /\ Carries(o, OrderConsumed(o, x, y))
         /\ Carries(o, OrderSet(o, x, y))
         /\ Carries(o, [o EXCEPT !.deposits[x] = y]) /\ Carries(o, [o EXCEPT !.debts[x] = y])
         /\ Carries(o, [o EXCEPT !.hasDebt = x])
         /\ Carries(o, [o EXCEPT !.group = x, !.hasDebt = y])
         /\ Carries(o, [o EXCEPT !.debts[x] = y, !.hasDebt = z])
BY DEF Carries, HasCall, MarkedStale, Refreshed, Accrued, WithHasDebt, OrdersRemoved,
       OrderConsumed, OrderSet

\* The margin call stays, or the account is closed.
CallStays(o, t) == Carries(o, t) \/ t = NewObligation

LEMMA NewHasCall == HasCall(NewObligation)
BY DEF HasCall, NewObligation

LEMMA WithdrawnCarries ==
  ASSUME NEW o, HasCall(o), NEW r, NEW n
  PROVE  CallStays(o, Withdrawn(o, r, n))
<1> DEFINE u == [o EXCEPT !.deposits[r] = @ - n]
           v == MarkedStale(u)
<1>1. Carries(o, u) BY DEF Carries, HasCall
<1>2. Withdrawn(o, r, n) = Closed(v) BY DEF Withdrawn
<1> HIDE DEF u
<1>3. Carries(u, v) BY <1>1, CarriedOn DEF Carries
<1> HIDE DEF v
<1> QED BY <1>1, <1>2, <1>3 DEF Closed, Carries, CallStays

LEMMA WithdrawnWithinCarries ==
  ASSUME NEW o, HasCall(o), NEW rs, NEW w, NEW m
  PROVE  CallStays(o, WithdrawnWithin(o, rs, w, m))
<1> DEFINE left == Withdrawn(o, w, WithdrawAmount(o, w, m, "liquidationThreshold"))
           v == Refreshed(left, rs)
<1>1. CallStays(o, left) BY WithdrawnCarries
<1>2. WithdrawnWithin(o, rs, w, m) = IF left = NewObligation THEN left ELSE MarkedStale(v)
  BY DEF WithdrawnWithin
<1> HIDE DEF left
<1>3. CASE left # NewObligation
  <2>1. Carries(o, left) BY <1>1, <1>3 DEF CallStays
  <2>2. Carries(left, v) BY <2>1, CarriedOn DEF Carries
  <2> HIDE DEF v
  <2>3. Carries(v, MarkedStale(v)) BY <2>2, CarriedOn DEF Carries
  <2> QED BY <1>2, <1>3, <2>1, <2>2, <2>3 DEF Carries, CallStays
<1> QED BY <1>2, <1>3 DEF CallStays

LEMMA DepositCarries ==
  ASSUME NEW o, HasCall(o), NEW r, NEW n
  PROVE  Carries(o, DepositMade(o, r, n))
<1> DEFINE u == [o EXCEPT !.deposits[r] = @ + n]
<1>1. Carries(o, u) BY DEF Carries, HasCall
<1>2. DepositMade(o, r, n) = MarkedStale(u) BY DEF DepositMade
<1> HIDE DEF u
<1>3. Carries(u, MarkedStale(u)) BY <1>1, CarriedOn DEF Carries
<1> QED BY <1>1, <1>2, <1>3 DEF Carries

LEMMA RepaidCarries ==
  ASSUME NEW o, HasCall(o), NEW r, NEW n
  PROVE  Carries(o, Repaid(o, r, n))
<1> DEFINE u == [o EXCEPT !.debts[r] = @ - n]
           v == WithHasDebt(u)
<1>1. Carries(o, u) BY DEF Carries, HasCall
<1>2. Repaid(o, r, n) = MarkedStale(v) BY DEF Repaid
<1> HIDE DEF u
<1>3. Carries(u, v) BY <1>1, CarriedOn DEF Carries
<1> HIDE DEF v
<1>4. Carries(v, MarkedStale(v)) BY <1>3, CarriedOn DEF Carries
<1> QED BY <1>1, <1>2, <1>3, <1>4 DEF Carries

LEMMA RefreshedWithinCarries ==
  ASSUME NEW o, NEW made, Carries(o, made), NEW us, NEW rs, NEW w, NEW m
  PROVE  CallStays(o, WithdrawnWithin(Refreshed(made, us), rs, w, m))
<1> DEFINE x == Refreshed(made, us)
           t == WithdrawnWithin(x, rs, w, m)
<1>1. Carries(made, x) BY CarriedOn DEF Carries
<1> HIDE DEF x
<1>2. CallStays(x, t) BY <1>1, WithdrawnWithinCarries DEF Carries
<1> HIDE DEF t
<1>3. CallStays(o, t) BY <1>1, <1>2 DEF Carries, CallStays
<1> QED BY <1>3 DEF x, t

LEMMA LiquidatedCarries ==
  ASSUME NEW o, HasCall(o), NEW rs, NEW debt, NEW coll, NEW n
  PROVE  Carries(o, Liquidated(o, rs, debt, coll, n))
<1> DEFINE amounts == Amounts(o, rs, debt, coll, n)
           u == [o EXCEPT !.debts[debt] = @ - amounts.settle,
                          !.deposits[coll] = @ - amounts.withdraw]
           v == [u EXCEPT !.hasDebt = Borrows(u) # {}]
           seized == Seized(o, debt, coll, amounts)
           t == Liquidated(o, rs, debt, coll, n)
<1>1. Carries(o, u) BY DEF Carries, HasCall
<1>2. seized = MarkedStale(v) BY DEF Seized
<1>3. t = IF ~seized.hasDebt THEN OrdersRemoved(seized)
          ELSE IF Reason(o, rs, debt, coll) = "order"
          THEN OrderConsumed(seized, OrderHit(o, rs, debt, coll), amounts.repay)
          ELSE seized
  BY DEF Liquidated
<1> HIDE DEF u, seized, amounts, t
<1>4. Carries(u, v) BY <1>1, CarriedOn DEF Carries
<1> HIDE DEF v
<1>5. Carries(v, seized) BY <1>2, <1>4, CarriedOn DEF Carries
<1>6. Carries(o, seized) BY <1>1, <1>4, <1>5 DEF Carries
<1>7. HasCall(seized) BY <1>5 DEF Carries
<1>8. Carries(seized, t)
  <2>1. Carries(seized, OrdersRemoved(seized)) BY <1>7, CarriedOn
  <2>2. ASSUME NEW x, NEW y PROVE Carries(seized, OrderConsumed(seized, x, y))
    BY <1>7, CarriedOn
  <2> QED BY <1>3, <1>7, <2>1, <2>2 DEF Carries
<1>9. Carries(o, t) BY <1>6, <1>8 DEF Carries
<1> QED BY <1>9 DEF t

LEMMA OwnerKeepsCall ==
  ASSUME HasCall(obligation), OwnerNext
  PROVE  CallStays(obligation, obligation')
<1>1. ASSUME NEW r \in Reserves, NEW n,
             \/ DepositCollateral(r, n) \/ WithdrawCollateral(r, n) \/ RepayLiquidity(r, n)
      PROVE  CallStays(obligation, obligation')
  BY <1>1, DepositCarries, WithdrawnCarries, RepaidCarries
     DEF DepositCollateral, WithdrawCollateral, RepayLiquidity, CallStays
<1>2. ASSUME NEW r \in Reserves, NEW n, NEW room, BorrowLiquidity(r, n, room)
      PROVE  CallStays(obligation, obligation')
  <2> DEFINE u(amount) == [obligation EXCEPT !.debts[r] = @ + amount, !.hasDebt = TRUE]
  <2>1. PICK amount : obligation' = MarkedStale(u(amount)) BY <1>2 DEF BorrowLiquidity, Borrowed
  <2>2. Carries(obligation, u(amount)) BY DEF Carries, HasCall
  <2> HIDE DEF u
  <2>3. Carries(u(amount), MarkedStale(u(amount))) BY <2>2, CarriedOn DEF Carries
  <2> QED BY <2>1, <2>2, <2>3 DEF Carries, CallStays
<1>3. ASSUME NEW r \in Reserves, NEW n, NEW w \in Reserves, NEW m,
             RepayAndWithdraw(r, n, w, m) \/ DepositAndWithdraw(r, n, w, m)
      PROVE  CallStays(obligation, obligation')
  <2>1. CASE RepayAndWithdraw(r, n, w, m)
    <3>1. Carries(obligation, Repaid(obligation, r, SettleAmount(obligation, r, n)))
      BY RepaidCarries
    <3> QED BY <2>1, <3>1, RefreshedWithinCarries DEF RepayAndWithdraw, RepaidAndWithdrawn
  <2>2. CASE DepositAndWithdraw(r, n, w, m)
    <3>1. Carries(obligation, DepositMade(obligation, r, n)) BY DepositCarries
    <3> QED BY <2>2, <3>1, RefreshedWithinCarries DEF DepositAndWithdraw, DepositedAndWithdrawn
  <2> QED BY <1>3, <2>1, <2>2
<1>4. ASSUME NEW g, RequestElevationGroup(g)
      PROVE  CallStays(obligation, obligation')
  <2> DEFINE u == [obligation EXCEPT !.group = g, !.hasDebt = @ \/ Borrows(obligation) # {}]
  <2>1. obligation' = MarkedStale(u) BY <1>4 DEF RequestElevationGroup, GroupChanged
  <2>2. Carries(obligation, u) BY DEF Carries, HasCall
  <2> HIDE DEF u
  <2>3. Carries(u, MarkedStale(u)) BY <2>2, CarriedOn DEF Carries
  <2> QED BY <2>1, <2>2, <2>3 DEF Carries, CallStays
<1>5. ASSUME NEW i, NEW order, NEW enabled, SetObligationOrder(i, order, enabled)
      PROVE  CallStays(obligation, obligation')
  BY <1>5, CarriedOn DEF SetObligationOrder, CallStays
<1> QED BY <1>1, <1>2, <1>3, <1>4, <1>5 DEF OwnerNext

\* The period of a margin call, as far as the model counts it.
CallCounted == HasCall(obligation) /\ obligation.called \in Int /\ obligation.called <= MaxAge

CallRunsOn ==
  IsMarked(obligation) =>
    \/ obligation'.called >= obligation.called /\ obligation'.target = obligation.target
    \/ ~IsMarked(obligation') /\ (CouncilNext \/ obligation' = NewObligation)

LEMMA StaysRunsOn ==
  ASSUME CallCounted, CallStays(obligation, obligation')
  PROVE  CallCounted' /\ CallRunsOn
<1>1. NotMarked \in Int /\ NotMarked <= MaxAge BY LendingAssumption DEF NotMarked
<1>2. CASE Carries(obligation, obligation') BY <1>2 DEF Carries, CallCounted, CallRunsOn
<1>3. CASE obligation' = NewObligation
  <2>1. HasCall(obligation') /\ obligation'.called = NotMarked
    BY <1>3, NewHasCall DEF NewObligation
  <2> QED BY <1>1, <1>3, <2>1 DEF CallCounted, CallRunsOn, IsMarked
<1> QED BY <1>2, <1>3 DEF CallStays

LEMMA NewSlotRunsOn ==
  ASSUME CallCounted, NEW secs \in Lengths, NEW interest, NewSlot(secs, interest)
  PROVE  CallCounted' /\ CallRunsOn
<1> DEFINE v == MarkedStale(obligation)
<1>1. obligation' = [v EXCEPT !.called = Aged(@, secs)] BY DEF NewSlot
<1>2. Carries(obligation, v) BY CarriedOn DEF CallCounted
<1> HIDE DEF v
<1>3. /\ HasCall(obligation') /\ obligation'.target = obligation.target
      /\ obligation'.called = Aged(obligation.called, secs)
  BY <1>1, <1>2 DEF Carries, HasCall
<1>4. secs \in Nat /\ MaxAge \in Nat BY LendingAssumption
<1> QED BY <1>3, <1>4 DEF CallCounted, CallRunsOn, Aged, Smaller

LEMMA CouncilRunsOn ==
  ASSUME CallCounted, CouncilNext
  PROVE  CallCounted' /\ CallRunsOn
<1>1. ASSUME NEW target, MarkForDeleveraging(target)
      PROVE  CallCounted' /\ CallRunsOn
  <2>1. CASE obligation' = [obligation EXCEPT !.called = NotMarked, !.target = 0]
    <3>1. HasCall(obligation') /\ obligation'.called = NotMarked
      BY <2>1 DEF CallCounted, HasCall
    <3> QED BY <3>1, LendingAssumption DEF CallCounted, CallRunsOn, IsMarked, NotMarked
  <2>2. CASE /\ ~IsMarked(obligation)
             /\ obligation' = [obligation EXCEPT !.called = 0, !.target = target]
    <3>1. HasCall(obligation') /\ obligation'.called = 0 BY <2>2 DEF CallCounted, HasCall
    <3> QED BY <2>2, <3>1, LendingAssumption DEF CallCounted, CallRunsOn
  <2> QED BY <1>1, <2>1, <2>2 DEF MarkForDeleveraging
<1>2. ASSUME NEW r \in Reserves, NEW n, NEW wiped, SocializeLoss(r, n, wiped)
      PROVE  CallCounted' /\ CallRunsOn
  <2> DEFINE forgiven == Smaller(FromNum(n), obligation.debts[r])
             u == [obligation EXCEPT !.debts[r] = @ - forgiven]
             left == WithHasDebt(u)
             v == IF left.hasDebt THEN left ELSE OrdersRemoved(left)
  <2>1. obligation' = MarkedStale(v) BY <1>2 DEF SocializeLoss
  <2>2. Carries(obligation, u) BY DEF Carries, CallCounted, HasCall
  <2> HIDE DEF u
  <2>3. Carries(u, left) BY <2>2, CarriedOn DEF Carries
  <2> HIDE DEF left
  <2>4. Carries(left, v) BY <2>3, CarriedOn DEF Carries
  <2> HIDE DEF v
  <2>5. Carries(v, MarkedStale(v)) BY <2>4, CarriedOn DEF Carries
  <2>6. Carries(obligation, obligation') BY <2>1, <2>2, <2>3, <2>4, <2>5 DEF Carries
  <2> QED BY <2>6, StaysRunsOn DEF CallStays
<1> QED BY <1>1, <1>2 DEF CouncilNext

LEMMA RunsOnNext ==
  ASSUME CallCounted, [FairNext]_vars
  PROVE  CallCounted' /\ CallRunsOn
<1> USE DEF CallCounted
<1>1. CASE OwnerNext BY <1>1, OwnerKeepsCall, StaysRunsOn
<1>2. CASE LiquidatorNext
  BY <1>2, LiquidatedCarries, StaysRunsOn DEF LiquidatorNext, LiquidateObligation, CallStays
<1>3. CASE CouncilNext BY <1>3, CouncilRunsOn
<1>4. CASE MarketNext
  <2>1. ASSUME NEW secs \in Lengths, NEW interest, NewSlot(secs, interest)
        PROVE  CallCounted' /\ CallRunsOn
    BY <2>1, NewSlotRunsOn
  <2>2. ASSUME RefreshObligation PROVE CallCounted' /\ CallRunsOn
    <3> DEFINE accrued == Accrued(obligation, owed)
    <3>1. obligation' = Refreshed(accrued, reserves) BY <2>2 DEF RefreshObligation
    <3>2. Carries(obligation, accrued) BY CarriedOn
    <3> HIDE DEF accrued
    <3>3. Carries(accrued, obligation') BY <3>1, <3>2, CarriedOn DEF Carries
    <3>4. Carries(obligation, obligation') BY <3>2, <3>3 DEF Carries
    <3> QED BY <3>4, StaysRunsOn DEF CallStays
  <2>3. ASSUME UNCHANGED obligation PROVE CallCounted' /\ CallRunsOn
    BY <2>3 DEF CallRunsOn
  <2>4. \/ UNCHANGED obligation \/ RefreshObligation
        \/ \E secs \in Lengths, interest \in Interests : NewSlot(secs, interest)
    BY <1>4 DEF MarketNext, RefreshReserveWithPrice, RefreshReserve, Deprecate,
                CrossDepositLimit, CrossBorrowLimit, ReturnWithinLimits
  <2> QED BY <2>1, <2>2, <2>3, <2>4
<1>5. CASE KeeperNext
  <2>1. PICK debt, coll, level, n, ages : LiquidatorTransaction(level, ages, debt, coll, n)
    BY <1>5 DEF KeeperNext
  <2> DEFINE accrued == Accrued(obligation, owed)
             rs == Confirmed(level)
             o == Refreshed(accrued, rs)
  <2>2. obligation' = Liquidated(o, rs, debt, coll, n)
    BY <2>1 DEF LiquidatorTransaction, Current
  <2>3. Carries(obligation, accrued) BY CarriedOn
  <2> HIDE DEF accrued, rs
  <2>4. Carries(accrued, o) BY <2>3, CarriedOn DEF Carries
  <2> HIDE DEF o
  <2>5. Carries(o, obligation') BY <2>2, <2>4, LiquidatedCarries DEF Carries
  <2>6. Carries(obligation, obligation') BY <2>3, <2>4, <2>5 DEF Carries
  <2> QED BY <2>6, StaysRunsOn DEF CallStays
<1>6. CASE UNCHANGED vars BY <1>6 DEF vars, CallRunsOn
<1> QED BY <1>1, <1>2, <1>3, <1>4, <1>5, <1>6 DEF FairNext, Next

LEMMA CallInit == Init => CallCounted
<1>1. HasCall(NewObligation) BY NewHasCall
<1> QED BY <1>1, LendingAssumption DEF Init, CallCounted, NewObligation, NotMarked

-------------------------------------------------------------------------------
(* The theorems                                                               *)

\* The strengthening from which the results below follow is an invariant.
THEOREM Invariance == Spec => []IInv
<1>1. Init => IInv BY InvInit
<1>2. IInv /\ [Next]_vars => IInv' BY InvNext
<1> QED BY <1>1, <1>2, PTL DEF Spec

\* Amounts stay natural numbers: no withdrawal, repayment, loss or liquidation takes
\* more than there is of a position, and has_debt says whether the obligation borrows.
THEOREM TypeCorrectness == Spec => []TypeOK
<1>1. IInv => TypeOK BY InvImplies
<1> QED BY <1>1, Invariance, PTL

\* The orders left by the owner stay ones that the program can execute, whatever is
\* withdrawn, liquidated or forgiven (remove_all_orders, consume).
THEOREM OrdersStaySupported == Spec => []OrdersSupported
<1>1. IInv => OrdersSupported BY InvImplies
<1> QED BY <1>1, Invariance, PTL

\* A reserve that passes the checks for liquidations has a recent price
\* (refresh_reserve, is_saved_price_age_valid).
THEOREM CheckedPricesRecent == Spec => []CheckedPriceIsRecent
<1>1. IInv => CheckedPriceIsRecent BY InvImplies
<1> QED BY <1>1, Invariance, PTL

\* What an obligation has in a deprecated reserve stays as it is (is_deprecated and
\* the version checks of the handlers).
THEOREM DeprecationFreezesPositions == Spec => DeprecationFreezes
<1>1. IInv /\ [Next]_vars =>
        [\A r \in Reserves : ~reserves[r].usable =>
           /\ obligation'.deposits[r] = obligation.deposits[r]
           /\ obligation'.debts[r] = obligation.debts[r]]_vars
  BY InvNext DEF Frozen
<1> QED BY <1>1, Invariance, PTL DEF Spec, DeprecationFreezes

\* The values of a fresh obligation are those of the positions it has, at the prices of
\* its refresh: no handler that changes a position or the group forgets to mark it stale.
THEOREM FreshIsValued == Spec => []FreshMeansValued
<1>1. IInv => FreshMeansValued BY InvImplies
<1> QED BY <1>1, Invariance, PTL

\* What the owner takes out, borrows or moves to another group leaves a debt within the
\* liquidation limit of what is left, but for a few units of rounding, though the code
\* only compares estimates from the values of the last refresh (borrow, withdraw, the
\* enforcements of the combined handlers, request_elevation_group).
THEOREM OwnersStayCovered == Spec => OwnerStaysCovered
<1>1. IInv /\ IInv' /\ [Next]_vars =>
        [IsRiskier(obligation, obligation') /\ pricesSeen = Prices /\ OwnerNext
           => IsCovered(HealthOf(obligation', reserves'))]_vars
  BY OwnerCovered DEF Riskier, Covered
<1> QED BY <1>1, Invariance, PTL DEF Spec, OwnerStaysCovered

\* What an owner takes out, borrows or moves to another group cannot be liquidated at
\* once, for every configuration whose limits lie further apart than roundings reach:
\* borrow, withdraw and request_elevation_group judge it by an estimate and never value
\* what they leave, the combined handlers refresh it after the withdrawal and compare.
THEOREM OwnersStaySound == Spec => OwnerStaysSoundPastRounding
<1>1. IInv /\ IInv' /\ [Next]_vars =>
        [IsRiskier(obligation, obligation') /\ pricesSeen = Prices /\ OwnerNext
         /\ HasMargin(obligation', reserves')
           => IsSound(obligation', reserves')]_vars
  BY OwnerSound DEF Riskier, Sound
<1> QED BY <1>1, Invariance, PTL DEF Spec, OwnerStaysSoundPastRounding

\* OrdersEvaluated for every configuration: the evaluation of an order that is reached
\* divides by zero only where a price ratio below 1 is within its rounding of the
\* threshold, or where the loan to value has rounded to zero (evaluate_order_condition,
\* evaluate_stop_loss).
THEOREM OrdersStayEvaluable == Spec => []OrdersEvaluatedPastRounding
<1>1. IInv => OrdersEvaluatedPastRounding BY EvaluatedPastRounding
<1> QED BY <1>1, Invariance, PTL

\* No obligation is kept from liquidators by the rules of which debt and which collateral
\* come first (the borrow factor and the threshold of liquidate_and_redeem, computed by
\* refresh_obligation from different positions).
THEOREM APairAlwaysRanksFirst == Spec => []PriorityLeavesAPair
BY Invariance, InvLeavesAPair, PTL

\* No small debt is stuck: one below min_full_liquidation_value_threshold can be
\* liquidated whole, whatever the roundings, the bonus, the least fee and
\* DUST_LAMPORT_THRESHOLD, which is 1 in the program (calculate_liquidation).
THEOREM SmallDebtsAreLiquidatable ==
  ASSUME DustAmount = 1
  PROVE  Spec => []SmallDebtsLiquidatable
<1>1. IInv => SmallDebtsLiquidatable BY InvLiquidatesSmall
<1> QED BY <1>1, Invariance, PTL

\* A liquidation that leaves collateral does not raise the debt's share of it, but where it
\* takes a collateral whole and then by no more than the roundings are worth
\* (calculate_liquidation_bonus, calculate_liquidation_amounts), for a scale as fine as the
\* code's, 2^60.
THEOREM LiquidationsHelp ==
  ASSUME FineScale
  PROVE  Spec => LiquidationHelpsPastRounding
<1>1. IInv /\ IInv' => HelpsPastRounding BY LiquidatorHelps
<1> QED BY <1>1, Invariance, PTL DEF LiquidationHelpsPastRounding

\* Nobody is liquidated who is healthy, valued anew at the prices of the last refresh, or
\* before the period of a margin call or of a crossed limit is over, though a liquidation
\* looks at the values kept in the obligation only (get_liquidation_params).
THEOREM HealthyStaySpared == Spec => HealthyAreSpared
<1>1. IInv /\ [Next]_vars =>
        [/\ obligation'.debts # obligation.debts
         /\ pricesSeen = Prices /\ LiquidatorNext
         => ~IsSound(obligation, reserves) \/ HasOtherCause(obligation, reserves)]_vars
  BY LiquidatorSpares DEF Sound
<1> QED BY <1>1, Invariance, PTL DEF Spec, HealthyAreSpared

\* A margin call is neither restarted nor changed nor ended but by the council, or by the
\* account being closed (check_not_marked_for_deleveraging; no other handler writes
\* autodeleverage_margin_call_started_timestamp).
THEOREM MarginCallsRunOn == Spec => MarginCallRunsOn
<1>1. Init => CallCounted BY CallInit
<1>2. CallCounted /\ [Next]_vars => CallCounted' /\ CallRunsOn BY RunsOnNext DEF FairNext
<1>3. CallRunsOn =>
        [IsMarked(obligation) =>
           \/ /\ obligation'.called >= obligation.called
              /\ obligation'.target = obligation.target
           \/ ~IsMarked(obligation') /\ (CouncilNext \/ obligation' = NewObligation)]_vars
  BY DEF CallRunsOn
<1> QED BY <1>1, <1>2, <1>3, PTL DEF Spec, MarginCallRunsOn

\* All of this also holds with the transactions of liquidators that refresh and
\* liquidate at once (Keepers).
THEOREM KeepersInvariance == FairSpec => []IInv
<1>1. Init => IInv BY InvInit
<1>2. IInv /\ [FairNext]_vars => IInv' BY InvFairNext
<1>3. FairSpec => Init /\ [][FairNext]_vars BY PTL DEF FairSpec
<1> QED BY <1>1, <1>2, <1>3, PTL

THEOREM KeepersAreSafe ==
  FairSpec => /\ [](TypeOK /\ OrdersSupported /\ CheckedPriceIsRecent /\ FreshMeansValued
                 /\ OrdersEvaluatedPastRounding /\ PriorityLeavesAPair)
              /\ DeprecationFreezes /\ OwnerStaysCovered /\ OwnerStaysSoundPastRounding
              /\ MarginCallRunsOn
<1>1. IInv => TypeOK /\ OrdersSupported /\ CheckedPriceIsRecent /\ FreshMeansValued
                /\ OrdersEvaluatedPastRounding /\ PriorityLeavesAPair
  BY InvImplies, EvaluatedPastRounding, InvLeavesAPair
<1>2. IInv /\ [FairNext]_vars =>
        [\A r \in Reserves : ~reserves[r].usable =>
           /\ obligation'.deposits[r] = obligation.deposits[r]
           /\ obligation'.debts[r] = obligation.debts[r]]_vars
  BY InvFairNext DEF Frozen
<1>3. IInv /\ IInv' /\ [FairNext]_vars =>
        [IsRiskier(obligation, obligation') /\ pricesSeen = Prices /\ OwnerNext
           => IsCovered(HealthOf(obligation', reserves'))]_vars
  BY OwnerCovered DEF Riskier, Covered
<1>4. IInv /\ IInv' /\ [FairNext]_vars =>
        [IsRiskier(obligation, obligation') /\ pricesSeen = Prices /\ OwnerNext
         /\ HasMargin(obligation', reserves')
           => IsSound(obligation', reserves')]_vars
  BY OwnerSound DEF Riskier, Sound
<1>5. FairSpec => Init /\ [][FairNext]_vars BY PTL DEF FairSpec
<1>6. FairSpec => MarginCallRunsOn
  <2>1. Init => CallCounted BY CallInit
  <2>2. CallCounted /\ [FairNext]_vars => CallCounted' /\ CallRunsOn BY RunsOnNext
  <2>3. CallRunsOn =>
          [IsMarked(obligation) =>
             \/ /\ obligation'.called >= obligation.called
                /\ obligation'.target = obligation.target
             \/ ~IsMarked(obligation') /\ (CouncilNext \/ obligation' = NewObligation)]_vars
    BY DEF CallRunsOn
  <2> QED BY <1>5, <2>1, <2>2, <2>3, PTL DEF MarginCallRunsOn
<1> QED BY <1>1, <1>2, <1>3, <1>4, <1>5, <1>6, KeepersInvariance, PTL
        DEF DeprecationFreezes, OwnerStaysCovered, OwnerStaysSoundPastRounding
===============================================================================
