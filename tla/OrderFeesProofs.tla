-------------------------- MODULE OrderFeesProofs --------------------------
(***************************************************************************)
(* What a buy commits covers every way it can be filled, for any units,    *)
(* rates' multipliers and quantities: the argument of the comments in      *)
(* reserve_direct_member_buy_fee_micros, in full.                          *)
(***************************************************************************)
EXTENDS OrderFees, WellFoundedInduction, TLAPS

-----------------------------------------------------------------------------
(* Arithmetic.                                                             *)

\* A product grows with its factors.
LEMMA ProductGrows ==
    ASSUME NEW a \in Int, NEW b \in Int, NEW c \in Nat, a <= b
    PROVE  a * c <= b * c
OBVIOUS

\* And with a positive factor it only grows with the other one.
LEMMA FactorCancels ==
    ASSUME NEW a \in Int, NEW b \in Int, NEW c \in Nat \ {0}, a * c < b * c + c
    PROVE  a <= b
<1> SUFFICES ASSUME a >= b + 1 PROVE FALSE
    OBVIOUS
<1>1. (b + 1) * c <= a * c
    BY ProductGrows
<1>2. (b + 1) * c = b * c + c
    OBVIOUS
<1> QED BY <1>1, <1>2

\* Division leaves a remainder.
LEMMA Division ==
    ASSUME NEW a \in Int, NEW b \in Nat \ {0}
    PROVE  /\ a \div b \in Int /\ a % b \in 0..(b - 1)
           /\ a = (a \div b) * b + (a % b)
           /\ a >= 0 => a \div b >= 0
<1>1. a \div b \in Int /\ a % b \in 0..(b - 1) /\ a = b * (a \div b) + (a % b)
    OBVIOUS
<1>2. b * (a \div b) = (a \div b) * b
    BY <1>1
<1>3. ASSUME a >= 0 PROVE a \div b >= 0
    BY <1>3
<1> QED BY <1>1, <1>2, <1>3

\* Only one quotient and remainder do.
LEMMA DivisionIsUnique ==
    ASSUME NEW b \in Nat \ {0}, NEW k \in Int, NEW r \in 0..(b - 1)
    PROVE  (k * b + r) \div b = k /\ (k * b + r) % b = r
<1> DEFINE a == k * b + r
<1>1. a \div b \in Int /\ a % b \in 0..(b - 1) /\ a = (a \div b) * b + (a % b)
    BY Division
<1>2. (a \div b) * b < k * b + b /\ k * b < (a \div b) * b + b
    BY <1>1
<1>3. a \div b <= k /\ k <= a \div b
    BY <1>1, <1>2, FactorCancels
<1> QED BY <1>1, <1>3

\* Rounding up gives the least multiple at or above.
LEMMA RoundingUp ==
    ASSUME NEW a \in Int, NEW b \in Nat \ {0}
    PROVE  /\ CeilDiv(a, b) \in Int
           /\ a <= CeilDiv(a, b) * b /\ CeilDiv(a, b) * b < a + b
           /\ \A k \in Int : a <= k * b => CeilDiv(a, b) <= k
           /\ a >= 0 => CeilDiv(a, b) >= 0
<1>1. CeilDiv(a, b) \in Int /\ a <= CeilDiv(a, b) * b /\ CeilDiv(a, b) * b < a + b
    BY Division DEF CeilDiv
<1>2. \A k \in Int : a <= k * b => CeilDiv(a, b) <= k
    BY <1>1, FactorCancels
<1>3. a >= 0 => CeilDiv(a, b) >= 0
    BY Division DEF CeilDiv
<1> QED BY <1>1, <1>2, <1>3

\* No whole number that covers a quotient is below the quotient rounded up.
LEMMA RoundingUpIsLeast ==
    ASSUME NEW a \in Int, NEW b \in Nat \ {0}, NEW k \in Int, a <= k * b
    PROVE  CeilDiv(a, b) <= k
BY RoundingUp

\* What is on the grid stays on it.
LEMMA GridAdds ==
    ASSUME NEW a \in Int, NEW b \in Int, NEW g \in Nat \ {0}, a % g = 0, b % g = 0
    PROVE  (a + b) % g = 0 /\ (a - b) % g = 0
<1>1. a = (a \div g) * g /\ b = (b \div g) * g /\ a \div g \in Int /\ b \div g \in Int
    BY Division
<1>2. a + b = (a \div g + b \div g) * g + 0 /\ a - b = (a \div g - b \div g) * g + 0
    BY <1>1
<1>3. (((a \div g) + (b \div g)) * g + 0) % g = 0 /\ (((a \div g) - (b \div g)) * g + 0) % g = 0
    BY <1>1, DivisionIsUnique
<1> QED BY <1>2, <1>3

\* A bounded set of amounts has a highest one.
LEMMA MaxExists ==
    ASSUME NEW S, S \subseteq Nat, S # {}, NEW bound \in Nat, \A x \in S : x <= bound
    PROVE  Max(S) \in S /\ \A x \in S : x <= Max(S)
<1> DEFINE Less == {pair \in Nat \X Nat : pair[1] < pair[2]}
           T == {t \in Nat : bound - t \in S}
<1>1. IsWellFoundedOn(Less, Nat)
    BY NatLessThanWellFounded DEF OpToRel
<1>2. T \subseteq Nat /\ T # {}
  <2>1. PICK x \in S : TRUE
      OBVIOUS
  <2>2. bound - x \in Nat /\ bound - (bound - x) = x
      BY <2>1
  <2> QED BY <2>1, <2>2
<1>3. PICK t \in T : \A y \in T : ~(<<y, t>> \in Less)
    BY <1>1, <1>2, WFMin
<1>4. \A x \in S : bound - t >= x
  <2> TAKE x \in S
  <2>1. bound - x \in T
      OBVIOUS
  <2>2. ~(bound - x < t)
      BY <2>1, <1>3, <1>2
  <2> QED BY <2>2, <1>3
<1> QED BY <1>3, <1>4 DEF Max

-----------------------------------------------------------------------------
(* The rates.                                                              *)

\* An order's cap and quantity are numbers.
LEMMA OrderNumbers ==
    ASSUME NEW o \in Order
    PROVE  o.cap \in Nat /\ o.quantity \in Nat
<1>1. o.cap \in 1..Dollar /\ o.quantity \in Quantities
    BY DEF Order
<1>2. o.quantity \in Nat
    BY <1>1, UnitsAssumption
<1>3. o.cap \in Nat
    BY <1>1
<1> QED BY <1>2, <1>3

\* The worst coefficient is a number no role's coefficient exceeds.
LEMMA Coefficients ==
    ASSUME NEW o \in Order
    PROVE  /\ WorstCoefficient(o) \in Nat
           /\ \A role \in Roles : Coefficient(o, role) \in Nat
                               /\ Coefficient(o, role) <= WorstCoefficient(o)
<1> DEFINE S == {Coefficient(o, role) : role \in Roles}
           maker == Coefficient(o, "Maker")
           taker == Coefficient(o, "Taker")
<1>1. o.multiplier \in Nat
    BY UnitsAssumption DEF Order
<1>2. \A role \in Roles : BaseRate(o.type, role) \in Nat
    BY DEF BaseRate
<1>3. \A role \in Roles : Coefficient(o, role) \in Nat
    BY <1>1, <1>2 DEF Coefficient
<1>4. S \subseteq Nat /\ S # {} /\ \A x \in S : x <= maker + taker
    BY <1>3 DEF Roles
<1>5. maker + taker \in Nat
    BY <1>3 DEF Roles
<1>6. Max(S) \in S /\ \A x \in S : x <= Max(S)
    BY <1>4, <1>5, MaxExists
<1> QED BY <1>3, <1>4, <1>6 DEF WorstCoefficient

\* The fee before rounding, in units of Unit * Dollar * Parts a microdollar.
RawFee(price, coefficient) == coefficient * price * (Dollar - price)

FeeUnit == Unit * Dollar * Parts

\* The unit fees are counted in is a positive number.
LEMMA FeeUnitType == FeeUnit \in Nat \ {0} /\ FeeUnit = (Unit * Dollar) * Parts
<1>1. Unit * Dollar \in Nat \ {0}
    BY UnitsAssumption
<1>2. (Unit * Dollar) * Parts \in Nat \ {0}
    BY <1>1, UnitsAssumption
<1> QED BY <1>2 DEF FeeUnit

\* A raw fee is a number, within the coefficient of a whole Dollar squared.
LEMMA RawFeeType ==
    ASSUME NEW price \in 0..Dollar, NEW c \in Nat
    PROVE  RawFee(price, c) \in Nat /\ RawFee(price, c) <= c * Dollar * Dollar
<1>1. Dollar \in Nat /\ Dollar - price \in Nat /\ c * price \in Nat /\ c * Dollar \in Nat
    BY UnitsAssumption
<1>2. (c * price) * (Dollar - price) \in Nat
    BY <1>1
<1>3. price * c <= Dollar * c
    BY <1>1, ProductGrows
<1>4. (c * price) * (Dollar - price) <= (c * Dollar) * (Dollar - price)
    BY <1>1, <1>3, ProductGrows
<1>5. (Dollar - price) * (c * Dollar) <= Dollar * (c * Dollar)
    BY <1>1, ProductGrows
<1> QED BY <1>1, <1>2, <1>4, <1>5 DEF RawFee

\* A fill is charged no more than its parts would be one by one, at the worst rate.
LEMMA FeeByParts ==
    ASSUME NEW o \in Order, NEW price \in 0..Dollar, NEW quantity \in Nat, NEW role \in Roles
    PROVE  /\ TradeFee(price, quantity, Coefficient(o, role)) \in Nat
           /\ TradeFee(price, 1, WorstCoefficient(o)) \in Nat
           /\ TradeFee(price, quantity, Coefficient(o, role))
                  <= quantity * TradeFee(price, 1, WorstCoefficient(o))
<1> DEFINE c == Coefficient(o, role)
           w == WorstCoefficient(o)
           part == CeilDiv(RawFee(price, w), FeeUnit)
<1>1. c \in Nat /\ w \in Nat /\ c <= w
    BY Coefficients
<1>2. RawFee(price, c) \in Nat /\ RawFee(price, w) \in Nat
    BY <1>1, RawFeeType
<1>3. FeeUnit \in Nat \ {0}
    BY FeeUnitType
<1>4. RawFee(price, w) * 1 = RawFee(price, w)
    BY <1>2
<1>5. TradeFee(price, 1, w) = part
    BY <1>4 DEF TradeFee, RawFee, FeeUnit
<1>6. TradeFee(price, quantity, c) = CeilDiv(RawFee(price, c) * quantity, FeeUnit)
    BY DEF TradeFee, RawFee, FeeUnit
<1>7. part \in Nat /\ RawFee(price, w) <= part * FeeUnit
    BY <1>2, <1>3, RoundingUp
<1>8. RawFee(price, c) <= RawFee(price, w)
  <2>1. Dollar - price \in Nat /\ price \in Nat
      BY UnitsAssumption
  <2>2. c * price <= w * price
      BY <1>1, <2>1, ProductGrows
  <2>3. c * price \in Int /\ w * price \in Int
      BY <1>1, <2>1
  <2> HIDE DEF c, w
  <2>4. (c * price) * (Dollar - price) <= (w * price) * (Dollar - price)
      BY <2>1, <2>2, <2>3, ProductGrows
  <2> QED BY <2>4 DEF RawFee
<1>9. RawFee(price, c) * quantity <= (quantity * part) * FeeUnit
  <2> HIDE DEF c, w, part
  <2>1. RawFee(price, c) <= part * FeeUnit /\ part * FeeUnit \in Int
      BY <1>2, <1>3, <1>7, <1>8
  <2>2. RawFee(price, c) * quantity <= (part * FeeUnit) * quantity
      BY <1>2, <2>1, ProductGrows
  <2>3. (part * FeeUnit) * quantity = (quantity * part) * FeeUnit
      BY <1>3, <1>7
  <2> QED BY <2>2, <2>3
<1>10. RawFee(price, c) * quantity \in Nat /\ quantity * part \in Nat
    BY <1>2, <1>7
<1> HIDE DEF c, w, part
<1>11. /\ CeilDiv(RawFee(price, c) * quantity, FeeUnit) \in Nat
       /\ CeilDiv(RawFee(price, c) * quantity, FeeUnit) <= quantity * part
    BY <1>3, <1>9, <1>10, RoundingUp
<1> QED BY <1>5, <1>6, <1>7, <1>11 DEF c, w

-----------------------------------------------------------------------------
(* The few prices that matter.                                             *)

\* Price and fee together before rounding, in the fee's unit: a parabola.
RawCost(price, coefficient) == RawFee(price, coefficient) + price * (Unit * Dollar)

\* The slope of the parabola between two prices.
LEMMA Slope ==
    ASSUME NEW p \in 0..Dollar, NEW s \in 0..Dollar, NEW c \in Nat
    PROVE  /\ RawCost(p, c) \in Int /\ RawCost(s, c) \in Int
           /\ RawCost(s, c) - RawCost(p, c)
                  = (s - p) * ((Dollar * c + Unit * Dollar) - c * (p + s))
<1>1. Dollar \in Int /\ Unit * Dollar \in Int
    BY UnitsAssumption
<1>2. /\ RawFee(p, c) = c * p * Dollar - c * p * p
      /\ RawFee(s, c) = c * s * Dollar - c * s * s
    BY <1>1 DEF RawFee
<1>3. \A u \in Int :
          (c * s * Dollar - c * s * s + s * u) - (c * p * Dollar - c * p * p + p * u)
              = (s - p) * ((Dollar * c + u) - c * (p + s))
    BY <1>1
<1> QED BY <1>1, <1>2, <1>3 DEF RawCost

\* Of two prices a whole number of parts apart, the one whose cost is higher before
\* rounding costs no less after it.
LEMMA RoundingKeepsOrder ==
    ASSUME NEW p \in 0..Dollar, NEW s \in 0..Dollar, NEW o \in Order,
           NEW k \in Int, s = p + k * Parts,
           RawCost(p, WorstCoefficient(o)) <= RawCost(s, WorstCoefficient(o))
    PROVE  PartCost(o, p) <= PartCost(o, s)
<1> DEFINE c == WorstCoefficient(o)
           fp == TradeFee(p, 1, c)
           fs == TradeFee(s, 1, c)
<1>1. c \in Nat /\ Parts \in Nat \ {0} /\ Unit * Dollar \in Nat \ {0}
    BY Coefficients, UnitsAssumption
<1>2. FeeUnit \in Nat \ {0} /\ FeeUnit = (Unit * Dollar) * Parts
    BY FeeUnitType
<1>3. RawFee(p, c) \in Nat /\ RawFee(s, c) \in Nat
    BY <1>1, RawFeeType
<1>4. fp = CeilDiv(RawFee(p, c), FeeUnit) /\ fs = CeilDiv(RawFee(s, c), FeeUnit)
  <2>1. RawFee(p, c) * 1 = RawFee(p, c) /\ RawFee(s, c) * 1 = RawFee(s, c)
      BY <1>3
  <2> QED BY <2>1 DEF TradeFee, RawFee, FeeUnit
<1> HIDE DEF c, fp, fs
<1>5. fp \in Int /\ fs \in Int /\ RawFee(s, c) <= fs * FeeUnit
    BY <1>2, <1>3, <1>4, RoundingUp
<1>6. s * (Unit * Dollar) - p * (Unit * Dollar) = k * FeeUnit
  <2>1. \A u \in Int : (p + k * Parts) * u - p * u = k * (u * Parts)
      BY <1>1
  <2> QED BY <1>1, <1>2, <2>1
<1>7. RawFee(p, c) <= RawFee(s, c) + k * FeeUnit
  <2>1. /\ p * (Unit * Dollar) \in Int /\ s * (Unit * Dollar) \in Int /\ k * FeeUnit \in Int
      BY <1>1, <1>2
  <2>2. RawFee(p, c) + p * (Unit * Dollar) <= RawFee(s, c) + s * (Unit * Dollar)
      BY DEF RawCost, c
  <2> QED BY <1>3, <1>6, <2>1, <2>2
<1>8. RawFee(p, c) <= (fs + k) * FeeUnit
  <2>1. (fs + k) * FeeUnit = fs * FeeUnit + k * FeeUnit
        /\ fs * FeeUnit \in Int /\ k * FeeUnit \in Int
      BY <1>2, <1>5
  <2> QED BY <1>3, <1>5, <1>7, <2>1
<1>9. fp <= fs + k
  <2>1. fs + k \in Int
      BY <1>5
  <2>2. CeilDiv(RawFee(p, c), FeeUnit) <= fs + k
      BY <1>2, <1>3, <1>8, <2>1, RoundingUpIsLeast
  <2> QED BY <1>4, <2>2
<1>10. fp * Parts <= (fs + k) * Parts
    BY <1>1, <1>5, <1>9, ProductGrows
<1>11. p + Parts * fp <= s + Parts * fs
  <2>1. fp * Parts = Parts * fp /\ (fs + k) * Parts = Parts * fs + k * Parts
        /\ Parts * fp \in Int /\ Parts * fs \in Int /\ k * Parts \in Int
      BY <1>1, <1>5
  <2> QED BY <1>10, <2>1
<1> QED BY <1>11 DEF PartCost, c, fp, fs

\* The peak is the whole price below the vertex of the parabola, unless the cap is lower.
LEMMA PeakOfParabola ==
    ASSUME NEW o \in Order
    PROVE  LET c == WorstCoefficient(o)
               height == Dollar * c + Unit * Dollar
           IN  /\ Peak(o) \in 0..o.cap /\ height \in Nat
               /\ 2 * c * Peak(o) <= height
               /\ Peak(o) < o.cap => height < 2 * c * (Peak(o) + 1)
<1> DEFINE c == WorstCoefficient(o)
           height == Dollar * c + Unit * Dollar
           vertex == height \div (2 * c)
<1>1. c \in Nat /\ height \in Nat /\ o.cap \in Nat
    BY Coefficients, UnitsAssumption DEF Order
<1>2. Peak(o) = IF c = 0 \/ vertex > o.cap THEN o.cap ELSE vertex
    BY DEF Peak
<1> HIDE DEF height, c
<1>3. CASE c = 0
    BY <1>1, <1>2, <1>3 DEF c, height
<1>4. CASE c # 0
  <2>1. 2 * c \in Nat \ {0}
      BY <1>1, <1>4
  <2>2. vertex \in Nat /\ vertex * (2 * c) <= height /\ height < vertex * (2 * c) + 2 * c
    <3> DEFINE d == 2 * c
    <3>1. d \in Nat \ {0} /\ height \in Int /\ height >= 0
        BY <1>1, <2>1
    <3> HIDE DEF d
    <3>2. height \div d \in Nat
          /\ (height \div d) * d <= height /\ height < (height \div d) * d + d
        BY <3>1, Division
    <3> QED BY <3>2 DEF d
  <2> HIDE DEF vertex
  <2>3. Peak(o) \in 0..o.cap /\ Peak(o) <= vertex
      BY <1>1, <1>2, <1>4, <2>2
  <2>4. Peak(o) * (2 * c) <= vertex * (2 * c)
      BY <2>1, <2>2, <2>3, ProductGrows
  <2>5. 2 * c * Peak(o) = Peak(o) * (2 * c) /\ Peak(o) * (2 * c) \in Int /\ vertex * (2 * c) \in Int
      BY <1>1, <2>2, <2>3
  <2>6. 2 * c * Peak(o) <= height
      BY <1>1, <2>1, <2>2, <2>4, <2>5
  <2>7. ASSUME Peak(o) < o.cap PROVE height < 2 * c * (Peak(o) + 1)
    <3>1. Peak(o) = vertex
        BY <1>2, <2>7, <1>4, <1>1
    <3>2. 2 * c * (vertex + 1) = vertex * (2 * c) + 2 * c
        BY <1>1, <2>2
    <3> QED BY <1>1, <2>1, <2>2, <3>1, <3>2
  <2> QED BY <1>1, <2>3, <2>6, <2>7 DEF c, height
<1> QED BY <1>3, <1>4

\* The prices tried for one remainder.
LastPrice(o, r) == o.cap - ((o.cap - r) % Parts)

LowerPrice(o, r) == IF Peak(o) < r THEN r ELSE r + ((Peak(o) - r) \div Parts) * Parts

UpperPrice(o, r) ==
    IF LowerPrice(o, r) + Parts <= LastPrice(o, r) THEN LowerPrice(o, r) + Parts
                                                   ELSE LastPrice(o, r)

Remainders(o) == {s \in 0..(Parts - 1) : s <= o.cap}

\* The prices tried are two of every remainder.
LEMMA PricesByRemainder ==
    ASSUME NEW o \in Order
    PROVE  PricesAround(o) = UNION {{LowerPrice(o, r), UpperPrice(o, r)} : r \in Remainders(o)}
BY DEF PricesAround, LowerPrice, UpperPrice, LastPrice, Remainders

\* The lower of them is the last of its remainder up to the peak, if there is one.
LEMMA LowerOfRemainder ==
    ASSUME NEW o \in Order, NEW r \in Remainders(o)
    PROVE  /\ LowerPrice(o, r) \in 0..o.cap
           /\ \E n \in Nat : LowerPrice(o, r) = r + n * Parts
           /\ LowerPrice(o, r) <= Peak(o) \/ LowerPrice(o, r) = r
           /\ Peak(o) < LowerPrice(o, r) + Parts
<1>1. /\ Peak(o) \in 0..o.cap /\ r \in Nat /\ r <= o.cap /\ Parts \in Nat \ {0}
      /\ o.cap \in Nat
    BY PeakOfParabola, UnitsAssumption DEF Remainders, Order
<1>2. CASE Peak(o) < r
  <2>1. LowerPrice(o, r) = r
      BY <1>2 DEF LowerPrice
  <2>2. r = r + 0 * Parts
      BY <1>1
  <2> QED BY <1>1, <1>2, <2>1, <2>2
<1>3. CASE ~(Peak(o) < r)
  <2> DEFINE d == Peak(o) - r
             n == d \div Parts
  <2>1. d \in Nat
      BY <1>1, <1>3
  <2>2. n \in Nat /\ n * Parts <= d /\ d < n * Parts + Parts
    <3>1. d \in Int /\ d >= 0 /\ Parts \in Nat \ {0}
        BY <1>1, <2>1
    <3> HIDE DEF d
    <3>2. /\ n \in Int /\ n >= 0 /\ d % Parts \in 0..(Parts - 1)
          /\ d = n * Parts + (d % Parts)
        BY <3>1, Division
    <3> QED BY <3>1, <3>2
  <2>3. LowerPrice(o, r) = r + n * Parts
      BY <1>3 DEF LowerPrice
  <2>4. n * Parts \in Nat
      BY <1>1, <2>2
  <2> HIDE DEF n
  <2> QED BY <1>1, <2>1, <2>2, <2>3, <2>4
<1> QED BY <1>2, <1>3

\* Every remainder has a last price within the cap, and the next one is above it.
LEMMA LastOfRemainder ==
    ASSUME NEW o \in Order, NEW r \in Remainders(o)
    PROVE  /\ LastPrice(o, r) \in 0..o.cap /\ o.cap < LastPrice(o, r) + Parts
           /\ \E m \in Nat : LastPrice(o, r) = r + m * Parts
<1>1. o.cap \in Nat /\ r \in Nat /\ r <= o.cap /\ Parts \in Nat \ {0}
    BY UnitsAssumption DEF Remainders, Order
<1> DEFINE d == o.cap - r
<1>2. d \in Nat /\ d <= o.cap
    BY <1>1
<1>3. r = o.cap - d
    BY <1>1
<1> HIDE DEF d
<1>4. /\ d % Parts \in 0..(Parts - 1) /\ d \div Parts \in Int /\ d \div Parts >= 0
      /\ d = (d \div Parts) * Parts + (d % Parts)
  <2>1. d \in Int /\ d >= 0 /\ Parts \in Nat \ {0}
      BY <1>1, <1>2
  <2> QED BY <2>1, Division
<1>5. (d \div Parts) * Parts \in Nat
    BY <1>1, <1>4
<1>6. d % Parts <= d
    BY <1>2, <1>4, <1>5
<1>7. LastPrice(o, r) = o.cap - (d % Parts)
    BY DEF LastPrice, d
<1>8. LastPrice(o, r) = r + (d \div Parts) * Parts
    BY <1>1, <1>2, <1>3, <1>4, <1>5, <1>7
<1>9. LastPrice(o, r) \in 0..o.cap /\ o.cap < LastPrice(o, r) + Parts
    BY <1>1, <1>2, <1>4, <1>6, <1>7
<1>10. d \div Parts \in Nat
    BY <1>4
<1> QED BY <1>8, <1>9, <1>10

\* No price above the cap is tried.
LEMMA PricesAreWithinCap ==
    ASSUME NEW o \in Order
    PROVE  PricesAround(o) \subseteq 0..o.cap
<1>1. ASSUME NEW r \in Remainders(o)
      PROVE  LowerPrice(o, r) \in 0..o.cap /\ UpperPrice(o, r) \in 0..o.cap
  <2>1. Parts \in Nat \ {0} /\ o.cap \in Nat
      BY UnitsAssumption DEF Order
  <2>2. LowerPrice(o, r) \in 0..o.cap /\ LastPrice(o, r) \in 0..o.cap
      BY LowerOfRemainder, LastOfRemainder
  <2> QED BY <2>1, <2>2 DEF UpperPrice
<1> QED BY <1>1, PricesByRemainder

\* The cost of a part is a number, and so is the highest of those tried.
LEMMA PartCostType ==
    ASSUME NEW o \in Order, NEW price \in 0..o.cap
    PROVE  LET c == WorstCoefficient(o)
           IN  /\ PartCost(o, price) \in Nat
               /\ PartCost(o, price) <= o.cap + Parts * (c * Dollar * Dollar)
<1> DEFINE c == WorstCoefficient(o)
           raw == RawFee(price, c)
           high == c * Dollar * Dollar
<1>1. c \in Nat /\ Parts \in Nat \ {0} /\ Dollar \in Nat /\ o.cap \in Nat
      /\ o.cap <= Dollar /\ FeeUnit \in Nat \ {0}
    BY Coefficients, UnitsAssumption, FeeUnitType DEF Order
<1>2. price \in 0..Dollar
    BY <1>1
<1>3. raw \in Nat /\ raw <= high
    BY <1>1, <1>2, RawFeeType
<1>4. TradeFee(price, 1, c) = CeilDiv(raw, FeeUnit)
  <2>1. RawFee(price, c) * 1 = RawFee(price, c)
      BY <1>3
  <2> QED BY <2>1 DEF TradeFee, RawFee, FeeUnit
<1>5. high \in Nat
    BY <1>1
<1> HIDE DEF raw, high, c
<1>6. raw <= raw * FeeUnit
    BY <1>1, <1>3, ProductGrows
<1>7. CeilDiv(raw, FeeUnit) \in Nat /\ CeilDiv(raw, FeeUnit) <= raw
  <2>1. raw \in Int /\ raw >= 0 /\ FeeUnit \in Nat \ {0}
      BY <1>1, <1>3
  <2>2. CeilDiv(raw, FeeUnit) \in Int /\ CeilDiv(raw, FeeUnit) >= 0
      BY <2>1, RoundingUp
  <2>3. CeilDiv(raw, FeeUnit) <= raw
      BY <2>1, <1>6, RoundingUpIsLeast
  <2> QED BY <2>2, <2>3
<1>8. CeilDiv(raw, FeeUnit) * Parts <= high * Parts
    BY <1>1, <1>3, <1>5, <1>7, ProductGrows
<1>9. PartCost(o, price) = price + Parts * CeilDiv(raw, FeeUnit)
    BY <1>4 DEF PartCost, c
<1>10. Parts * CeilDiv(raw, FeeUnit) = CeilDiv(raw, FeeUnit) * Parts
       /\ Parts * high = high * Parts /\ Parts * CeilDiv(raw, FeeUnit) \in Nat
       /\ Parts * high \in Nat
    BY <1>1, <1>5, <1>7
<1>11. PartCost(o, price) \in Nat /\ PartCost(o, price) <= o.cap + Parts * high
    BY <1>1, <1>8, <1>9, <1>10
<1> QED BY <1>11 DEF high, c

\* The cost taken from the grid is a number.
LEMMA GridCostType ==
    ASSUME NEW o \in Order
    PROVE  GridCost(o) \in Nat
<1> DEFINE unit == Grid * Parts
<1>1. o.cap \in Int /\ o.cap >= 0 /\ unit \in Nat \ {0}
    BY UnitsAssumption DEF Order
<1> HIDE DEF unit
<1>2. CeilDiv(o.cap, unit) \in Int /\ CeilDiv(o.cap, unit) >= 0
    BY <1>1, RoundingUp
<1>3. CeilDiv(o.cap, unit) \in Nat
    BY <1>2
<1> QED BY <1>3, UnitsAssumption DEF GridCost, unit

\* The worst part's cost is a number no cost that was tried exceeds.
LEMMA WorstPartCostIsWorst ==
    ASSUME NEW o \in Order
    PROVE  /\ WorstPartCost(o) \in Nat
           /\ GridCost(o) <= WorstPartCost(o)
           /\ \A price \in PricesAround(o) : PartCost(o, price) <= WorstPartCost(o)
<1> DEFINE S == {GridCost(o)} \cup {PartCost(o, price) : price \in PricesAround(o)}
           high == o.cap + Parts * (WorstCoefficient(o) * Dollar * Dollar)
           bound == GridCost(o) + high
<1>1. GridCost(o) \in Nat /\ high \in Nat
    BY GridCostType, Coefficients, UnitsAssumption DEF Order
<1>2. \A price \in PricesAround(o) : PartCost(o, price) \in Nat /\ PartCost(o, price) <= high
    BY PricesAreWithinCap, PartCostType
<1> HIDE DEF high
<1>3. S \subseteq Nat /\ S # {} /\ bound \in Nat /\ \A x \in S : x <= bound
    BY <1>1, <1>2
<1>4. Max(S) \in S /\ \A x \in S : x <= Max(S)
    BY <1>3, MaxExists
<1> QED BY <1>3, <1>4 DEF WorstPartCost

\* Below the peak the cost before rounding grows with the price, above it falls.
LEMMA CostRisesToThePeak ==
    ASSUME NEW o \in Order, NEW p \in 0..o.cap, NEW s \in 0..o.cap, p <= s, s <= Peak(o)
    PROVE  RawCost(p, WorstCoefficient(o)) <= RawCost(s, WorstCoefficient(o))
<1> DEFINE c == WorstCoefficient(o)
           height == Dollar * c + Unit * Dollar
<1>1. /\ c \in Nat /\ Peak(o) \in 0..o.cap /\ height \in Nat
      /\ 2 * c * Peak(o) <= height
    BY Coefficients, PeakOfParabola
<1>2. p \in 0..Dollar /\ s \in 0..Dollar
    BY UnitsAssumption DEF Order
<1>3. /\ RawCost(p, c) \in Int /\ RawCost(s, c) \in Int
      /\ RawCost(s, c) - RawCost(p, c) = (s - p) * (height - c * (p + s))
    BY <1>1, <1>2, Slope
<1> HIDE DEF c, height
<1>4. (p + s) * c <= (2 * Peak(o)) * c
    BY <1>1, ProductGrows
<1>5. (p + s) * c = c * (p + s) /\ (2 * Peak(o)) * c = 2 * c * Peak(o) /\ c * (p + s) \in Int
      /\ 2 * c * Peak(o) \in Int
    BY <1>1
<1>6. height - c * (p + s) \in Nat /\ s - p \in Nat
    BY <1>1, <1>4, <1>5
<1>7. (s - p) * (height - c * (p + s)) >= 0
    BY <1>6
<1> QED BY <1>3, <1>7 DEF c

\* Above the peak, price and fee together fall as the price rises.
LEMMA CostFallsFromThePeak ==
    ASSUME NEW o \in Order, NEW p \in 0..o.cap, NEW s \in 0..o.cap, s <= p, Peak(o) < s
    PROVE  RawCost(p, WorstCoefficient(o)) <= RawCost(s, WorstCoefficient(o))
<1> DEFINE c == WorstCoefficient(o)
           height == Dollar * c + Unit * Dollar
<1>1. /\ c \in Nat /\ Peak(o) \in 0..o.cap /\ height \in Nat
      /\ height < 2 * c * (Peak(o) + 1)
  <2>1. o.cap \in Nat /\ Peak(o) \in 0..o.cap
      BY PeakOfParabola DEF Order
  <2>2. Peak(o) < o.cap
      BY <2>1
  <2> QED BY <2>2, Coefficients, PeakOfParabola
<1>2. p \in 0..Dollar /\ s \in 0..Dollar
    BY UnitsAssumption DEF Order
<1>3. /\ RawCost(p, c) \in Int /\ RawCost(s, c) \in Int
      /\ RawCost(s, c) - RawCost(p, c) = (s - p) * (height - c * (p + s))
    BY <1>1, <1>2, Slope
<1> HIDE DEF c, height
<1>4. (2 * (Peak(o) + 1)) * c <= (p + s) * c
    BY <1>1, ProductGrows
<1>5. /\ (p + s) * c = c * (p + s)
      /\ (2 * (Peak(o) + 1)) * c = 2 * c * (Peak(o) + 1) /\ c * (p + s) \in Int
      /\ 2 * c * (Peak(o) + 1) \in Int
    BY <1>1
<1>6. c * (p + s) - height \in Nat /\ p - s \in Nat
    BY <1>1, <1>4, <1>5
<1>7. (s - p) * (height - c * (p + s)) = (p - s) * (c * (p + s) - height)
  <2>1. \A x \in Int : (s - p) * (height - x) = (p - s) * (x - height)
      BY <1>1
  <2> QED BY <1>5, <2>1
<1>8. (p - s) * (c * (p + s) - height) >= 0
    BY <1>6
<1> QED BY <1>3, <1>7, <1>8 DEF c

\* Every price up to the cap is covered by one that is tried.
LEMMA PricesSuffice ==
    ASSUME NEW o \in Order, NEW price \in 0..o.cap
    PROVE  PartCost(o, price) <= WorstPartCost(o)
<1> DEFINE r == price % Parts
           j == price \div Parts
           lower == LowerPrice(o, r)
           upper == UpperPrice(o, r)
<1>1. /\ Parts \in Nat \ {0} /\ o.cap \in Nat /\ price \in Nat /\ price <= o.cap
      /\ o.cap <= Dollar /\ Dollar \in Nat
    BY UnitsAssumption DEF Order
<1>2. r \in 0..(Parts - 1) /\ j \in Nat /\ price = j * Parts + r
  <2>1. price \in Int /\ price >= 0 /\ Parts \in Nat \ {0}
      BY <1>1
  <2>2. r \in 0..(Parts - 1) /\ j \in Int /\ j >= 0 /\ price = j * Parts + r
      BY <2>1, Division
  <2> QED BY <2>2
<1>3. r \in Remainders(o)
  <2>1. j * Parts \in Nat
      BY <1>1, <1>2
  <2> QED BY <1>1, <1>2, <2>1 DEF Remainders
<1>4. lower \in PricesAround(o) /\ upper \in PricesAround(o)
    BY <1>3, PricesByRemainder
<1>5. PICK n \in Nat : lower = r + n * Parts
    BY <1>3, LowerOfRemainder
<1>6. /\ lower \in 0..o.cap /\ (lower <= Peak(o) \/ lower = r) /\ Peak(o) < lower + Parts
      /\ Peak(o) \in 0..o.cap
    BY <1>3, LowerOfRemainder, PeakOfParabola
<1>7. /\ LastPrice(o, r) \in 0..o.cap /\ o.cap < LastPrice(o, r) + Parts
      /\ \E m \in Nat : LastPrice(o, r) = r + m * Parts
    BY <1>3, LastOfRemainder
<1>8. upper = IF lower + Parts <= LastPrice(o, r) THEN lower + Parts ELSE LastPrice(o, r)
    BY DEF UpperPrice
<1> HIDE DEF r, j, lower, upper
<1>9. CASE price <= lower
  <2>1. RawCost(price, WorstCoefficient(o)) <= RawCost(lower, WorstCoefficient(o))
    <3>1. CASE lower <= Peak(o)
        BY <1>6, <1>9, <3>1, CostRisesToThePeak
    <3>2. CASE lower = r
      <4>1. j * Parts \in Nat
          BY <1>1, <1>2
      <4>2. price = lower
          BY <1>1, <1>2, <1>9, <3>2, <4>1
      <4>3. RawCost(price, WorstCoefficient(o)) \in Int
        <5>1. price \in 0..Dollar
            BY <1>1
        <5> QED BY <5>1, Coefficients, Slope
      <4> QED BY <4>2, <4>3
    <3> QED BY <1>6, <3>1, <3>2
  <2>2. lower = price + (n - j) * Parts
      BY <1>1, <1>2, <1>5
  <2>3. PartCost(o, price) <= PartCost(o, lower)
    <3>1. price \in 0..Dollar /\ lower \in 0..Dollar /\ n - j \in Int
        BY <1>1, <1>2, <1>6
    <3> QED BY <2>1, <2>2, <3>1, RoundingKeepsOrder
  <2> QED BY <1>4, <1>6, <2>3, PartCostType, WorstPartCostIsWorst
<1>10. CASE price > lower
  <2>1. n + 1 <= j
    <3>1. (n * Parts) < j * Parts /\ (n * Parts) \in Int /\ (j * Parts) \in Int
        BY <1>1, <1>2, <1>5, <1>10
    <3>2. CASE j <= n
        BY <1>1, <1>2, <3>1, <3>2, ProductGrows
    <3> QED BY <1>2, <3>2
  <2>2. lower + Parts <= price
    <3>1. (n + 1) * Parts <= j * Parts
        BY <1>1, <1>2, <2>1, ProductGrows
    <3>2. (n + 1) * Parts = n * Parts + Parts /\ n * Parts \in Int /\ j * Parts \in Int
        BY <1>1, <1>2
    <3> QED BY <1>1, <1>2, <1>5, <3>1, <3>2
  <2>3. price <= LastPrice(o, r)
    <3>1. PICK m \in Nat : LastPrice(o, r) = r + m * Parts
        BY <1>7
    <3>2. j * Parts < m * Parts + Parts /\ j * Parts \in Int /\ m * Parts \in Int
        BY <1>1, <1>2, <1>7, <3>1
    <3>3. j <= m
        BY <1>1, <1>2, <3>2, FactorCancels
    <3>4. j * Parts <= m * Parts
        BY <1>1, <1>2, <3>3, ProductGrows
    <3> QED BY <1>1, <1>2, <3>1, <3>2, <3>4
  <2>4. upper = lower + Parts
      BY <1>1, <1>6, <1>7, <1>8, <2>2, <2>3
  <2>5. upper \in 0..o.cap /\ upper <= price /\ Peak(o) < upper
      BY <1>1, <1>6, <2>2, <2>4
  <2>6. RawCost(price, WorstCoefficient(o)) <= RawCost(upper, WorstCoefficient(o))
      BY <2>5, CostFallsFromThePeak
  <2>7. upper = price + (n + 1 - j) * Parts
      BY <1>1, <1>2, <1>5, <2>4
  <2>8. PartCost(o, price) <= PartCost(o, upper)
    <3>1. price \in 0..Dollar /\ upper \in 0..Dollar /\ n + 1 - j \in Int
        BY <1>1, <1>2, <2>5
    <3> QED BY <2>6, <2>7, <3>1, RoundingKeepsOrder
  <2> QED BY <1>4, <2>5, <2>8, PartCostType, WorstPartCostIsWorst
<1> QED BY <1>1, <1>6, <1>9, <1>10

-----------------------------------------------------------------------------
(* A fill.                                                                 *)

\* What is put on the grid is rounded down, by less than its unit.
LEMMA OnGridRoundsDown ==
    ASSUME NEW a \in Nat
    PROVE  /\ OnGrid(a) \in Nat /\ OnGrid(a) <= a /\ a < OnGrid(a) + Grid
           /\ OnGrid(a) % Grid = 0
<1>1. Grid \in Nat \ {0} /\ a \in Int /\ a >= 0
    BY UnitsAssumption
<1>2. /\ a \div Grid \in Int /\ a \div Grid >= 0 /\ a % Grid \in 0..(Grid - 1)
      /\ a = (a \div Grid) * Grid + (a % Grid)
    BY <1>1, Division
<1>3. OnGrid(a) = (a \div Grid) * Grid
    BY DEF OnGrid
<1>4. OnGrid(a) \in Nat
    BY <1>1, <1>2, <1>3
<1>5. OnGrid(a) <= a /\ a < OnGrid(a) + Grid
    BY <1>1, <1>2, <1>3, <1>4
<1>6. OnGrid(a) % Grid = 0
  <2>1. 0 \in 0..(Grid - 1) /\ OnGrid(a) = (a \div Grid) * Grid + 0
      BY <1>1, <1>3, <1>4
  <2> QED BY <1>1, <1>2, <2>1, DivisionIsUnique
<1> QED BY <1>4, <1>5, <1>6

\* What an accumulator holds, up to less than a unit of the grid.
Capped(a) == Min({a, Grid - 1})

\* What an accumulator counts for is capped below a unit of the grid.
LEMMA CappedType ==
    ASSUME NEW a \in Nat
    PROVE  /\ Capped(a) \in Nat /\ Capped(a) <= a /\ Capped(a) <= Grid - 1
           /\ Capped(a) = IF a <= Grid - 1 THEN a ELSE Grid - 1
<1>1. Grid - 1 \in Nat
    BY UnitsAssumption
<1>2. Capped(a) = IF a <= Grid - 1 THEN a ELSE Grid - 1
    BY <1>1 DEF Capped, Min
<1> QED BY <1>1, <1>2

\* A posting moves cash in units of the grid and loses nothing.  Either its fee is less
\* than a unit, and is charged whole; or what exceeds a unit in the accumulator shrinks.
LEMMA PostingOnGrid ==
    ASSUME NEW revenue \in Int, NEW fee \in Nat, NEW accumulated \in Nat
    PROVE  LET posting == Posting(revenue, fee, accumulated)
               rounding == (revenue - fee) % Grid
           IN  /\ rounding \in 0..(Grid - 1)
               /\ posting.fee \in Nat /\ posting.accumulator \in Nat
               /\ posting.fee - posting.accumulator = fee - accumulated
               /\ (revenue - posting.fee) % Grid = 0
               /\ \/ /\ fee + rounding < Grid
                     /\ posting.fee = fee + rounding
                     /\ accumulated <= posting.accumulator
                  \/ posting.accumulator - Capped(posting.accumulator)
                        <= accumulated - Capped(accumulated)
<1> DEFINE rounding == (revenue - fee) % Grid
           rebate == Rebate(accumulated + rounding, fee + rounding)
           after == accumulated + rounding - rebate
<1>1. Grid \in Nat \ {0}
    BY UnitsAssumption
<1>2. /\ rounding \in 0..(Grid - 1)
      /\ revenue - fee = ((revenue - fee) \div Grid) * Grid + rounding
      /\ (revenue - fee) \div Grid \in Int
  <2>1. revenue - fee \in Int
      OBVIOUS
  <2> QED BY <1>1, <2>1, Division
<1>3. /\ Posting(revenue, fee, accumulated).fee = fee + rounding - rebate
      /\ Posting(revenue, fee, accumulated).accumulator = after
    BY DEF Posting
<1> HIDE DEF rounding
<1>4. accumulated + rounding \in Nat /\ fee + rounding \in Nat /\ rounding \in Nat
    BY <1>2
<1>5. /\ rebate \in Nat /\ rebate % Grid = 0
      /\ rebate <= OnGrid(accumulated + rounding) /\ rebate <= OnGrid(fee + rounding)
      /\ rebate = OnGrid(accumulated + rounding) \/ rebate = OnGrid(fee + rounding)
    BY <1>4, OnGridRoundsDown DEF Rebate
<1>6. /\ OnGrid(accumulated + rounding) \in Nat /\ OnGrid(fee + rounding) \in Nat
      /\ OnGrid(accumulated + rounding) <= accumulated + rounding
      /\ OnGrid(fee + rounding) <= fee + rounding
      /\ accumulated + rounding < OnGrid(accumulated + rounding) + Grid
      /\ OnGrid(fee + rounding) % Grid = 0
      /\ fee + rounding < OnGrid(fee + rounding) + Grid
    BY <1>4, OnGridRoundsDown
<1> HIDE DEF rebate
<1>7. fee + rounding - rebate \in Nat /\ after \in Nat
    BY <1>4, <1>5, <1>6
<1>8. (fee + rounding - rebate) - after = fee - accumulated
    BY <1>4, <1>5
<1>9. (revenue - (fee + rounding - rebate)) % Grid = 0
  <2> DEFINE k == (revenue - fee) \div Grid
  <2>1. (((revenue - fee) \div Grid) * Grid + 0) % Grid = 0
    <3>1. k \in Int /\ 0 \in 0..(Grid - 1)
        BY <1>1, <1>2
    <3> HIDE DEF k
    <3>2. (k * Grid + 0) % Grid = 0
        BY <1>1, <3>1, DivisionIsUnique
    <3> QED BY <3>2 DEF k
  <2>2. (revenue - fee) - rounding = ((revenue - fee) \div Grid) * Grid + 0
      BY <1>1, <1>2
  <2> DEFINE posted == (revenue - fee) - rounding
  <2>3. posted \in Int /\ posted % Grid = 0
      BY <1>4, <2>1, <2>2
  <2> HIDE DEF posted
  <2>4. (posted + rebate) % Grid = 0
    <3>1. rebate \in Int
        BY <1>5
    <3> QED BY <1>1, <1>5, <2>3, <3>1, GridAdds
  <2>5. revenue - (fee + rounding - rebate) = posted + rebate
      BY <1>4, <1>5 DEF posted
  <2> QED BY <2>4, <2>5
<1>10. CASE OnGrid(fee + rounding) = 0
  <2>1. rebate = 0
      BY <1>5, <1>10
  <2>2. fee + rounding < Grid
      BY <1>1, <1>4, <1>6, <1>10
  <2>3. fee + rounding - rebate = fee + rounding /\ accumulated <= after
      BY <1>4, <2>1
  <2> QED BY <1>2, <1>3, <1>7, <1>8, <1>9, <2>2, <2>3 DEF rounding
<1>11. CASE OnGrid(fee + rounding) # 0
  <2>1. OnGrid(fee + rounding) >= Grid
    <3> DEFINE g == OnGrid(fee + rounding)
    <3>1. g \in Nat /\ g # 0 /\ g = (g \div Grid) * Grid /\ g \div Grid \in Int
      <4>1. g \in Int /\ g # 0 /\ g \in Nat /\ g % Grid = 0
          BY <1>6, <1>11
      <4> HIDE DEF g
      <4>2. g = (g \div Grid) * Grid + (g % Grid) /\ g \div Grid \in Int
          BY <1>1, <4>1, Division
      <4> QED BY <1>1, <4>1, <4>2
    <3> HIDE DEF g
    <3>2. ASSUME g \div Grid <= 0 PROVE FALSE
      <4>1. (g \div Grid) * Grid <= 0 * Grid
          BY <1>1, <3>1, <3>2, ProductGrows
      <4> QED BY <1>1, <3>1, <4>1
    <3>3. 1 * Grid <= (g \div Grid) * Grid
        BY <1>1, <3>1, <3>2, ProductGrows
    <3> QED BY <1>1, <3>1, <3>3 DEF g
  <2>2. after <= Grid - 1 \/ after < accumulated
    <3>1. CASE rebate = OnGrid(accumulated + rounding)
        BY <1>1, <1>4, <1>6, <3>1
    <3>2. CASE rebate = OnGrid(fee + rounding)
        BY <1>1, <1>2, <1>4, <1>6, <2>1, <3>2
    <3> QED BY <1>5, <3>1, <3>2
  <2>3. after - Capped(after) <= accumulated - Capped(accumulated)
    <3> HIDE DEF after
    <3>1. /\ Capped(after) \in Nat /\ Capped(accumulated) \in Nat
          /\ Capped(accumulated) <= accumulated
          /\ Capped(after) = IF after <= Grid - 1 THEN after ELSE Grid - 1
          /\ Capped(accumulated) = IF accumulated <= Grid - 1 THEN accumulated ELSE Grid - 1
        BY <1>7, CappedType
    <3> QED BY <1>1, <1>7, <2>2, <3>1
  <2> QED BY <1>2, <1>3, <1>7, <1>8, <1>9, <2>3 DEF rounding
<1> QED BY <1>10, <1>11

\* A principal that is exact is the price for the quantity, with nothing rounded off.
LEMMA ExactPrincipal ==
    ASSUME NEW price \in Nat, NEW quantity \in Nat, IsExact(price, quantity)
    PROVE  /\ Principal(price, quantity) \in Nat
           /\ Principal(price, quantity) * Parts = price * quantity
<1> DEFINE product == price * quantity
<1>1. product \in Int /\ product >= 0 /\ Parts \in Nat \ {0}
    BY UnitsAssumption
<1>2. product % Parts = 0
    BY DEF IsExact
<1>3. Principal(price, quantity) = product \div Parts
    BY DEF Principal
<1> HIDE DEF product
<1>4. product \div Parts \in Int /\ product \div Parts >= 0
      /\ product = (product \div Parts) * Parts + (product % Parts)
    BY <1>1, Division
<1> QED BY <1>1, <1>2, <1>3, <1>4 DEF product

\* A fill at or below the cap whose fee is less than a unit of the grid costs no more
\* than its parts at the cap, rounded up.
LEMMA SmallFeeIsCovered ==
    ASSUME NEW o \in Order, NEW price \in 0..o.cap, NEW quantity \in Nat,
           IsExact(price, quantity), NEW cost \in Nat, cost % Grid = 0,
           cost < Principal(price, quantity) + Grid
    PROVE  Parts * cost <= quantity * WorstPartCost(o)
<1> DEFINE principal == Principal(price, quantity)
           m == CeilDiv(o.cap, Grid * Parts)
           k == cost \div Grid
<1>1. Parts \in Nat \ {0} /\ Grid \in Nat \ {0} /\ o.cap \in Nat /\ price \in Nat
    BY UnitsAssumption DEF Order
<1>2. principal \in Nat /\ principal * Parts = price * quantity
    BY <1>1, ExactPrincipal
<1>3. m \in Nat /\ o.cap <= m * (Grid * Parts)
  <2> DEFINE unit == Grid * Parts
  <2>1. unit \in Nat \ {0} /\ o.cap \in Int /\ o.cap >= 0
      BY <1>1
  <2> HIDE DEF unit
  <2>2. CeilDiv(o.cap, unit) \in Int /\ CeilDiv(o.cap, unit) >= 0
        /\ o.cap <= CeilDiv(o.cap, unit) * unit
      BY <2>1, RoundingUp
  <2> QED BY <2>2 DEF unit
<1>4. k \in Nat /\ cost = k * Grid
  <2>1. cost \in Int /\ cost >= 0
      OBVIOUS
  <2>2. k \in Int /\ k >= 0 /\ cost = k * Grid + (cost % Grid)
      BY <1>1, <2>1, Division
  <2> QED BY <1>1, <2>2
<1>5. GridCost(o) = m * Grid * Parts
    BY DEF GridCost
<1>6. GridCost(o) \in Nat /\ WorstPartCost(o) \in Nat /\ GridCost(o) <= WorstPartCost(o)
    BY GridCostType, WorstPartCostIsWorst
<1>7. cost < principal + Grid
    OBVIOUS
<1> HIDE DEF principal, m, k
<1>8. principal <= quantity * m * Grid
  <2>1. price * quantity <= (m * (Grid * Parts)) * quantity
    <3>1. m * (Grid * Parts) \in Int /\ price <= m * (Grid * Parts)
        BY <1>1, <1>3
    <3> QED BY <1>1, <3>1, ProductGrows
  <2>2. (m * (Grid * Parts)) * quantity = (quantity * m * Grid) * Parts
        /\ quantity * m * Grid \in Int
      BY <1>1, <1>3
  <2>3. principal * Parts <= (quantity * m * Grid) * Parts
      BY <1>2, <2>1, <2>2
  <2>4. principal * Parts \in Int /\ (quantity * m * Grid) * Parts \in Int
      BY <1>1, <1>2, <2>2
  <2>5. principal * Parts < (quantity * m * Grid) * Parts + Parts
      BY <1>1, <2>3, <2>4
  <2> QED BY <1>1, <1>2, <2>2, <2>5, FactorCancels
<1>9. k <= quantity * m
  <2>1. quantity * m \in Int /\ (quantity * m) * Grid \in Int
        /\ quantity * m * Grid = (quantity * m) * Grid
      BY <1>1, <1>3
  <2>2. k * Grid < (quantity * m) * Grid + Grid
      BY <1>1, <1>2, <1>4, <1>7, <1>8, <2>1
  <2> QED BY <1>1, <1>4, <2>1, <2>2, FactorCancels
<1>10. Parts * cost <= quantity * GridCost(o)
  <2>1. quantity * m \in Int /\ Grid * Parts \in Nat
      BY <1>1, <1>3
  <2>2. k * (Grid * Parts) <= (quantity * m) * (Grid * Parts)
      BY <1>4, <1>9, <2>1, ProductGrows
  <2>3. Parts * cost = k * (Grid * Parts)
      BY <1>1, <1>4
  <2>4. quantity * GridCost(o) = (quantity * m) * (Grid * Parts)
      BY <1>1, <1>3, <1>5
  <2> QED BY <2>2, <2>3, <2>4
<1>11. GridCost(o) * quantity <= WorstPartCost(o) * quantity
    BY <1>6, ProductGrows
<1>12. /\ quantity * GridCost(o) = GridCost(o) * quantity
       /\ quantity * WorstPartCost(o) = WorstPartCost(o) * quantity
       /\ quantity * GridCost(o) \in Int /\ quantity * WorstPartCost(o) \in Int
       /\ Parts * cost \in Int
    BY <1>1, <1>6
<1> QED BY <1>10, <1>11, <1>12

\* At any price and in either role, principal and trade fee are within the worst cost.
LEMMA FeeIsCovered ==
    ASSUME NEW o \in Order, NEW price \in 0..o.cap, NEW quantity \in Nat, NEW role \in Roles,
           IsExact(price, quantity)
    PROVE  LET fee == TradeFee(price, quantity, Coefficient(o, role))
           IN  /\ fee \in Nat
               /\ Parts * (Principal(price, quantity) + fee) <= quantity * WorstPartCost(o)
<1> DEFINE fee == TradeFee(price, quantity, Coefficient(o, role))
           part == TradeFee(price, 1, WorstCoefficient(o))
           principal == Principal(price, quantity)
           worst == WorstPartCost(o)
<1>1. Parts \in Nat \ {0} /\ price \in Nat /\ price \in 0..Dollar
    BY UnitsAssumption DEF Order
<1>2. principal \in Nat /\ principal * Parts = price * quantity
    BY <1>1, ExactPrincipal
<1>3. fee \in Nat /\ part \in Nat /\ fee <= quantity * part
    BY <1>1, FeeByParts
<1>4. worst \in Nat /\ price + Parts * part <= worst
    BY PricesSuffice, WorstPartCostIsWorst DEF PartCost
<1> HIDE DEF fee, part, principal, worst
<1>5. fee * Parts <= (quantity * part) * Parts
    BY <1>1, <1>3, ProductGrows
<1>6. (price + Parts * part) * quantity <= worst * quantity
    BY <1>1, <1>3, <1>4, ProductGrows
<1>7. /\ Parts * (principal + fee) = principal * Parts + fee * Parts
      /\ (price + Parts * part) * quantity = price * quantity + (quantity * part) * Parts
      /\ quantity * worst = worst * quantity
      /\ price * quantity \in Int /\ fee * Parts \in Int /\ (quantity * part) * Parts \in Int
      /\ worst * quantity \in Int
    BY <1>1, <1>2, <1>3, <1>4
<1>8. Parts * (principal + fee) <= quantity * worst
    BY <1>2, <1>5, <1>6, <1>7
<1> QED BY <1>3, <1>8 DEF fee, principal, worst

\* What a buy's fill takes, with what the accumulator loses, is within the worst cost.
LEMMA FillIsCovered ==
    ASSUME NEW o \in Order, NEW price \in 0..o.cap, NEW quantity \in Nat, NEW role \in Roles,
           IsExact(price, quantity), NEW accumulated \in Nat
    PROVE  LET principal == Principal(price, quantity)
               posting == Posting(-principal, TradeFee(price, quantity, Coefficient(o, role)),
                                  accumulated)
           IN  Parts * (principal + posting.fee + Capped(accumulated))
                   <= quantity * WorstPartCost(o) + Parts * Capped(posting.accumulator)
<1> DEFINE principal == Principal(price, quantity)
           fee == TradeFee(price, quantity, Coefficient(o, role))
           posting == Posting(-principal, fee, accumulated)
           rounding == (-principal - fee) % Grid
           worst == WorstPartCost(o)
           paid == posting.fee
           after == posting.accumulator
<1>1. /\ Parts \in Nat \ {0} /\ Grid \in Nat \ {0} /\ price \in Nat
      /\ principal \in Nat /\ fee \in Nat /\ worst \in Nat
      /\ Parts * (principal + fee) <= quantity * worst
    BY UnitsAssumption, ExactPrincipal, FeeIsCovered, WorstPartCostIsWorst DEF Order
<1>2. /\ rounding \in 0..(Grid - 1) /\ paid \in Nat /\ after \in Nat
      /\ paid - after = fee - accumulated
      /\ (-principal - paid) % Grid = 0
      /\ \/ fee + rounding < Grid /\ paid = fee + rounding /\ accumulated <= after
         \/ after - Capped(after) <= accumulated - Capped(accumulated)
  <2>1. -principal \in Int
      BY <1>1
  <2> HIDE DEF principal, fee
  <2> QED BY <1>1, <2>1, PostingOnGrid
<1>3. /\ Capped(after) \in Nat /\ Capped(accumulated) \in Nat
      /\ accumulated <= after => Capped(accumulated) <= Capped(after)
  <2>1. after \in Nat
      BY <1>2
  <2> HIDE DEF after
  <2>2. /\ Capped(after) \in Nat /\ Capped(after) = IF after <= Grid - 1 THEN after ELSE Grid - 1
        /\ Capped(accumulated) \in Nat
        /\ Capped(accumulated) = IF accumulated <= Grid - 1 THEN accumulated ELSE Grid - 1
      BY <2>1, CappedType
  <2> QED BY <1>1, <2>1, <2>2
<1>4. ASSUME fee + rounding < Grid, paid = fee + rounding, accumulated <= after
      PROVE  Parts * (principal + paid + Capped(accumulated))
                 <= quantity * worst + Parts * Capped(after)
  <2> DEFINE cost == principal + paid
  <2>1. cost \in Nat /\ cost < principal + Grid
      BY <1>1, <1>2, <1>4
  <2>2. cost % Grid = 0
    <3> DEFINE posted == -principal - paid
    <3>1. posted \in Int /\ posted % Grid = 0 /\ 0 \in Int /\ 0 % Grid = 0
        BY <1>1, <1>2
    <3>2. cost = 0 - posted
        BY <1>1, <1>2
    <3> HIDE DEF posted, cost
    <3>3. (0 - posted) % Grid = 0
        BY <1>1, <3>1, GridAdds
    <3> QED BY <3>2, <3>3
  <2>3. Parts * cost <= quantity * worst
    <3> HIDE DEF cost, paid
    <3> QED BY <1>1, <2>1, <2>2, SmallFeeIsCovered
  <2>4. Capped(accumulated) * Parts <= Capped(after) * Parts
      BY <1>1, <1>3, <1>4, ProductGrows
  <2>5. /\ Parts * (cost + Capped(accumulated)) = Parts * cost + Capped(accumulated) * Parts
        /\ Parts * Capped(after) = Capped(after) * Parts
        /\ Parts * cost \in Int /\ Capped(accumulated) * Parts \in Int
        /\ Capped(after) * Parts \in Int /\ quantity * worst \in Int
      BY <1>1, <1>3, <2>1
  <2>6. Parts * (cost + Capped(accumulated)) <= quantity * worst + Parts * Capped(after)
      BY <2>3, <2>4, <2>5
  <2> QED BY <2>6
<1>5. ASSUME after - Capped(after) <= accumulated - Capped(accumulated)
      PROVE  Parts * (principal + paid + Capped(accumulated))
                 <= quantity * worst + Parts * Capped(after)
  <2>1. principal + paid + Capped(accumulated) <= principal + fee + Capped(after)
      BY <1>1, <1>2, <1>3, <1>5
  <2>2. (principal + paid + Capped(accumulated)) * Parts
            <= (principal + fee + Capped(after)) * Parts
      BY <1>1, <1>2, <1>3, <2>1, ProductGrows
  <2>3. /\ Parts * (principal + paid + Capped(accumulated))
              = (principal + paid + Capped(accumulated)) * Parts
        /\ (principal + fee + Capped(after)) * Parts
              = Parts * (principal + fee) + Parts * Capped(after)
        /\ Parts * (principal + fee) \in Int /\ Parts * Capped(after) \in Int
        /\ quantity * worst \in Int
        /\ (principal + paid + Capped(accumulated)) * Parts \in Int
      BY <1>1, <1>2, <1>3
  <2> HIDE DEF principal, fee, worst, paid, after
  <2> QED BY <1>1, <2>2, <2>3
<1> HIDE DEF worst
<1>6. Parts * (principal + paid + Capped(accumulated)) <= quantity * worst + Parts * Capped(after)
    BY <1>2, <1>4, <1>5
<1> QED BY <1>6 DEF worst

-----------------------------------------------------------------------------
(* The order's fills.                                                      *)

FeeInvariant == TypeOK /\ RoundingIsKept /\ SpendingInvariant

\* An order starts with nothing charged and nothing spent.
LEMMA FeesStart == Init => FeeInvariant
<1> SUFFICES ASSUME Init PROVE FeeInvariant
    OBVIOUS
<1>1. order \in Order /\ order.quantity \in Nat
    BY UnitsAssumption DEF Init, Order
<1>2. TypeOK
    BY <1>1 DEF Init, TypeOK
<1>3. RoundingIsKept
  <2>1. 0 % Grid = 0
      BY UnitsAssumption
  <2> QED BY <2>1 DEF Init, RoundingIsKept
<1>4. SpendingInvariant
  <2>1. Capped(0) = 0
      BY CappedType, UnitsAssumption
  <2>2. Parts * 0 = 0 /\ 0 * WorstPartCost(order) = 0
      BY <1>1, UnitsAssumption, WorstPartCostIsWorst
  <2>3. spent = 0 /\ filled = 0 /\ Min({accumulator, Grid - 1}) = 0
      BY <2>1 DEF Init, Capped
  <2>4. Parts * spent <= filled * WorstPartCost(order) + Parts * Min({accumulator, Grid - 1})
      BY <2>2, <2>3
  <2> QED BY <2>4 DEF SpendingInvariant
<1> QED BY <1>2, <1>3, <1>4 DEF FeeInvariant

\* The facts of one fill.
LEMMA FillFacts ==
    ASSUME NEW price \in 0..Dollar, NEW quantity \in 1..order.quantity, NEW role \in Roles,
           FeeInvariant, Fill(price, quantity, role)
    PROVE  LET principal == Principal(price, quantity)
               revenue == IF order.action = "Buy" THEN -principal ELSE principal
               fee == TradeFee(price, quantity, Coefficient(order, role))
               posting == Posting(revenue, fee, accumulator)
           IN  /\ order \in Order /\ price \in Nat /\ quantity \in Nat
               /\ principal \in Nat /\ revenue \in Int /\ fee \in Nat
               /\ posting.fee \in Nat /\ posting.accumulator \in Nat
               /\ posting.fee - posting.accumulator = fee - accumulator
               /\ (revenue - posting.fee) % Grid = 0
<1>1. order \in Order /\ order.quantity \in Nat /\ accumulator \in Nat
    BY UnitsAssumption DEF FeeInvariant, TypeOK, Order
<1>2. price \in Nat /\ quantity \in Nat /\ IsExact(price, quantity)
    BY <1>1, UnitsAssumption DEF Fill
<1>3. Principal(price, quantity) \in Nat
    BY <1>2, ExactPrincipal
<1>4. TradeFee(price, quantity, Coefficient(order, role)) \in Nat
    BY <1>1, <1>2, FeeByParts
<1> DEFINE principal == Principal(price, quantity)
           revenue == IF order.action = "Buy" THEN -principal ELSE principal
           fee == TradeFee(price, quantity, Coefficient(order, role))
<1>5. revenue \in Int
    BY <1>3
<1> HIDE DEF revenue, fee
<1>6. LET posting == Posting(revenue, fee, accumulator)
      IN  /\ posting.fee \in Nat /\ posting.accumulator \in Nat
          /\ posting.fee - posting.accumulator = fee - accumulator
          /\ (revenue - posting.fee) % Grid = 0
    BY <1>1, <1>4, <1>5, PostingOnGrid DEF fee
<1> QED BY <1>1, <1>2, <1>3, <1>4, <1>5, <1>6 DEF revenue, fee

\* A fill charges no less than before and keeps what rounding carries within a step.
LEMMA FillKeepsTypeAndRounding ==
    ASSUME NEW price \in 0..Dollar, NEW quantity \in 1..order.quantity, NEW role \in Roles,
           FeeInvariant, Fill(price, quantity, role)
    PROVE  TypeOK' /\ RoundingIsKept' /\ charged' >= charged
<1> DEFINE principal == Principal(price, quantity)
           revenue == IF order.action = "Buy" THEN -principal ELSE principal
           fee == TradeFee(price, quantity, Coefficient(order, role))
           posting == Posting(revenue, fee, accumulator)
           paid == posting.fee
           after == posting.accumulator
<1>1. /\ order \in Order /\ quantity \in Nat /\ revenue \in Int /\ fee \in Nat
      /\ paid \in Nat /\ after \in Nat /\ paid - after = fee - accumulator
      /\ (revenue - paid) % Grid = 0
    BY FillFacts
<1>2. /\ filled' = filled + quantity /\ filled + quantity <= order.quantity
      /\ accumulator' = after /\ spent' = spent - revenue + paid
      /\ charged' = charged + paid /\ traded' = traded + fee /\ order' = order
    BY DEF Fill
<1>3. /\ order.quantity \in Nat /\ filled \in 0..order.quantity /\ accumulator \in Nat
      /\ charged \in Nat /\ traded \in Nat /\ spent \in Int
      /\ charged = traded + accumulator /\ spent % Grid = 0
    BY <1>1, UnitsAssumption DEF FeeInvariant, TypeOK, RoundingIsKept, Order
<1> HIDE DEF revenue, fee, paid, after
<1>4. TypeOK'
    BY <1>1, <1>2, <1>3 DEF TypeOK
<1>5. charged' = traded' + accumulator'
    BY <1>1, <1>2, <1>3
<1>6. spent' % Grid = 0
  <2> DEFINE change == revenue - paid
  <2>1. change \in Int /\ change % Grid = 0 /\ spent' = spent - change
      BY <1>1, <1>2, <1>3
  <2> HIDE DEF change
  <2>2. (spent - change) % Grid = 0
      BY <1>3, <2>1, GridAdds, UnitsAssumption
  <2> QED BY <2>1, <2>2
<1>7. charged' >= charged
    BY <1>1, <1>2, <1>3
<1> QED BY <1>4, <1>5, <1>6, <1>7 DEF RoundingIsKept

\* A fill keeps what is spent within the filled parts at their worst cost.
LEMMA FillKeepsTheBound ==
    ASSUME NEW price \in 0..Dollar, NEW quantity \in 1..order.quantity, NEW role \in Roles,
           FeeInvariant, Fill(price, quantity, role)
    PROVE  SpendingInvariant'
<1> SUFFICES ASSUME order.action = "Buy"
             PROVE  Parts * spent' <= filled' * WorstPartCost(order)
                                        + Parts * Min({accumulator', Grid - 1})
  <2>1. order' = order
      BY DEF Fill
  <2> QED BY <2>1 DEF SpendingInvariant
<1> DEFINE principal == Principal(price, quantity)
           fee == TradeFee(price, quantity, Coefficient(order, role))
           posting == Posting(-principal, fee, accumulator)
           paid == posting.fee
           after == posting.accumulator
           worst == WorstPartCost(order)
<1>1. /\ order \in Order /\ quantity \in Nat /\ principal \in Nat
      /\ paid \in Nat /\ after \in Nat
    BY FillFacts
<1>2. /\ filled' = filled + quantity /\ accumulator' = after /\ spent' = spent + principal + paid
      /\ price \in 0..order.cap /\ IsExact(price, quantity)
  <2>1. spent' = spent - (-principal) + paid
      BY DEF Fill
  <2>2. spent \in Int
      BY DEF FeeInvariant, TypeOK
  <2>3. spent' = spent + principal + paid
      BY <1>1, <2>1, <2>2
  <2> QED BY <2>3 DEF Fill, FillPrices
<1>3. /\ filled \in Nat /\ accumulator \in Nat /\ spent \in Int /\ worst \in Nat
      /\ Parts * spent <= filled * worst + Parts * Capped(accumulator)
      /\ Parts \in Nat \ {0}
    BY <1>1, UnitsAssumption, WorstPartCostIsWorst
       DEF FeeInvariant, TypeOK, SpendingInvariant, Capped, Order
<1>4. Parts * (principal + paid + Capped(accumulator)) <= quantity * worst + Parts * Capped(after)
    BY <1>1, <1>2, <1>3, FillIsCovered
<1>5. Capped(accumulator) \in Nat /\ Capped(after) \in Nat
    BY <1>1, <1>3, CappedType
<1> HIDE DEF principal, paid, after, worst
<1>6. Parts * (spent + principal + paid) <= (filled + quantity) * worst + Parts * Capped(after)
  <2>1. /\ Parts * (spent + principal + paid)
              = Parts * spent + Parts * (principal + paid)
        /\ Parts * (principal + paid + Capped(accumulator))
              = Parts * (principal + paid) + Parts * Capped(accumulator)
        /\ (filled + quantity) * worst = filled * worst + quantity * worst
      BY <1>1, <1>3, <1>5
  <2>2. /\ Parts * spent \in Int /\ Parts * (principal + paid) \in Int
        /\ Parts * Capped(accumulator) \in Int /\ Parts * Capped(after) \in Int
        /\ filled * worst \in Int /\ quantity * worst \in Int
      BY <1>1, <1>3, <1>5
  <2> QED BY <1>3, <1>4, <2>1, <2>2
<1> QED BY <1>2, <1>6 DEF worst, Capped

\* Every step keeps the invariant, and charges nothing back.
LEMMA FeesStep == FeeInvariant /\ [Next]_vars => FeeInvariant' /\ (UNCHANGED vars \/ charged' >= charged)
<1> SUFFICES ASSUME FeeInvariant, [Next]_vars
             PROVE  FeeInvariant' /\ (UNCHANGED vars \/ charged' >= charged)
    OBVIOUS
<1>1. CASE Next
  <2>1. PICK price \in 0..Dollar, quantity \in 1..order.quantity, role \in Roles :
            Fill(price, quantity, role)
      BY <1>1 DEF Next
  <2> QED BY <2>1, FillKeepsTypeAndRounding, FillKeepsTheBound DEF FeeInvariant
<1>2. CASE UNCHANGED vars
    BY <1>2 DEF vars, FeeInvariant, TypeOK, RoundingIsKept, SpendingInvariant
<1> QED BY <1>1, <1>2

\* The invariant holds in every state an order reaches.
LEMMA FeesInvariant == Spec => []FeeInvariant
<1>1. FeeInvariant /\ [Next]_vars => FeeInvariant'
    BY FeesStep
<1> QED BY FeesStart, <1>1, PTL DEF Spec

\* Every state of an order's fills has its type.
THEOREM FeesAreTyped == Spec => []TypeOK
<1>1. FeeInvariant => TypeOK
    BY DEF FeeInvariant
<1> QED BY FeesInvariant, <1>1, PTL

\* The fees charged are the trade fees and what the accumulator holds, and cash moves in
\* units of the grid, for any units, order and fills.
THEOREM NoRoundingIsLost == Spec => []RoundingIsKept
<1>1. FeeInvariant => RoundingIsKept
    BY DEF FeeInvariant
<1> QED BY FeesInvariant, <1>1, PTL

\* No fill pays out a fee.
THEOREM FeesNeverPayOut == Spec => NoFeeIsNegative
<1>1. FeeInvariant /\ [Next]_vars => [charged' >= charged]_vars
    BY FeesStep
<1> QED BY FeesInvariant, <1>1, PTL DEF Spec, NoFeeIsNegative

\* The prices tried around the peak cover every price up to the cap.
THEOREM TriedPricesSuffice == Spec => []FewPricesSuffice
<1>1. FeeInvariant => FewPricesSuffice
    BY PricesSuffice DEF FeeInvariant, TypeOK, FewPricesSuffice
<1> QED BY FeesInvariant, <1>1, PTL

\* The bound of the code's comment, fill by fill.
THEOREM SpendingStaysBounded == Spec => []SpendingInvariant
<1>1. FeeInvariant => SpendingInvariant
    BY DEF FeeInvariant
<1> QED BY FeesInvariant, <1>1, PTL

\* Within the invariant's bound, a buy spends no more than the worst cash committed for it.
LEMMA BoundIsCommitted == FeeInvariant => SpendingIsCovered
<1> SUFFICES ASSUME FeeInvariant, order.action = "Buy" PROVE spent <= Commitment(order)
    BY DEF SpendingIsCovered
<1> DEFINE worst == WorstPartCost(order)
           total == order.quantity * worst
           cash == CeilDiv(total, Parts)
           padded == cash + Grid - 1
<1>1. /\ order \in Order /\ order.quantity \in Nat /\ filled \in 0..order.quantity
      /\ accumulator \in Nat /\ spent \in Int /\ worst \in Nat /\ order.cap \in Nat
      /\ Parts \in Nat \ {0} /\ Grid \in Nat \ {0}
      /\ Parts * spent <= filled * worst + Parts * Capped(accumulator)
  <2>1. order \in Order /\ order.quantity \in Nat /\ order.cap \in Nat /\ filled \in 0..order.quantity
        /\ accumulator \in Nat /\ spent \in Int /\ Parts \in Nat \ {0} /\ Grid \in Nat \ {0}
    <3>1. order \in Order /\ filled \in 0..order.quantity /\ accumulator \in Nat /\ spent \in Int
        BY DEF FeeInvariant, TypeOK
    <3>2. order.quantity \in Nat /\ order.cap \in Nat
        BY <3>1, OrderNumbers
    <3> QED BY <3>1, <3>2, UnitsAssumption
  <2>2. worst \in Nat
      BY <2>1, WorstPartCostIsWorst
  <2>3. Parts * spent <= filled * worst + Parts * Capped(accumulator)
      BY DEF FeeInvariant, SpendingInvariant, Capped
  <2> QED BY <2>1, <2>2, <2>3
<1>2. Capped(accumulator) \in Nat /\ Capped(accumulator) <= Grid - 1
    BY <1>1, CappedType
<1>3. total \in Nat /\ filled * worst <= total
    BY <1>1, ProductGrows
<1> HIDE DEF worst, total
<1>4. cash \in Int /\ total <= cash * Parts
  <2>1. total \in Int
      BY <1>3
  <2> QED BY <1>1, <2>1, RoundingUp
<1> HIDE DEF cash
<1>5. spent <= padded
  <2>1. Capped(accumulator) * Parts <= (Grid - 1) * Parts
      BY <1>1, <1>2, ProductGrows
  <2>2. /\ padded * Parts = cash * Parts + (Grid - 1) * Parts
        /\ Parts * spent = spent * Parts /\ Parts * Capped(accumulator) = Capped(accumulator) * Parts
        /\ spent * Parts \in Int /\ cash * Parts \in Int /\ (Grid - 1) * Parts \in Int
        /\ Capped(accumulator) * Parts \in Int /\ filled * worst \in Int
      BY <1>1, <1>2, <1>4
  <2>3. spent * Parts < padded * Parts + Parts
      BY <1>1, <1>3, <1>4, <2>1, <2>2
  <2>4. padded \in Int
      BY <1>1, <1>4
  <2> HIDE DEF padded
  <2> QED BY <1>1, <2>3, <2>4, FactorCancels
<1>6. /\ padded \in Int /\ CeilDiv(padded, Grid) \in Int
      /\ padded <= CeilDiv(padded, Grid) * Grid
  <2>1. padded \in Int
      BY <1>1, <1>4
  <2> HIDE DEF padded
  <2> QED BY <1>1, <2>1, RoundingUp
<1>7. WorstCash(order) = CeilDiv(padded, Grid) * Grid
    BY DEF WorstCash, cash, total, worst
<1> HIDE DEF padded
<1>8. spent <= WorstCash(order) /\ WorstCash(order) \in Int
    BY <1>1, <1>5, <1>6, <1>7
<1>9. Commitment(order) = WorstCash(order)
  <2>1. order.cap * order.quantity \in Nat
      BY <1>1
  <2>2. Principal(order.cap, order.quantity) \in Int
    <3> DEFINE product == order.cap * order.quantity
    <3>1. product \in Int
        BY <2>1
    <3> HIDE DEF product
    <3>2. product \div Parts \in Int
        BY <1>1, <3>1, Division
    <3> QED BY <3>2 DEF Principal, product
  <2> QED BY <1>8, <2>2 DEF Commitment, Reservation
<1> QED BY <1>8, <1>9

\* Whatever a buy's fills, they take no more cash than it committed.
THEOREM BuysStayWithinCommitment == Spec => []SpendingIsCovered
<1>1. FeeInvariant => SpendingIsCovered
    BY BoundIsCommitted
<1> QED BY FeesInvariant, <1>1, PTL

=============================================================================
