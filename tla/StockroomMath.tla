--------------------------- MODULE StockroomMath ---------------------------
(***************************************************************************)
(* The economic rules of crates/stockroom-math: checked integer arithmetic,*)
(* yield realisation, basis apportioning, pack allocation, the Lucky        *)
(* payout table, the oracle price bounds, and what the program makes of a    *)
(* limit under a display multiplier.  Every function that can fail is an    *)
(* operator that returns Err where the code returns an Err variant; a       *)
(* caller that uses `?` needs the result to differ from Err.                *)
(***************************************************************************)
EXTENDS Integers

CONSTANTS
    BPS,      \* denominator of every rate (10_000 in the code)
    U64MAX    \* largest value of the code's u64

ASSUME BPSAssumption == BPS \in Nat \ {0}
ASSUME U64Assumption == U64MAX \in Nat

\* The crate returns Result<u64>; a u64 is never negative.
Err == -1

LeastOf(a, b) == IF a <= b THEN a ELSE b
MostOf(a, b) == IF a >= b THEN a ELSE b

Add(a, b) == IF a + b > U64MAX THEN Err ELSE a + b
Sub(a, b) == IF b > a THEN Err ELSE a - b
Mul(a, b) == IF a * b > U64MAX THEN Err ELSE a * b

\* The products fit u128, so only the quotient is narrowed.
CeilDiv(n, d) == (n \div d) + (IF n % d # 0 THEN 1 ELSE 0)
MulDiv(a, b, d, ceil) ==
    LET q == IF ceil THEN CeilDiv(a * b, d) ELSE (a * b) \div d
    IN  IF d = 0 \/ q > U64MAX THEN Err ELSE q

FeeOf(amount, bps) == IF bps > BPS THEN Err ELSE MulDiv(amount, bps, BPS, FALSE)

-----------------------------------------------------------------------------
(* Yield, basis and packs.                                                  *)

Gross(redeemed, basis) == MostOf(redeemed - basis, 0)
\* Wrong on purpose: forgets the sub-unit remainder of earlier fees.
MutantFeeNumerator(redeemed, basis, bps, carry) == Gross(redeemed, basis) * bps
FeeNumerator(redeemed, basis, bps, carry) == Gross(redeemed, basis) * bps + carry

Realize(redeemed, basis, bps, carry) ==
    LET num == FeeNumerator(redeemed, basis, bps, carry)
    IN  [principal_value |-> LeastOf(redeemed, basis),
         gross           |-> Gross(redeemed, basis),
         fee             |-> num \div BPS,
         net             |-> Gross(redeemed, basis) - (num \div BPS),
         fee_carry       |-> num % BPS]

\* sub(gross, fee)? refuses a realisation whose fee exceeds the gross yield.
Realizable(redeemed, basis, bps, carry) ==
    /\ bps <= BPS
    /\ carry < BPS
    /\ Realize(redeemed, basis, bps, carry).net >= 0

\* Wrong on purpose: rounds the released basis up, so gains can be taxed twice.
MutantRemainingBasis(basis, principal_value, withdrawn) ==
    IF withdrawn > principal_value \/ principal_value = 0 THEN Err
    ELSE Sub(basis, MulDiv(basis, withdrawn, principal_value, TRUE))
RemainingBasis(basis, principal_value, withdrawn) ==
    CASE withdrawn > principal_value -> Err
      [] withdrawn = 0               -> basis
      [] withdrawn > 0 /\ withdrawn = principal_value -> 0
      [] withdrawn > 0 /\ withdrawn < principal_value ->
            LET released == MulDiv(basis, withdrawn, principal_value, FALSE)
            IN  IF released = Err THEN Err ELSE Sub(basis, released)

PackTotal(count, price) == IF count = 0 THEN Err ELSE Mul(count, price)
PackAllocation(claimable, price) ==
    [count |-> claimable \div price, remainder |-> claimable % price]

\* Quarter multipliers of the stake for the 100 equally likely buckets.
Buckets == 0..99
\* Wrong on purpose: the break-even band starts one bucket early.
MutantQuarters(bucket) ==
    IF bucket <= 3 THEN 1 ELSE IF bucket <= 22 THEN 2
    ELSE IF bucket <= 87 THEN 4 ELSE IF bucket <= 95 THEN 6 ELSE 8
Quarters(bucket) ==
    CASE bucket <= 3                   -> 1
      [] bucket > 3 /\ bucket <= 23    -> 2
      [] bucket > 23 /\ bucket <= 87   -> 4
      [] bucket > 87 /\ bucket <= 95   -> 6
      [] bucket > 95                   -> 8

LuckyPayout(stake, bucket) ==
    LET reward == (stake * Quarters(bucket)) \div 4
    IN  IF stake = 0 \/ bucket >= 100 \/ reward > U64MAX THEN Err ELSE reward

-----------------------------------------------------------------------------
(* Oracle prices.  A price is [value, confidence, exponent, publish_time]   *)
(* and stands for (value +- confidence) * 10^exponent.                      *)

PriceUsable(p, now, max_age, max_confidence_bps) ==
    /\ p.value > 0
    /\ p.exponent \in -12..0
    /\ p.publish_time <= now
    /\ now - p.publish_time <= max_age
    /\ p.confidence * BPS <= p.value * max_confidence_bps

\* base to the n: an exponent is at most 12, a shift below Width.
Power(base, n) == LET power[k \in 0..n] == IF k = 0 THEN 1 ELSE base * power[k - 1] IN power[n]

\* micro is 1_000_000: the result is in base units of six-decimal USDC.
\* Wrong on purpose: takes the midpoint of the dollar price.
MutantPriceInUsdc(stock, usdc, num, den, micro) ==
    CeilDiv((stock.value + stock.confidence) * Power(10, -usdc.exponent) * micro * num,
            usdc.value * Power(10, -stock.exponent) * den)
PriceInUsdc(stock, usdc, num, den, micro) ==
    IF \/ stock.value <= 0 \/ usdc.value <= 0 \/ num = 0 \/ den = 0
       \/ stock.exponent \notin -12..0 \/ usdc.exponent \notin -12..0
       \/ usdc.value - usdc.confidence <= 0
    THEN Err
    ELSE LET top    == (stock.value + stock.confidence) * Power(10, -usdc.exponent) * micro * num
             bottom == (usdc.value - usdc.confidence) * Power(10, -stock.exponent) * den
         IN  IF CeilDiv(top, bottom) > U64MAX THEN Err ELSE CeilDiv(top, bottom)

NoLimit == -1
\* Wrong on purpose: slippage may exceed the owner's limit price.
MutantPriceCap(price, slippage_bps, limit) == MulDiv(price, BPS + slippage_bps, BPS, TRUE)
PriceCap(price, slippage_bps, limit) ==
    LET slipped == MulDiv(price, BPS + slippage_bps, BPS, TRUE)
    IN  IF slipped = Err THEN Err
        ELSE IF limit = NoLimit THEN slipped ELSE LeastOf(slipped, limit)

\* max_slip is the 100 bps ceiling of the code; unit is 10^decimals.
MinimumStock(budget, price, unit, slippage_bps, max_slip, limit) ==
    IF \/ budget = 0 \/ price = 0 \/ slippage_bps > max_slip
       \/ limit # NoLimit /\ price > limit
       \/ PriceCap(price, slippage_bps, limit) = Err
    THEN Err
    ELSE MulDiv(budget, unit, PriceCap(price, slippage_bps, limit), TRUE)

\* 1u128 << n, for n below the width of the integer.
Width == 128
Bit(n) == Power(2, n)

\* The Token-2022 multiplier mantissa * 2^shift, odd mantissa.
\* Wrong on purpose: rounds a maximum price up.
MutantScaledPrice(price, mantissa, shift, round_up) ==
    IF shift >= 0 THEN price * mantissa * Bit(shift)
    ELSE CeilDiv(price * mantissa, Bit(-shift))
ScaledPrice(price, mantissa, shift, round_up) ==
    LET value  == price * mantissa
        scaled == IF shift >= 0 THEN value * Bit(shift)
                  ELSE IF round_up THEN CeilDiv(value, Bit(-shift))
                  ELSE value \div Bit(-shift)
    IN  IF shift >= Width \/ -shift >= Width \/ scaled > U64MAX THEN Err ELSE scaled

-----------------------------------------------------------------------------
(* Prices and limits are per displayed unit of a stock; its mint's           *)
(* multiplier m makes them prices of what an account holds.                  *)

\* oracle::minimum: the price and the limit are both rounded up.
OracleMinimum(budget, price, unit, slippage_bps, max_slip, limit, m) ==
    LET scaled == ScaledPrice(price, m.mantissa, m.shift, TRUE)
        top    == ScaledPrice(limit, m.mantissa, m.shift, TRUE)
    IN  IF scaled = Err \/ (limit # NoLimit /\ top = Err) THEN Err
        ELSE MinimumStock(budget, scaled, unit, slippage_bps, max_slip,
                          IF limit = NoLimit THEN NoLimit ELSE top)

\* The routed swap: all that left the position, against the limit rounded down.
PaysAtMost(cost, received, unit, limit, m) ==
    LET top == ScaledPrice(limit, m.mantissa, m.shift, FALSE)
    IN  top # Err /\ top > 0 /\ cost * unit <= received * top
=============================================================================
