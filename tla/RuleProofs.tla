----------------------------- MODULE RuleProofs -----------------------------
(***************************************************************************)
(* The pure rules for all inputs: each invariant of Rules holds of every     *)
(* question that can be put together from the constants, whatever amounts,   *)
(* prices, rates and curves they are.                                        *)
(***************************************************************************)
EXTENDS Rules, MathProofs, SequenceTheorems

\* What a question is made of.
Asked(op) == question.op = op
Posed ==
    /\ Asked("basis") =>
         {question.basis, question.value, question.first, question.second} \subseteq Amounts
    /\ Asked("lucky") => question.stake \in Amounts
    /\ Asked("minimum") =>
         /\ {question.budget, question.price} \subseteq Amounts
         /\ question.slip \in 0..(MaxSlip + 1) /\ question.limit \in {NoLimit} \cup Amounts
    /\ Asked("price") =>
         /\ {question.num, question.den} \subseteq Ratios
         /\ {question.stock.value, question.usdc.value} \subseteq Values
         /\ {question.stock.confidence, question.usdc.confidence} \subseteq Confidences
         /\ {question.stock.exponent, question.usdc.exponent} \subseteq Exponents
    /\ Asked("scaled") =>
         /\ {question.budget, question.price, question.limit} \subseteq Amounts
         /\ question.slip \in 0..MaxSlip
         /\ question.multiplier.mantissa \in Mantissas /\ question.multiplier.shift \in Shifts
    /\ Asked("split") =>
         \E t \in Splits :
            question.amount = t.amount /\ question.pools = t.pools /\ question.opts = t.opts
    /\ Asked("search") => \E a, b \in Curves : question.curves = <<a, b>>
    /\ Asked("trade") =>
         \E t \in Trades : /\ question.ask = t.ask /\ question.pools = t.pools
                           /\ question.hops = t.hops /\ question.legs = t.legs

\* Amounts are those of a u64.
LEMMA AmountsAreNat == Amounts \subseteq Nat /\ \A n \in Amounts : n <= U64MAX
BY QuestionAssumption, U64Assumption

LEMMA InitPosed == Init => Posed
BY DEF Init, Idle, Posed, Asked

LEMMA NextPosed == Posed /\ [Ask \/ Answer]_question => Posed'
<1> SUFFICES ASSUME Posed, [Ask \/ Answer]_question PROVE Posed' OBVIOUS
<1> USE DEF Posed, Asked
<1>1. CASE UNCHANGED question BY <1>1
<1>2. CASE Answer BY <1>2 DEF Answer, Idle
<1>3. CASE AskBasis BY <1>3 DEF AskBasis
<1>4. CASE AskLucky BY <1>4 DEF AskLucky
<1>5. CASE AskMinimum BY <1>5 DEF AskMinimum
<1>6. CASE AskPrice BY <1>6 DEF AskPrice
<1>7. CASE AskScaled BY <1>7 DEF AskScaled
<1>8. CASE AskTrade BY <1>8 DEF AskTrade
<1>9. CASE AskSplit BY <1>9 DEF AskSplit
<1>10. CASE AskSearch BY <1>10 DEF AskSearch
<1> QED
  BY <1>1, <1>2, <1>3, <1>4, <1>5, <1>6, <1>7, <1>8, <1>9, <1>10 DEF Ask

\* Every question is made of the constants.
LEMMA PosedInvariant == Spec => []Posed
BY InitPosed, NextPosed, PTL DEF Spec

-----------------------------------------------------------------------------
(* Basis and losses                                                         *)

\* Releasing basis in two steps keeps as much of it as one step or one unit
\* more.
LEMMA TwoSteps ==
    ASSUME NEW b \in Nat, NEW w \in Nat, NEW u \in Nat, NEW l \in Nat \ {0},
           NEW v \in Nat, v = w + l, u <= l,
           NEW r \in Nat, NEW x \in Nat, b * w = r * v + x, x < v,
           NEW c \in Nat, c = b - r,
           NEW s \in Nat, NEW y \in Nat, c * u = s * l + y, y < l,
           NEW t \in Nat, NEW z \in Nat, b * (w + u) = t * v + z, z < v
    PROVE  t - (r + s) \in {0, 1}
OBVIOUS

\* Nothing withdrawn releases nothing, all of the value releases all of it.
LEMMA NothingOrAll ==
    ASSUME NEW b \in Nat, NEW v \in Nat, NEW w \in Nat
    PROVE  /\ w = 0 => RemainingBasis(b, v, w) = b
           /\ w > 0 /\ w = v => RemainingBasis(b, v, w) = 0
<1>1. CASE w = 0
  <2>1. ~ (w > v) /\ w = 0 BY <1>1
  <2>2. RemainingBasis(b, v, w) = b BY <2>1 DEF RemainingBasis
  <2> QED BY <2>1, <2>2
<1>2. CASE w > 0 /\ w = v
  <2>1. ~ (w > v) /\ w # 0 /\ ~ (w < v) BY <1>2
  <2>2. RemainingBasis(b, v, w) = 0 BY <1>2, <2>1 DEF RemainingBasis
  <2> QED BY <2>1, <2>2
<1> QED BY <1>1, <1>2

\* What a partial withdrawal releases.
LEMMA Released ==
    ASSUME NEW b \in Nat, b <= U64MAX, NEW v \in Nat, NEW w \in Nat, w > 0, w < v
    PROVE  \E r, x \in Nat :
               /\ RemainingBasis(b, v, w) = b - r /\ r <= b
               /\ b * w = r * v + x /\ x < v
<1>1. U64MAX \in Nat /\ v \in Nat \ {0} BY U64Assumption
<1>2. b * w \in Nat OBVIOUS
<1>3. /\ (b * w) \div v \in Nat /\ (b * w) % v \in 0..(v - 1)
      /\ b * w = ((b * w) \div v) * v + ((b * w) % v)
  BY <1>1, <1>2, Quotients
<1>4. PICK r \in Nat : r = (b * w) \div v BY <1>3
<1>5. PICK x \in 0..(v - 1) : x = (b * w) % v BY <1>3
<1>6. r <= b BY <1>1, <1>4, SharesBounded
<1>7. RemainingBasis(b, v, w) = b - r
  BY <1>1, <1>4, <1>6 DEF RemainingBasis, MulDiv, Sub, Err
<1>8. b * w = r * v + x BY <1>3, <1>4, <1>5
<1>9. x \in Nat /\ x < v BY <1>5
<1> QED BY <1>6, <1>7, <1>8, <1>9

\* Two withdrawals, neither of them of everything.
LEMMA TwoWithdrawals ==
    ASSUME NEW b \in Nat, b <= U64MAX, NEW v \in Nat, NEW w \in Nat, NEW u \in Nat,
           w > 0, u > 0, w + u < v
    PROVE  RemainingBasis(RemainingBasis(b, v, w), v - w, u)
             \in {RemainingBasis(b, v, w + u), RemainingBasis(b, v, w + u) + 1}
<1>1. PICK l \in Nat \ {0} : l = v - w /\ v = w + l /\ u < l OBVIOUS
<1>2. PICK r \in Nat, x \in Nat :
         RemainingBasis(b, v, w) = b - r /\ r <= b /\ b * w = r * v + x /\ x < v
  BY Released
<1>3. PICK c \in Nat : c = b - r /\ c <= U64MAX
  <2>1. b - r \in Nat /\ b - r <= b BY <1>2
  <2> QED BY <2>1, U64Assumption
<1>4. PICK s \in Nat, y \in Nat :
         RemainingBasis(c, l, u) = c - s /\ s <= c /\ c * u = s * l + y /\ y < l
  BY <1>1, <1>3, Released
<1>5. PICK t \in Nat, z \in Nat :
         /\ RemainingBasis(b, v, w + u) = b - t /\ t <= b
         /\ b * (w + u) = t * v + z /\ z < v
  <2>1. w + u \in Nat /\ w + u > 0 OBVIOUS
  <2> QED BY <2>1, Released
<1>6. t - (r + s) \in {0, 1}
  BY <1>1, <1>2, <1>3, <1>4, <1>5, TwoSteps
<1>7. c - s = b - t \/ c - s = (b - t) + 1 BY <1>3, <1>6
<1> QED BY <1>1, <1>2, <1>3, <1>4, <1>5, <1>7

\* What BasisCoversRecovery says of one basis, value and pair of withdrawals.
Recovers(b, v, w, u) ==
    LET once  == RemainingBasis(b, v, w)
        left  == v - w
        twice == RemainingBasis(once, left, u)
        sum   == RemainingBasis(b, v, w + u)
    IN  /\ once >= left
        /\ twice >= left - u
        /\ twice \in {sum, sum + 1}
        /\ left = u /\ left > 0 => twice = 0

\* A basis that covers the value covers what a withdrawal leaves of it.
LEMMA KeepsCovering ==
    ASSUME NEW b \in Nat, b <= U64MAX, NEW v \in Nat, v <= b, NEW w \in Nat, w <= v
    PROVE  /\ RemainingBasis(b, v, w) \in Nat /\ RemainingBasis(b, v, w) <= b
           /\ v - w <= RemainingBasis(b, v, w)
<1>1. CASE w = 0 BY <1>1, NothingOrAll
<1>2. CASE w > 0 /\ w = v BY <1>2, NothingOrAll
<1>3. CASE w > 0 /\ w < v
  <2>1. PICK r \in Nat : RemainingBasis(b, v, w) = b - r /\ r <= b BY <1>3, Released
  <2>2. RemainingBasis(b, v, w) \in Nat /\ RemainingBasis(b, v, w) <= b BY <2>1
  <2>3. RemainingBasis(b, v, w) # Err BY <2>2 DEF Err
  <2> QED BY <2>2, <2>3, BasisCoversValue
<1> QED BY <1>1, <1>2, <1>3

\* For all amounts of a u64, a withdrawal at a loss keeps a basis that covers
\* the value that is left, and two withdrawals release what one of their sum
\* does or a unit less.  (remaining_basis)
LEMMA EveryRecovery ==
    ASSUME NEW b \in Nat, b <= U64MAX, NEW v \in Nat, v <= b,
           NEW w \in Nat, NEW u \in Nat, w + u <= v
    PROVE  Recovers(b, v, w, u)
<1>1. PICK left \in Nat : left = v - w /\ u <= left OBVIOUS
<1>2. w <= v OBVIOUS
<1>3. PICK once \in Nat : once = RemainingBasis(b, v, w) /\ once <= b /\ left <= once
  BY <1>1, <1>2, KeepsCovering
<1>4. once <= U64MAX BY <1>3, U64Assumption
<1>5. PICK twice \in Nat : twice = RemainingBasis(once, left, u) /\ left - u <= twice
  BY <1>1, <1>3, <1>4, KeepsCovering
<1>6. w + u \in Nat OBVIOUS
<1>7. PICK sum \in Nat : sum = RemainingBasis(b, v, w + u) BY <1>6, KeepsCovering
<1>8. left = u /\ left > 0 => twice = 0 BY <1>5, NothingOrAll
<1>9. twice \in {sum, sum + 1}
  <2>1. CASE u = 0
    <3>1. w + u = w /\ twice = once BY <1>5, <2>1, NothingOrAll
    <3> QED BY <1>3, <1>7, <3>1
  <2>2. CASE u > 0 /\ u = left
    <3>1. w + u = v /\ v > 0 BY <1>1, <2>2
    <3>2. twice = 0 /\ sum = 0 BY <1>7, <1>8, <2>2, <3>1, NothingOrAll
    <3> QED BY <3>2
  <2>3. CASE w = 0
    <3>1. w + u = u /\ left = v /\ once = b BY <1>1, <1>3, <2>3, NothingOrAll
    <3> QED BY <1>5, <1>7, <3>1
  <2>4. CASE w > 0 /\ u > 0 /\ u < left
    <3>1. w + u < v BY <1>1, <2>4
    <3>2. RemainingBasis(RemainingBasis(b, v, w), v - w, u)
             \in {RemainingBasis(b, v, w + u), RemainingBasis(b, v, w + u) + 1}
      BY <2>4, <3>1, TwoWithdrawals
    <3> QED BY <1>1, <1>3, <1>5, <1>7, <3>2
  <2> QED BY <1>1, <2>1, <2>2, <2>3, <2>4
<1> QED BY <1>1, <1>3, <1>5, <1>7, <1>8, <1>9 DEF Recovers

\* However basis is released by withdrawals at a loss, what is left of it
\* covers the value still invested, to the unit.  (remaining_basis,
\* "recovered losses aren't later taxed as new profit")
THEOREM BasisCoversEveryRecovery == Spec => []BasisCoversRecovery
<1>1. Posed => BasisCoversRecovery
  <2> SUFFICES ASSUME Posed, Asked("basis"), question.value <= question.basis,
                      question.first + question.second <= question.value
               PROVE  Recovers(question.basis, question.value, question.first, question.second)
    BY DEF BasisCoversRecovery, Asked, Recovers
  <2>1. /\ {question.basis, question.value, question.first, question.second} \subseteq Nat
        /\ question.basis <= U64MAX
    <3>1. {question.basis, question.value, question.first, question.second} \subseteq Amounts
      BY DEF Posed
    <3> QED BY <3>1, AmountsAreNat
  <2> QED BY <2>1, EveryRecovery
<1> QED BY <1>1, PosedInvariant, PTL

-----------------------------------------------------------------------------
(* The Lucky table                                                          *)

\* What one bucket pays when no payout overflows.
Table(stake, b) ==
    IF b \in 0..3 THEN stake \div 4 ELSE IF b \in 4..23 THEN stake \div 2
    ELSE IF b \in 24..87 THEN stake ELSE IF b \in 88..95 THEN (3 * stake) \div 2
    ELSE 2 * stake
LEMMA PayoutOfBucket ==
    ASSUME NEW stake \in Nat \ {0}, NEW b \in Buckets, LuckyPayout(stake, b) # Err
    PROVE  LuckyPayout(stake, b) = Table(stake, b)
<1>1. b \in Int /\ 0 <= b /\ b <= 99 BY DEF Buckets
<1>2. LuckyPayout(stake, b) = (stake * Quarters(b)) \div 4 BY DEF LuckyPayout
<1>3. CASE b \in 0..3
  <2>1. Quarters(b) = 1 BY <1>1, <1>3 DEF Quarters
  <2>2. stake * 1 = stake OBVIOUS
  <2> QED BY <1>2, <1>3, <2>1, <2>2 DEF Table
<1>4. CASE b \in 4..23
  <2>1. Quarters(b) = 2 BY <1>1, <1>4 DEF Quarters
  <2>2. (stake * 2) \div 4 = stake \div 2 OBVIOUS
  <2> QED BY <1>2, <1>4, <2>1, <2>2 DEF Table
<1>5. CASE b \in 24..87
  <2>1. Quarters(b) = 4 BY <1>1, <1>5 DEF Quarters
  <2>2. (stake * 4) \div 4 = stake OBVIOUS
  <2> QED BY <1>2, <1>5, <2>1, <2>2 DEF Table
<1>6. CASE b \in 88..95
  <2>1. Quarters(b) = 6 BY <1>1, <1>6 DEF Quarters
  <2>2. (stake * 6) \div 4 = (3 * stake) \div 2 OBVIOUS
  <2> QED BY <1>2, <1>6, <2>1, <2>2 DEF Table
<1>7. CASE b \in 96..99
  <2>1. Quarters(b) = 8 BY <1>1, <1>7 DEF Quarters
  <2>2. (stake * 8) \div 4 = 2 * stake OBVIOUS
  <2> QED BY <1>2, <1>7, <2>1, <2>2 DEF Table
<1> QED BY <1>1, <1>3, <1>4, <1>5, <1>6, <1>7

\* The buckets from lo up to next pay the same.
Band(f, lo, next, end, c) ==
    /\ lo < next /\ next <= end
    /\ \A b \in lo..end : f[b] \in Int
    /\ \A b \in lo..(next - 1) : f[b] = c
Above(f, lo, end) == SumFunctionOnSet(f, lo..end)

\* What they pay, and those above them.
LEMMA SumBand ==
    ASSUME NEW f, NEW lo \in Nat, NEW next \in Nat, NEW end \in Nat, NEW c \in Nat,
           Band(f, lo, next, end, c)
    PROVE  /\ Above(f, lo, end) = (next - lo) * c + Above(f, next, end)
           /\ Above(f, next, end) \in Int
<1>1. PICK S, T : S = lo..(next - 1) /\ T = next..end OBVIOUS
<1>2. /\ IsFiniteSet(S) /\ IsFiniteSet(T) /\ Cardinality(S) = next - lo
  <2>1. /\ IsFiniteSet(lo..(next - 1)) /\ IsFiniteSet(next..end)
        /\ Cardinality(lo..(next - 1)) = (next - 1) - lo + 1
    BY FS_Interval DEF Band
  <2> QED BY <1>1, <2>1
<1>3. lo..end = S \cup T /\ S \cap T = {} BY <1>1 DEF Band
<1>4. \A b \in S \cup T : f[b] \in Int BY <1>3 DEF Band
<1>5. SumFunctionOnSet(f, S \cup T) = SumFunctionOnSet(f, S) + SumFunctionOnSet(f, T)
  BY <1>2, <1>3, <1>4, SumUnion
<1>6. SumFunctionOnSet(f, S) = Cardinality(S) * c
  <2>1. \A b \in S : f[b] = c BY <1>1 DEF Band
  <2> QED BY <1>2, <2>1, SumConstant
<1>7. SumFunctionOnSet(f, T) \in Int BY <1>2, <1>4, SumType
<1> QED BY <1>1, <1>2, <1>3, <1>5, <1>6, <1>7 DEF Above

\* The table's return, and its bound.
LEMMA LuckyTable ==
    ASSUME NEW stake \in Nat \ {0}, NEW f, DOMAIN f = Buckets,
           \A b \in Buckets : f[b] = LuckyPayout(stake, b) /\ f[b] # Err
    PROVE  /\ SumFunction(f) \in (95 * stake - 99)..(95 * stake)
           /\ stake % 4 = 0 => SumFunction(f) = 95 * stake
           /\ \A b \in Buckets : f[b] \in 0..(2 * stake)
<1>1. PICK q \in Nat, h \in Nat, t \in Nat :
         q = stake \div 4 /\ h = stake \div 2 /\ t = (3 * stake) \div 2
  OBVIOUS
<1>2. \A b \in 0..99 :
         f[b] = IF b \in 0..3 THEN q ELSE IF b \in 4..23 THEN h
                ELSE IF b \in 24..87 THEN stake ELSE IF b \in 88..95 THEN t
                ELSE 2 * stake
  <2>1. \A b \in Buckets : f[b] = Table(stake, b) BY PayoutOfBucket
  <2> QED BY <1>1, <2>1 DEF Table, Buckets
<1>3. q <= 2 * stake /\ h <= 2 * stake /\ t <= 2 * stake BY <1>1
<1>4. \A b \in 0..99 : f[b] \in 0..(2 * stake)
  <2> TAKE b \in 0..99
  <2>1. f[b] \in {q, h, stake, t, 2 * stake} BY <1>2
  <2>2. {q, h, stake, t, 2 * stake} \subseteq 0..(2 * stake) BY <1>3
  <2> QED BY <2>1, <2>2
<1>5. \A b \in 0..99 : f[b] \in Int BY <1>4
<1> DEFINE Sum(n) == Above(f, n, 99)
<1>6. SumFunction(f) = Sum(0) BY DEF SumFunction, Buckets, Above
<1>7. Sum(0) = 4 * q + Sum(4) /\ Sum(4) \in Int
  <2>1. Band(f, 0, 4, 99, q) BY <1>2, <1>5 DEF Band
  <2> QED BY <2>1, SumBand
<1>8. Sum(4) = 20 * h + Sum(24) /\ Sum(24) \in Int
  <2>1. Band(f, 4, 24, 99, h) BY <1>2, <1>5 DEF Band
  <2> QED BY <2>1, SumBand
<1>9. Sum(24) = 64 * stake + Sum(88) /\ Sum(88) \in Int
  <2>1. Band(f, 24, 88, 99, stake) BY <1>2, <1>5 DEF Band
  <2> QED BY <2>1, SumBand
<1>10. Sum(88) = 8 * t + Sum(96) /\ Sum(96) \in Int
  <2>1. Band(f, 88, 96, 99, t) BY <1>2, <1>5 DEF Band
  <2> QED BY <2>1, SumBand
<1>11. Sum(96) = 4 * (2 * stake)
  <2>1. \A b \in 96..99 : f[b] = 2 * stake BY <1>2
  <2>2. IsFiniteSet(96..99) /\ Cardinality(96..99) = 4
    <3>1. PICK lo \in Int, hi \in Int : lo = 96 /\ hi = 99 OBVIOUS
    <3>2. IsFiniteSet(lo..hi) /\ Cardinality(lo..hi) = IF lo > hi THEN 0 ELSE hi - lo + 1
      BY FS_Interval
    <3> QED BY <3>1, <3>2
  <2> QED BY <2>1, <2>2, SumConstant DEF Above
<1> HIDE DEF Sum
<1>12. SumFunction(f) = 4 * q + (20 * h + (64 * stake + (8 * t + 8 * stake)))
  BY <1>6, <1>7, <1>8, <1>9, <1>10, <1>11
<1>13. /\ 4 * q \in (stake - 3)..stake /\ 2 * h \in (stake - 1)..stake
       /\ 2 * t \in (3 * stake - 1)..(3 * stake)
       /\ stake % 4 = 0 => 4 * q = stake /\ 2 * h = stake /\ 2 * t = 3 * stake
  BY <1>1
<1> QED BY <1>4, <1>12, <1>13 DEF Buckets

\* Whatever the stake, the pool keeps five percent of it over the buckets but
\* for rounding, and no bucket pays more than the pool escrows.
\* (lucky_payout, "fixed 95% theoretical RTP")
THEOREM LuckyReturnsNinetyFive == Spec => []LuckyReturnIs95Percent
<1>1. Posed => LuckyReturnIs95Percent
  <2> SUFFICES ASSUME Posed, Asked("lucky"), question.stake > 0,
                      NEW f, f = [b \in Buckets |-> LuckyPayout(question.stake, b)],
                      \A b \in Buckets : f[b] # Err
               PROVE  /\ SumFunction(f) \in (95 * question.stake - 99)..(95 * question.stake)
                      /\ question.stake % 4 = 0 => SumFunction(f) = 95 * question.stake
                      /\ \A b \in Buckets : f[b] \in 0..(2 * question.stake)
    BY DEF LuckyReturnIs95Percent, Asked
  <2>1. question.stake \in Amounts BY DEF Posed
  <2>2. PICK stake \in Nat : stake = question.stake BY <2>1, AmountsAreNat
  <2>3. stake \in Nat \ {0} BY <2>2
  <2> QED BY <2>2, <2>3, LuckyTable
<1> QED BY <1>1, PosedInvariant, PTL

-----------------------------------------------------------------------------
(* The minimum of a delivery                                                *)

\* What MinimumEnforcesThePrice says of one budget, price and limit.
Enforces(u, p, slip, limit) ==
    LET got  == MinimumStock(u, p, Unit, slip, MaxSlip, limit)
        cost == u * Unit
        top  == CeilDiv(p * (BPS + slip), BPS)
    IN  got # Err =>
          /\ got * top >= cost
          /\ limit # NoLimit => got * limit >= cost
          /\ \/ (got - 1) * top < cost
             \/ limit # NoLimit /\ (got - 1) * limit < cost

\* The units delivered at a capped price cover the budget at every price that
\* is no lower, and one unit less would not at the cap.
LEMMA MinimumAtTheCap ==
    ASSUME NEW u \in Nat, NEW p \in Nat, NEW slip \in Nat, NEW limit \in Nat \cup {NoLimit}
    PROVE  Enforces(u, p, slip, limit)
<1> DEFINE got == MinimumStock(u, p, Unit, slip, MaxSlip, limit)
           top == CeilDiv(p * (BPS + slip), BPS)
           cap == IF limit = NoLimit THEN top ELSE LeastOf(top, limit)
<1> SUFFICES ASSUME got # Err
             PROVE  /\ got * top >= u * Unit
                    /\ limit # NoLimit => got * limit >= u * Unit
                    /\ \/ (got - 1) * top < u * Unit
                       \/ limit # NoLimit /\ (got - 1) * limit < u * Unit
  BY DEF Enforces
<1>1. Unit \in Nat /\ BPS \in Nat \ {0} BY QuestionAssumption, BPSAssumption
<1>2. PICK cost \in Nat : cost = u * Unit BY <1>1
<1>3. top \in Nat
  <2>1. p * (BPS + slip) \in Nat BY <1>1
  <2> QED BY <1>1, <2>1, RoundedUp
<1>4. PriceCap(p, slip, limit) = cap
  <2>1. PriceCap(p, slip, limit) # Err BY DEF MinimumStock
  <2>2. MulDiv(p, BPS + slip, BPS, TRUE) # Err BY <2>1 DEF PriceCap
  <2>3. MulDiv(p, BPS + slip, BPS, TRUE) = top BY <2>2 DEF MulDiv
  <2> HIDE DEF top
  <2> QED BY <2>2, <2>3 DEF PriceCap
<1> HIDE DEF top
<1>5. cap \in Nat /\ cap <= top /\ (limit # NoLimit => limit \in Nat /\ cap <= limit)
      /\ (cap = top \/ (limit # NoLimit /\ cap = limit))
  BY <1>3 DEF LeastOf, NoLimit
<1> HIDE DEF cap
<1>6. got = CeilDiv(cost, cap) /\ cap # 0
  <2>1. got = MulDiv(u, Unit, cap, TRUE) BY <1>4 DEF MinimumStock
  <2> HIDE DEF got
  <2> QED BY <1>2, <2>1 DEF MulDiv
<1> HIDE DEF got
<1>7. got \in Nat /\ cost <= got * cap /\ (got - 1) * cap < cost
  BY <1>2, <1>5, <1>6, RoundedUp
<1>8. \A n \in Nat : cap <= n => got * cap <= got * n /\ got * n \in Nat
  BY <1>5, <1>7
<1>9. got * cap \in Nat BY <1>5, <1>7
<1>10. got * top >= cost BY <1>2, <1>3, <1>5, <1>7, <1>8, <1>9
<1>11. limit # NoLimit => got * limit >= cost BY <1>2, <1>5, <1>7, <1>8, <1>9
<1> QED BY <1>2, <1>5, <1>7, <1>10, <1>11

\* Whatever the budget, the oracle price, the slippage and the limit, units
\* that meet the minimum cost no more than price, slippage and limit allow.
\* (minimum_stock)
THEOREM MinimumIsThePrice == Spec => []MinimumEnforcesThePrice
<1>1. Posed => MinimumEnforcesThePrice
  <2> SUFFICES ASSUME Posed, Asked("minimum")
               PROVE  Enforces(question.budget, question.price, question.slip, question.limit)
    BY DEF MinimumEnforcesThePrice, Asked, Enforces
  <2>1. /\ question.budget \in Amounts /\ question.price \in Amounts
        /\ question.slip \in 0..(MaxSlip + 1) /\ question.limit \in {NoLimit} \cup Amounts
    BY DEF Posed
  <2>2. question.slip \in Nat BY <2>1, QuestionAssumption
  <2> QED BY <2>1, <2>2, AmountsAreNat, MinimumAtTheCap
<1> QED BY <1>1, PosedInvariant, PTL

-----------------------------------------------------------------------------
(* Display multipliers                                                      *)

\* For every budget, price, limit and multiplier, what an oracle fill must
\* deliver costs less than one base unit of USDC more per stock unit than the
\* exact limit, though the limit itself is rounded up; a routed swap, whose
\* limit is rounded down, never costs more.  (oracle::minimum, swap)
THEOREM ScaledLimitsAreKept == Spec => []ScaledLimitsHold
<1>1. Posed => ScaledLimitsHold
  <2> SUFFICES ASSUME Posed, Asked("scaled") PROVE ScaledLimitsHold
    BY DEF ScaledLimitsHold, Asked
  <2> DEFINE budget == question.budget
             price == question.price
             slip == question.slip
             limit == question.limit
             m == question.multiplier
  <2>2. /\ {budget, price, limit} \subseteq Amounts /\ slip \in 0..MaxSlip
        /\ m.mantissa \in Mantissas /\ m.shift \in Shifts
    BY DEF Posed
  <2>3. /\ budget \in Nat /\ price \in Nat /\ limit \in Nat /\ slip \in Nat
        /\ m.mantissa \in Nat /\ m.shift \in Int /\ Unit \in Nat /\ MaxSlip \in Nat
    <3>1. Unit \in Nat /\ MaxSlip \in Nat /\ Mantissas \subseteq Nat /\ Shifts \subseteq Int
      BY QuestionAssumption
    <3> HIDE DEF budget, price, slip, limit, m
    <3>2. slip \in Nat BY <2>2, <3>1
    <3>3. budget \in Nat /\ price \in Nat /\ limit \in Nat BY <2>2, AmountsAreNat
    <3> QED BY <2>2, <3>1, <3>2, <3>3
  <2> HIDE DEF budget, price, slip, limit, m
  <2>4. limit # NoLimit BY <2>3 DEF NoLimit
  <2> DEFINE cost == budget * Unit * Scaling(m.shift)
             got == OracleMinimum(budget, price, Unit, slip, MaxSlip, limit, m)
  <2>5. got # Err => cost <= got * (Exact(limit, m) + Scaling(m.shift) - 1)
    BY <2>3, <2>4, OracleMinimumBounds
  <2>6. \A received \in Amounts :
           PaysAtMost(budget, received, Unit, limit, m) => cost <= received * Exact(limit, m)
    BY <2>3, AmountsAreNat, PaysAtMostTheLimit
  <2> QED BY <2>5, <2>6 DEF ScaledLimitsHold, Scaling, Exact, budget, price, slip, limit, m
<1> QED BY <1>1, PosedInvariant, PTL

-----------------------------------------------------------------------------
(* Oracle prices                                                            *)

\* What PriceIsConservative says of two prices and a conversion.
Covers(s, u, num, den) ==
    LET got == PriceInUsdc(s, u, num, den, Micro)
        up(x) == x * Power(10, -u.exponent) * Micro * num
        down(x) == x * Power(10, -s.exponent) * den
    IN  /\ u.value <= u.confidence => got = Err
        /\ got # Err =>
             /\ \A x \in (s.value - s.confidence)..(s.value + s.confidence),
                   y \in (u.value - u.confidence)..(u.value + u.confidence) :
                      got * down(y) >= up(x)
             /\ (got - 1) * down(u.value - u.confidence) < up(s.value + s.confidence)

\* A factor that is not negative keeps the order.
LEMMA KeepsOrder ==
    ASSUME NEW x \in Int, NEW z \in Int, x <= z, NEW c \in Nat
    PROVE  x * c \in Int /\ z * c \in Int /\ x * c <= z * c
<1>1. PICK d \in Nat : z = x + d
  <2>1. z - x \in Nat /\ z = x + (z - x) OBVIOUS
  <2> QED BY <2>1
<1>2. d * c \in Nat OBVIOUS
<1>3. z * c = x * c + d * c BY <1>1
<1> QED BY <1>2, <1>3

\* Stronger stock costs more, a stronger dollar less.
LEMMA WorstCase ==
    ASSUME NEW got \in Nat, NEW top \in Int, NEW low \in Int,
           NEW tu \in Nat, NEW ts \in Nat, NEW m \in Nat, NEW num \in Nat, NEW den \in Nat,
           top * tu * m * num <= got * (low * ts * den),
           NEW x \in Int, x <= top, NEW y \in Int, low <= y
    PROVE  got * (y * ts * den) >= x * tu * m * num
<1>1. x * tu * m * num \in Int /\ top * tu * m * num \in Int
      /\ x * tu * m * num <= top * tu * m * num
  <2>1. x * tu \in Int /\ top * tu \in Int /\ x * tu <= top * tu BY KeepsOrder
  <2>2. /\ x * tu * m \in Int /\ top * tu * m \in Int /\ x * tu * m <= top * tu * m
    BY <2>1, KeepsOrder
  <2> QED BY <2>2, KeepsOrder
<1>2. low * ts * den \in Int /\ y * ts * den \in Int /\ low * ts * den <= y * ts * den
  <2>1. low * ts \in Int /\ y * ts \in Int /\ low * ts <= y * ts BY KeepsOrder
  <2> QED BY <2>1, KeepsOrder
<1>3. PICK i \in Int, j \in Int : i = low * ts * den /\ j = y * ts * den BY <1>2
<1>4. PICK k \in Int, l \in Int : k = x * tu * m * num /\ l = top * tu * m * num BY <1>1
<1>5. got * i \in Int /\ got * j \in Int /\ got * i <= got * j
  <2>1. i <= j BY <1>2, <1>3
  <2>2. i * got \in Int /\ j * got \in Int /\ i * got <= j * got BY <2>1, KeepsOrder
  <2> QED BY <2>2
<1> QED BY <1>1, <1>3, <1>4, <1>5

\* The ratio covers every price within the confidence.
LEMMA EveryPrice ==
    ASSUME NEW s, NEW u, NEW num \in Nat, NEW den \in Nat,
           NEW v \in Nat, NEW c \in Nat, s.value = v, s.confidence = c,
           NEW w \in Nat, NEW d \in Nat, u.value = w, u.confidence = d,
           s.exponent \in Int, u.exponent \in Int
    PROVE  Covers(s, u, num, den)
<1> DEFINE got == PriceInUsdc(s, u, num, den, Micro)
           up(x) == x * Power(10, -u.exponent) * Micro * num
           down(x) == x * Power(10, -s.exponent) * den
<1>1. w <= d => got = Err
  <2> SUFFICES ASSUME w <= d PROVE got = Err OBVIOUS
  <2>1. w - d <= 0 OBVIOUS
  <2> QED BY <2>1 DEF PriceInUsdc
<1>2. ASSUME got # Err
      PROVE  /\ \A x \in (v - c)..(v + c), y \in (w - d)..(w + d) : got * down(y) >= up(x)
             /\ (got - 1) * down(w - d) < up(v + c)
  <2>1. /\ Micro \in Nat /\ w - d \in Nat \ {0} /\ num # 0 /\ den # 0
        /\ Power(10, -u.exponent) \in Nat \ {0} /\ Power(10, -s.exponent) \in Nat \ {0}
        /\ got = CeilDiv(up(v + c), down(w - d))
    <3>1. /\ num # 0 /\ den # 0 /\ ~ (w - d <= 0)
          /\ s.exponent \in -12..0 /\ u.exponent \in -12..0
      BY <1>2 DEF PriceInUsdc
    <3>2. -s.exponent \in Nat /\ -u.exponent \in Nat BY <3>1
    <3>3. Power(10, -u.exponent) \in Nat \ {0} /\ Power(10, -s.exponent) \in Nat \ {0}
      BY <3>2, PowerIsPositive
    <3>4. got = CeilDiv(up(v + c), down(w - d)) BY <1>2 DEF PriceInUsdc
    <3>5. w - d \in Nat \ {0} BY <3>1
    <3> QED BY <3>1, <3>3, <3>4, <3>5, QuestionAssumption
  <2>2. PICK tu \in Nat \ {0}, ts \in Nat \ {0} :
          tu = Power(10, -u.exponent) /\ ts = Power(10, -s.exponent)
    BY <2>1
  <2>3. PICK top \in Nat, low \in Nat \ {0} : top = v + c /\ low = w - d BY <2>1
  <2>4. up(v + c) = top * tu * Micro * num /\ down(w - d) = low * ts * den BY <2>2, <2>3
  <2>5. PICK n \in Nat : n = top * tu * Micro * num
    <3>1. top * tu \in Nat OBVIOUS
    <3>2. top * tu * Micro \in Nat BY <2>1, <3>1
    <3> QED BY <3>2
  <2>6. PICK b \in Nat \ {0} : b = low * ts * den
    <3>1. low * ts \in Nat \ {0} OBVIOUS
    <3>2. den \in Nat \ {0} BY <2>1
    <3> QED BY <3>1, <3>2
  <2>7. got = CeilDiv(n, b) BY <2>1, <2>4, <2>5, <2>6
  <2>8. got \in Nat /\ n <= got * b /\ (got - 1) * b < n BY <2>7, RoundedUp
  <2> HIDE DEF got
  <2>9. ASSUME NEW x \in (v - c)..(v + c), NEW y \in (w - d)..(w + d)
        PROVE  got * (y * ts * den) >= x * tu * Micro * num
    <3>1. x \in Int /\ x <= top /\ y \in Int /\ low <= y BY <2>3
    <3> QED BY <2>1, <2>5, <2>6, <2>8, <3>1, WorstCase
  <2> QED BY <2>2, <2>4, <2>5, <2>6, <2>8, <2>9
<1> HIDE DEF got
<1> QED BY <1>1, <1>2 DEF Covers, got

\* The oracle ratio is at no price within the confidence too low, whatever the
\* prices, their exponents and the conversion are.  (price_in_usdc)
THEOREM PriceCoversTheConfidence == Spec => []PriceIsConservative
<1>1. Posed => PriceIsConservative
  <2> SUFFICES ASSUME Posed, Asked("price")
               PROVE  Covers(question.stock, question.usdc, question.num, question.den)
    BY DEF PriceIsConservative, Asked, Covers
  <2> DEFINE s == question.stock
             u == question.usdc
  <2>1. /\ question.num \in Nat /\ question.den \in Nat
        /\ s.value \in Nat /\ s.confidence \in Nat /\ s.exponent \in Int
        /\ u.value \in Nat /\ u.confidence \in Nat /\ u.exponent \in Int
    BY QuestionAssumption DEF Posed
  <2> HIDE DEF s, u
  <2>2. Covers(s, u, question.num, question.den) BY <2>1, EveryPrice
  <2> QED BY <2>2 DEF s, u
<1> QED BY <1>1, PosedInvariant, PTL

-----------------------------------------------------------------------------
(* Placing an order chunk by chunk                                          *)

\* Of every amount a venue says what it returns, or that it does not fill it.
Venues(curves) ==
    /\ IsFiniteSet(DOMAIN curves) /\ DOMAIN curves \subseteq Nat \ {0}
    /\ \A i \in DOMAIN curves, x \in Nat : Out(curves[i], x) \in Nat \cup {NoFill}

\* The first of the best is one of them and none is better.
LEMMA FirstOfTheBest ==
    ASSUME NEW score, IsFiniteSet(DOMAIN score), DOMAIN score \subseteq Nat, DOMAIN score # {},
           \A i \in DOMAIN score : score[i] \in Int
    PROVE  /\ FirstBest(score) \in DOMAIN score
           /\ \A j \in DOMAIN score : score[j] <= score[FirstBest(score)]
<1>1. PICK m \in DOMAIN score : \A j \in DOMAIN score : score[j] <= score[m]
  BY LargestExists
<1> DEFINE T == {i \in DOMAIN score : score[i] = score[m]}
<1>2. PICK i \in T : \A j \in T : i <= j
  <2>1. T \subseteq Nat /\ m \in T OBVIOUS
  <2> HIDE DEF T
  <2> QED BY <2>1, LeastNatural
<1>3. i \in DOMAIN score /\ \A j \in DOMAIN score : score[j] <= score[i] BY <1>1
<1>4. \A j \in DOMAIN score : score[j] < score[i] \/ (score[j] = score[i] /\ i <= j)
  BY <1>1, <1>2
<1>5. \A k \in DOMAIN score :
        (\A j \in DOMAIN score : score[j] < score[k] \/ (score[j] = score[k] /\ k <= j))
          => \A j \in DOMAIN score : score[j] <= score[k]
  OBVIOUS
<1> QED BY <1>3, <1>4, <1>5 DEF FirstBest

\* The best single venue returns something for the order and none returns more.
LEMMA BestOfTheVenues ==
    ASSUME NEW curves, Venues(curves), NEW amount \in Nat, BestSingle(curves, amount) # NoVenue
    PROVE  /\ amount > 0 /\ BestSingle(curves, amount) \in DOMAIN curves
           /\ Out(curves[BestSingle(curves, amount)], amount) \in Nat \ {0}
           /\ \A i \in Usable(curves) :
                Out(curves[i], amount) <= Out(curves[BestSingle(curves, amount)], amount)
<1> DEFINE fills == {i \in Usable(curves) : Out(curves[i], amount) > 0}
           score == [i \in fills |-> Out(curves[i], amount)]
<1>1. fills # {} /\ BestSingle(curves, amount) = FirstBest(score) BY DEF BestSingle
<1>2. fills \in SUBSET DOMAIN curves BY DEF Usable
<1>3. IsFiniteSet(fills) /\ fills \subseteq Nat BY <1>2, FS_Subset DEF Venues
<1>4. \A i \in Usable(curves) : Out(curves[i], amount) \in Nat \cup {NoFill}
  BY DEF Venues, Usable
<1>5. \A i \in fills : score[i] \in Int BY <1>4 DEF NoFill
<1>6. DOMAIN score = fills OBVIOUS
<1> HIDE DEF score
<1>7. FirstBest(score) \in fills /\ \A j \in fills : score[j] <= score[FirstBest(score)]
  BY <1>1, <1>3, <1>5, <1>6, FirstOfTheBest
<1>8. PICK b \in fills : b = BestSingle(curves, amount) BY <1>1, <1>7
<1>9. \A j \in fills : Out(curves[j], amount) <= Out(curves[b], amount)
  BY <1>1, <1>7, <1>8 DEF score
<1>10. \A i \in Usable(curves) : i \notin fills => Out(curves[i], amount) <= Out(curves[b], amount)
  BY <1>4, <1>8 DEF NoFill
<1>11. amount > 0 BY <1>8 DEF Out
<1>12. Out(curves[b], amount) \in Nat \ {0} BY <1>4, <1>8 DEF NoFill
<1> QED BY <1>2, <1>8, <1>9, <1>10, <1>11, <1>12

\* An allocation over venues that fill what they were given.
Allocation(curves, max_legs, at) ==
    /\ at \in [DOMAIN curves -> Nat]
    /\ \A i \in DOMAIN curves : Out(curves[i], at[i]) # NoFill
    /\ Cardinality(Opened(at)) <= max_legs

Given(curves, at) == SumFunctionOnSet(at, DOMAIN curves)

\* A chunk goes to one of the venues that may take it.
LEMMA ChunkGoesSomewhere ==
    ASSUME NEW curves, Venues(curves), NEW at \in [DOMAIN curves -> Nat], NEW chunk \in Nat,
           NEW max_legs \in Nat, DOMAIN Gains(curves, at, chunk, max_legs) # {}
    PROVE  /\ FirstBest(Gains(curves, at, chunk, max_legs)) \in Usable(curves)
           /\ FirstBest(Gains(curves, at, chunk, max_legs)) \in DOMAIN curves
           /\ \E i \in DOMAIN curves :
                /\ i = FirstBest(Gains(curves, at, chunk, max_legs))
                /\ at[i] > 0 \/ Cardinality(Opened(at)) < max_legs
                /\ Out(curves[i], at[i] + chunk) # NoFill
<1> DEFINE open == {v \in Usable(curves) : /\ at[v] > 0 \/ Cardinality(Opened(at)) < max_legs
                                           /\ Out(curves[v], at[v] + chunk) # NoFill}
           gains == Gains(curves, at, chunk, max_legs)
<1>1. open \in SUBSET DOMAIN curves BY DEF Usable
<1>2. IsFiniteSet(open) /\ open \subseteq Nat BY <1>1, FS_Subset DEF Venues
<1>3. DOMAIN gains = open BY DEF Gains
<1>4. \A i \in open : gains[i] \in Int
  <2> TAKE i \in open
  <2>1. i \in DOMAIN curves /\ at[i] \in Nat /\ at[i] + chunk \in Nat BY <1>1
  <2>2. gains[i] = Out(curves[i], at[i] + chunk) - Out(curves[i], at[i]) BY DEF Gains
  <2>3. Out(curves[i], at[i] + chunk) \in Int /\ Out(curves[i], at[i]) \in Int
    BY <2>1 DEF Venues, NoFill
  <2> HIDE DEF gains
  <2> QED BY <2>2, <2>3
<1> HIDE DEF gains
<1>5. FirstBest(gains) \in open BY <1>2, <1>3, <1>4, FirstOfTheBest DEF gains
<1> QED BY <1>1, <1>5 DEF gains

\* A placed chunk is given to one venue.
LEMMA PlacedChunk ==
    ASSUME NEW curves, Venues(curves), NEW at \in [DOMAIN curves -> Nat], NEW chunk \in Nat,
           NEW max_legs \in Nat
    PROVE  LET b == Place(curves, max_legs, at, chunk)
           IN  \/ b = <<>>
               \/ /\ b \in [DOMAIN curves -> Nat]
                  /\ Allocation(curves, max_legs, at) => Allocation(curves, max_legs, b)
                  /\ Given(curves, b) = Given(curves, at) + chunk
<1> DEFINE b == Place(curves, max_legs, at, chunk)
<1>1. Given(curves, at) \in Int
  <2>1. \A i \in DOMAIN curves : at[i] \in Int OBVIOUS
  <2> QED BY <2>1, SumType DEF Venues, Given
<1>2. CASE at = <<>> \/ (DOMAIN Gains(curves, at, chunk, max_legs) = {} /\ chunk # 0)
  BY <1>2 DEF Place
<1>3. CASE at # <<>> /\ chunk = 0
  <2>1. b = at BY <1>3 DEF Place
  <2>2. Given(curves, at) = Given(curves, at) + chunk BY <1>1, <1>3
  <2> QED BY <2>1, <2>2
<1>4. CASE at # <<>> /\ chunk # 0 /\ DOMAIN Gains(curves, at, chunk, max_legs) # {}
  <2>1. PICK i \in DOMAIN curves :
          /\ i = FirstBest(Gains(curves, at, chunk, max_legs))
          /\ at[i] > 0 \/ Cardinality(Opened(at)) < max_legs
          /\ Out(curves[i], at[i] + chunk) # NoFill
    BY <1>4, ChunkGoesSomewhere
  <2>2. b = [at EXCEPT ![i] = @ + chunk] BY <1>4, <2>1 DEF Place
  <2> HIDE DEF b
  <2>3. b \in [DOMAIN curves -> Nat] BY <2>2
  <2>4. b[i] = at[i] + chunk /\ \A j \in DOMAIN curves : j # i => b[j] = at[j] BY <2>2
  <2>5. Given(curves, b) = Given(curves, at) + chunk
    <3>1. \A j \in DOMAIN curves : at[j] \in Int /\ b[j] \in Int /\ (j # i => at[j] = b[j])
      BY <2>3, <2>4
    <3>2. Given(curves, b) = Given(curves, at) + (b[i] - at[i])
      BY <3>1, SumChange DEF Given, Venues
    <3>3. b[i] - at[i] = chunk BY <2>3, <2>4
    <3> QED BY <3>2, <3>3
  <2>6. ASSUME Allocation(curves, max_legs, at) PROVE Allocation(curves, max_legs, b)
    <3>1. \A j \in DOMAIN curves : Out(curves[j], b[j]) # NoFill
      BY <2>1, <2>4, <2>6 DEF Allocation
    <3>2. Opened(b) = Opened(at) \cup {i}
      <4>1. b[i] > 0 BY <1>4, <2>4
      <4> QED BY <2>3, <2>4, <4>1 DEF Opened
    <3>3. Opened(at) \in SUBSET DOMAIN curves BY DEF Opened
    <3>4. IsFiniteSet(Opened(at)) BY <3>3, FS_Subset DEF Venues
    <3>5. Cardinality(Opened(b)) = IF i \in Opened(at) THEN Cardinality(Opened(at))
                                   ELSE Cardinality(Opened(at)) + 1
      BY <3>2, <3>4, FS_AddElement
    <3>6. Cardinality(Opened(at)) \in Nat /\ Cardinality(Opened(at)) <= max_legs
      BY <2>6, <3>4, FS_CardinalityType DEF Allocation
    <3>7. at[i] > 0 => i \in Opened(at) BY DEF Opened
    <3>8. Cardinality(Opened(b)) <= max_legs BY <2>1, <3>5, <3>6, <3>7
    <3> QED BY <2>3, <3>1, <3>8 DEF Allocation
  <2> QED BY <2>3, <2>5, <2>6 DEF b
<1> HIDE DEF b
<1> QED BY <1>2, <1>3, <1>4 DEF b

\* The largest of some numbers is one of them, and the others are no larger.
LEMMA MaxIsElement ==
    ASSUME NEW s, IsFiniteSet(s), s \subseteq Int, s # {}
    PROVE  Max(s) \in s /\ \A x \in s : x <= Max(s)
<1> DEFINE f == [x \in s |-> x]
<1>1. \A x \in s : f[x] \in Int OBVIOUS
<1>2. PICK m \in s : \A x \in s : f[x] <= f[m]
  <2> HIDE DEF f
  <2> QED BY <1>1, LargestExists
<1>3. \A x \in s : m >= x BY <1>2
<1>4. Max(s) \in s /\ \A x \in s : Max(s) >= x BY <1>3 DEF Max
<1> QED BY <1>4

\* So it is of some numbers up to n.
LEMMA LargestPart ==
    ASSUME NEW n \in Nat, NEW s \in SUBSET (1..n), s # {}
    PROVE  Max(s) \in s
<1>1. IsFiniteSet(1..n) BY FS_Interval
<1>2. PICK I : I = 1..n OBVIOUS
<1>3. IsFiniteSet(I) /\ s \in SUBSET I BY <1>1, <1>2
<1>4. IsFiniteSet(s) BY <1>3, FS_Subset
<1>5. s \subseteq Int OBVIOUS
<1> QED BY <1>4, <1>5, MaxIsElement

PlaceParts(curves, max_legs, chunks, parts) ==
    LET iter[s \in SUBSET parts] ==
            IF s = {} THEN [i \in DOMAIN curves |-> 0]
            ELSE Place(curves, max_legs, iter[s \ {Max(s)}], chunks[Max(s)])
    IN  iter[parts]

\* What was placed of the chunks: all of them, or nothing.
LEMMA AllocatedParts ==
    ASSUME NEW curves, Venues(curves), NEW max_legs \in Nat, NEW parts, IsFiniteSet(parts),
           \A s \in SUBSET parts : s # {} => Max(s) \in s, NEW chunks \in [parts -> Nat]
    PROVE  LET end == PlaceParts(curves, max_legs, chunks, parts)
           IN  \/ end = <<>>
               \/ /\ Allocation(curves, max_legs, end)
                  /\ Given(curves, end) = SumFunctionOnSet(chunks, parts)
<1> DEFINE base == [i \in DOMAIN curves |-> 0]
           Step(h, s) == IF s = {} THEN base
                         ELSE Place(curves, max_legs, h[s \ {Max(s)}], chunks[Max(s)])
           Iter(h) == h = [s \in SUBSET parts |-> Step(h, s)]
           iter == CHOOSE h : Iter(h)
           D == {<<>>} \cup [DOMAIN curves -> Nat]
<1>1. PlaceParts(curves, max_legs, chunks, parts) = iter[parts] BY DEF PlaceParts
<1>2. IsFiniteSet(parts) OBVIOUS
<1>3. \A s \in SUBSET parts : s # {} => Max(s) \in s OBVIOUS
<1>4. \A at \in D, k \in parts : Place(curves, max_legs, at, chunks[k]) \in D
  <2> TAKE at \in D, k \in parts
  <2>1. PICK c \in Nat : c = chunks[k] OBVIOUS
  <2>2. CASE at = <<>> BY <2>2 DEF Place
  <2>3. CASE at \in [DOMAIN curves -> Nat] BY <2>1, <2>3, PlacedChunk
  <2> QED BY <2>2, <2>3
<1>5. Iter(iter)
  <2> DEFINE F == [p \in D \X parts |-> Place(curves, max_legs, p[1], chunks[p[2]])]
             pick == [s \in SUBSET parts |-> Max(s)]
  <2>1. base \in D OBVIOUS
  <2>2. F \in [D \X parts -> D]
    <3>1. \A p \in D \X parts : p[1] \in D /\ p[2] \in parts OBVIOUS
    <3> HIDE DEF D
    <3> QED BY <1>4, <3>1
  <2>3. \A s \in SUBSET parts : s # {} => pick[s] \in s BY <1>3
  <2>4. \A at \in D, k \in parts : F[<<at, k>>] = Place(curves, max_legs, at, chunks[k])
    OBVIOUS
  <2>5. \A s \in SUBSET parts : pick[s] = Max(s) OBVIOUS
  <2> HIDE DEF F, pick, D, base
  <2>6. PICK g \in [SUBSET parts -> D] : Folds(g, base, F, pick, SUBSET parts)
    <3>1. Foldable(parts, pick, D, base, F) BY <1>2, <2>1, <2>2, <2>3 DEF Foldable
    <3>2. HasFold(parts, pick, D, base, F) BY <3>1, FoldsExist
    <3> QED BY <3>2 DEF HasFold
  <2>7. \A s \in SUBSET parts : g[s] = Step(g, s)
    <3> TAKE s \in SUBSET parts
    <3>1. CASE s = {} BY <2>6, <3>1 DEF Folds
    <3>2. CASE s # {}
      <4>1. Max(s) \in parts /\ s \ {Max(s)} \in SUBSET parts BY <1>3, <3>2
      <4>2. g[s \ {Max(s)}] \in D BY <4>1
      <4>3. g[s] = F[<<g[s \ {Max(s)}], Max(s)>>] BY <2>5, <2>6, <3>2 DEF Folds
      <4> QED BY <2>4, <3>2, <4>1, <4>2, <4>3
    <3> QED BY <3>1, <3>2
  <2>8. g = [s \in SUBSET parts |-> g[s]] OBVIOUS
  <2>9. Iter(g) BY <2>7, <2>8
  <2> QED BY <2>9
<1> HIDE DEF iter
<1>6. \A s \in SUBSET parts : iter[s] = Step(iter, s) BY <1>5
<1> DEFINE Good(s) == \/ iter[s] = <<>>
                      \/ /\ Allocation(curves, max_legs, iter[s])
                         /\ Given(curves, iter[s]) = SumFunctionOnSet(chunks, s)
           G == {s \in SUBSET parts : Good(s)}
<1>7. {} \in G
  <2>1. iter[{}] = base BY <1>6
  <2>2. Given(curves, base) = 0
    <3>1. \A i \in DOMAIN curves : base[i] = 0 OBVIOUS
    <3> QED BY <3>1, SumZero DEF Given, Venues
  <2>3. Allocation(curves, max_legs, base)
    <3>1. Opened(base) = {} BY DEF Opened
    <3>2. \A i \in DOMAIN curves : Out(curves[i], base[i]) # NoFill BY DEF Out, NoFill
    <3>3. Cardinality(Opened(base)) <= max_legs BY <3>1, FS_EmptySet
    <3>4. base \in [DOMAIN curves -> Nat] OBVIOUS
    <3> HIDE DEF base
    <3> QED BY <3>2, <3>3, <3>4 DEF Allocation
  <2> QED BY <2>1, <2>2, <2>3, SumEmpty
<1>8. ASSUME NEW s \in SUBSET parts, s # {}
      PROVE  \E k \in s : s \ {k} \in G => s \in G
  <2>1. PICK k \in s : k = Max(s) BY <1>3, <1>8
  <2> SUFFICES ASSUME s \ {k} \in G PROVE s \in G BY <2>1
  <2>2. PICK t \in SUBSET parts : t = s \ {k} OBVIOUS
  <2>3. PICK c \in Nat : c = chunks[k] OBVIOUS
  <2>4. iter[s] = Place(curves, max_legs, iter[t], c) BY <1>6, <1>8, <2>1, <2>2, <2>3
  <2>5. CASE iter[t] = <<>> BY <2>4, <2>5 DEF Place
  <2>6. CASE Allocation(curves, max_legs, iter[t])
               /\ Given(curves, iter[t]) = SumFunctionOnSet(chunks, t)
    <3>1. PICK at \in [DOMAIN curves -> Nat] : at = iter[t] BY <2>6 DEF Allocation
    <3>2. PICK b : b = Place(curves, max_legs, at, c) OBVIOUS
    <3>3. \/ b = <<>>
          \/ Allocation(curves, max_legs, b) /\ Given(curves, b) = Given(curves, at) + c
      BY <2>6, <3>1, <3>2, PlacedChunk
    <3>4. SumFunctionOnSet(chunks, s) = c + SumFunctionOnSet(chunks, t)
      <4>1. IsFiniteSet(s) BY <1>2, FS_Subset
      <4>2. \A x \in s : chunks[x] \in Int OBVIOUS
      <4> QED BY <2>2, <2>3, <4>1, <4>2, SumElement
    <3>5. SumFunctionOnSet(chunks, t) \in Int
      <4>1. IsFiniteSet(t) BY <1>2, FS_Subset
      <4>2. \A x \in t : chunks[x] \in Int OBVIOUS
      <4> QED BY <4>1, <4>2, SumType
    <3> QED BY <2>4, <2>6, <3>1, <3>2, <3>3, <3>4, <3>5
  <2> QED BY <2>2, <2>5, <2>6
<1> HIDE DEF G
<1>9. SUBSET parts \subseteq G BY <1>2, <1>7, <1>8, PartByPart
<1>10. parts \in G BY <1>9
<1> QED BY <1>1, <1>10 DEF G

\* The chunks in their order.
LEMMA AllocatedChunks ==
    ASSUME NEW curves, Venues(curves), NEW max_legs \in Nat, NEW n \in Nat,
           NEW chunks \in [1..n -> Nat]
    PROVE  LET end == PlaceAll(curves, max_legs, chunks)
           IN  \/ end = <<>>
               \/ /\ Allocation(curves, max_legs, end)
                  /\ Given(curves, end) = SumFunctionOnSet(chunks, 1..n)
<1>1. PlaceAll(curves, max_legs, chunks) = PlaceParts(curves, max_legs, chunks, 1..n)
  <2>1. DOMAIN chunks = 1..n OBVIOUS
  <2> QED BY <2>1 DEF PlaceAll, PlaceParts, FoldLeft, MapThenFoldSet
<1>2. PICK parts : parts = 1..n OBVIOUS
<1>3. IsFiniteSet(parts) BY <1>2, FS_Interval
<1>4. \A s \in SUBSET parts : s # {} => Max(s) \in s BY <1>2, LargestPart
<1>5. chunks \in [parts -> Nat] BY <1>2
<1>6. LET end == PlaceParts(curves, max_legs, chunks, parts)
      IN  \/ end = <<>>
          \/ /\ Allocation(curves, max_legs, end)
             /\ Given(curves, end) = SumFunctionOnSet(chunks, parts)
  BY <1>3, <1>4, <1>5, AllocatedParts
<1> QED BY <1>1, <1>2, <1>6

\* The chunks of an order are the order.
LEMMA ChunksAreTheOrder ==
    ASSUME NEW total \in Nat, NEW granularity \in Nat \ {0}
    PROVE  /\ Chunks(total, granularity) \in [1..granularity -> Nat]
           /\ SumFunctionOnSet(Chunks(total, granularity), 1..granularity) = total
<1>1. PICK g \in Nat : g = granularity - 1 /\ granularity = g + 1 OBVIOUS
<1>2. PICK base \in Nat : base = total \div granularity /\ base * granularity <= total
  BY Quotients, RoundedUp
<1>3. g * base \in Nat /\ g * base <= total
  <2>1. (g + 1) * base = g * base + 1 * base /\ g * base \in Nat BY Distributes
  <2>2. base * granularity = (g + 1) * base BY <1>1
  <2> QED BY <1>2, <2>1, <2>2
<1>4. PICK last \in Nat : last = total - g * base BY <1>3
<1>5. PICK f : f = [i \in 1..granularity |-> IF i < granularity THEN base ELSE last] OBVIOUS
<1>6. f = Chunks(total, granularity) BY <1>1, <1>2, <1>4, <1>5 DEF Chunks
<1>7. f \in [1..granularity -> Nat] /\ f[granularity] = last BY <1>5
<1>8. (1..granularity) \ {granularity} = 1..g BY <1>1
<1>9. SumFunctionOnSet(f, 1..granularity) = last + SumFunctionOnSet(f, 1..g)
  <2>1. IsFiniteSet(1..granularity) BY FS_Interval
  <2>2. \A i \in 1..granularity : f[i] \in Int BY <1>7
  <2>3. granularity \in 1..granularity OBVIOUS
  <2>4. SumFunctionOnSet(f, 1..granularity)
          = f[granularity] + SumFunctionOnSet(f, (1..granularity) \ {granularity})
    <3>1. PICK S : S = 1..granularity OBVIOUS
    <3>2. IsFiniteSet(S) /\ granularity \in S /\ \A i \in S : f[i] \in Int BY <2>1, <2>2, <2>3, <3>1
    <3>3. \A k \in S : SumFunctionOnSet(f, S) = f[k] + SumFunctionOnSet(f, S \ {k})
      BY <3>2, SumElement
    <3> QED BY <3>1, <3>2, <3>3, Zenon
  <2> QED BY <1>7, <1>8, <2>4
<1>10. SumFunctionOnSet(f, 1..g) = g * base
  <2>1. \A i \in 1..g : f[i] = base BY <1>1, <1>5
  <2>2. IsFiniteSet(1..g) /\ Cardinality(1..g) = g BY FS_Interval
  <2> QED BY <2>1, <2>2, SumConstant
<1>11. last + g * base = total BY <1>3, <1>4
<1> QED BY <1>7, <1>9, <1>10, <1>6, <1>11

\* An order is placed whole or not at all.
LEMMA AllocatesTheOrder ==
    ASSUME NEW curves, Venues(curves), NEW amount \in Nat, NEW opts,
           opts.max_legs \in Nat, opts.granularity \in Nat \ {0}
    PROVE  LET at == Allocate(curves, amount, opts)
           IN  \/ at = <<>>
               \/ Allocation(curves, opts.max_legs, at) /\ Given(curves, at) = amount
<1>1. PICK max_legs \in Nat, n \in Nat \ {0} : max_legs = opts.max_legs /\ n = opts.granularity
  OBVIOUS
<1>2. PICK chunks \in [1..n -> Nat] :
        chunks = Chunks(amount, n) /\ SumFunctionOnSet(chunks, 1..n) = amount
  BY ChunksAreTheOrder
<1>3. PICK end : end = PlaceAll(curves, max_legs, chunks) OBVIOUS
<1>4. end = Allocate(curves, amount, opts) BY <1>1, <1>2, <1>3 DEF Allocate
<1>5. \/ end = <<>>
      \/ /\ Allocation(curves, max_legs, end)
         /\ Given(curves, end) = SumFunctionOnSet(chunks, 1..n)
  BY <1>3, AllocatedChunks
<1> QED BY <1>1, <1>2, <1>4, <1>5

-----------------------------------------------------------------------------
(* Moving the boundary of two legs                                          *)

\* Where the search for a boundary may be.
Searches(total) ==
    {s \in [lo : 0..total, hi : 0..total, best : {NoFill} \cup 0..total, done : BOOLEAN] :
        s.lo <= s.hi}

\* The better of two points is one of them.
LEMMA BetterIsOne ==
    ASSUME NEW a, NEW b, NEW total, NEW x, NEW y
    PROVE  Better(a, b, total, x, y) \in {x, y}
BY DEF Better

\* The interval of a search shrinks within itself.
LEMMA NarrowStays ==
    ASSUME NEW a, NEW b, NEW total \in Nat, NEW s \in Searches(total), s.hi - s.lo > 1
    PROVE  Narrow(a, b, total, s) \in Searches(total)
<1>1. PICK lo \in 0..total, hi \in 0..total, best \in {NoFill} \cup 0..total :
        /\ lo = s.lo /\ hi = s.hi /\ best = s.best
        /\ hi - lo > 1
  BY DEF Searches
<1> DEFINE third == IF hi - lo >= 3 THEN (hi - lo) \div 3 ELSE 1
<1>2. PICK d \in Nat : d = third /\ d + d <= hi - lo
  <2>1. CASE hi - lo >= 3
    <3>1. PICK w \in Nat : w = hi - lo BY <1>1
    <3>2. w \div 3 \in Nat /\ w = (w \div 3) * 3 + (w % 3) /\ w % 3 \in 0..2 BY Quotients
    <3>3. third = w \div 3 BY <2>1, <3>1
    <3> QED BY <3>1, <3>2, <3>3
  <2>2. CASE ~ (hi - lo >= 3) BY <1>1, <2>2
  <2> QED BY <2>1, <2>2
<1>3. PICK m1 \in 0..total, m2 \in 0..total :
        /\ m1 = lo + d /\ m2 = hi - d /\ lo <= m1 /\ m1 <= m2 /\ m2 <= hi
  BY <1>1, <1>2
<1> HIDE DEF third
<1>4. PICK f1, f2, p :
        /\ f1 = Worth(a, b, total, m1) /\ f2 = Worth(a, b, total, m2)
        /\ p = Better(a, b, total, Better(a, b, total, best, m1), m2)
  OBVIOUS
<1>5. p \in {NoFill} \cup 0..total
  <2>1. PICK q : q = Better(a, b, total, best, m1) /\ q \in {best, m1} BY BetterIsOne
  <2>2. p \in {q, m2} BY <1>4, <2>1, BetterIsOne
  <2> QED BY <2>1, <2>2
<1>6. Narrow(a, b, total, s)
        = [lo   |-> IF f2 # NoFill /\ f1 < f2 THEN m1 ELSE lo,
           hi   |-> IF f1 # NoFill /\ f1 >= f2 THEN m2 ELSE hi,
           best |-> p,
           done |-> f1 = NoFill /\ f2 = NoFill]
  BY <1>1, <1>2, <1>3, <1>4, Zenon DEF Narrow, third
<1>7. PICK l \in {lo, m1}, h \in {hi, m2}, e \in BOOLEAN :
        Narrow(a, b, total, s) = [lo |-> l, hi |-> h, best |-> p, done |-> e]
  BY <1>6
<1>8. l \in 0..total /\ h \in 0..total /\ l <= h BY <1>3, <1>7
<1> QED BY <1>5, <1>7, <1>8 DEF Searches

Advance(a, b, total, s) ==
    IF s.done \/ s.hi - s.lo <= 1 THEN s ELSE Narrow(a, b, total, s)

\* The states of a search and the boundary it ends with.
SearchOf(a, b, total, steps, search) ==
    /\ search \in [0..steps -> Searches(total)]
    /\ search[0] = [lo |-> 0, hi |-> total, best |-> NoFill, done |-> FALSE]
    /\ \A k \in 1..steps : search[k] = Advance(a, b, total, search[k - 1])
    /\ Boundary(a, b, total, steps) = BestSeen(a, b, total, search[steps])

\* Every boundary is found by a search.
LEMMA BoundarySearch ==
    ASSUME NEW a, NEW b, NEW total \in Nat, NEW steps \in Nat
    PROVE  \E search : SearchOf(a, b, total, steps, search)
<1> DEFINE base == [lo |-> 0, hi |-> total, best |-> NoFill, done |-> FALSE]
           Step(g, k) == IF k = 0 THEN base ELSE Advance(a, b, total, g[k - 1])
           Iter(g) == g = [k \in 0..steps |-> Step(g, k)]
           search == CHOOSE g : Iter(g)
           D == Searches(total)
<1>1. Boundary(a, b, total, steps) = BestSeen(a, b, total, search[steps])
  BY DEF Boundary, Advance
<1>2. base \in D BY DEF Searches
<1>3. \A s \in D : Advance(a, b, total, s) \in D
  <2> TAKE s \in D
  <2>1. s.hi - s.lo \in Int BY DEF Searches
  <2>2. CASE s.done \/ s.hi - s.lo <= 1 BY <2>2 DEF Advance
  <2>3. CASE ~ s.done /\ s.hi - s.lo > 1
    <3>1. Narrow(a, b, total, s) \in D BY <2>3, NarrowStays
    <3>2. Advance(a, b, total, s) = Narrow(a, b, total, s) BY <2>1, <2>3 DEF Advance
    <3> QED BY <3>1, <3>2
  <2> QED BY <2>1, <2>2, <2>3
<1> HIDE DEF base, D
<1>4. Iter(search)
  <2> DEFINE F == [s \in D |-> Advance(a, b, total, s)]
  <2>1. F \in [D -> D] BY <1>3
  <2>2. \A s \in D : F[s] = Advance(a, b, total, s) OBVIOUS
  <2> HIDE DEF F
  <2>3. PICK g \in [0..steps -> D] : Repeats(g, base, F, steps) BY <1>2, <2>1, RepeatsExist
  <2>4. \A k \in 0..steps : g[k] = Step(g, k)
    <3> TAKE k \in 0..steps
    <3>1. CASE k = 0 BY <2>3, <3>1 DEF Repeats
    <3>2. CASE k # 0
      <4>1. g[k - 1] \in D BY <2>3, <3>2
      <4>2. g[k] = F[g[k - 1]] BY <2>3, <3>2 DEF Repeats
      <4> QED BY <2>2, <3>2, <4>1, <4>2
    <3> QED BY <3>1, <3>2
  <2>5. g = [k \in 0..steps |-> g[k]] OBVIOUS
  <2>6. Iter(g) BY <2>4, <2>5
  <2> QED BY <2>6
<1> HIDE DEF search
<1>5. \A k \in 0..steps : search[k] = Step(search, k) BY <1>4
<1> DEFINE G == {k \in 0..steps : search[k] \in D}
<1>6. 0 \in G BY <1>2, <1>5
<1>7. \A k \in 1..steps : k - 1 \in G => k \in G
  <2> TAKE k \in 1..steps
  <2>1. search[k] = Advance(a, b, total, search[k - 1]) BY <1>5
  <2> QED BY <1>3, <2>1
<1> HIDE DEF G
<1>8. 0..steps \subseteq G BY <1>6, <1>7, CountUp
<1>9. search \in [0..steps -> D]
  <2>1. DOMAIN search = 0..steps /\ search = [k \in DOMAIN search |-> search[k]] BY <1>4
  <2>2. \A k \in 0..steps : search[k] \in D BY <1>8 DEF G
  <2> QED BY <2>1, <2>2
<1>10. search[0] = base /\ \A k \in 1..steps : search[k] = Advance(a, b, total, search[k - 1])
  BY <1>5
<1> QED BY <1>1, <1>9, <1>10 DEF D, base, SearchOf

\* A boundary is a division of what the two legs have, or none was seen.
LEMMA BoundaryDivides ==
    ASSUME NEW a, NEW b, NEW total \in Nat, NEW steps \in Nat
    PROVE  Boundary(a, b, total, steps) \in {NoFill} \cup 0..total
<1>1. PICK search : SearchOf(a, b, total, steps, search) BY BoundarySearch
<1>2. PICK s \in Searches(total) : s = search[steps] BY <1>1 DEF SearchOf
<1>3. PICK q : q = Better(a, b, total, s.best, s.lo) /\ q \in {s.best, s.lo} BY BetterIsOne
<1>4. BestSeen(a, b, total, s) \in {q, s.hi} BY <1>3, BetterIsOne DEF BestSeen
<1>5. s.best \in {NoFill} \cup 0..total /\ s.lo \in 0..total /\ s.hi \in 0..total
  BY DEF Searches
<1> QED BY <1>1, <1>2, <1>3, <1>4, <1>5 DEF SearchOf

-----------------------------------------------------------------------------
(* Moving what two legs have                                                *)

Returns(curves, at) == [i \in DOMAIN curves |-> Out(curves[i], at[i])]
Returned(curves, at) == SumFunctionOnSet(Returns(curves, at), DOMAIN curves)

\* A division of the amount over legs that fill their part, and what it returns.
Divisions(curves, legs, amount) ==
    {s \in [at : [DOMAIN curves -> Nat], out : Int] :
        /\ \A i \in DOMAIN curves : Out(curves[i], s.at[i]) # NoFill
        /\ Opened(s.at) \subseteq legs
        /\ Given(curves, s.at) = amount
        /\ s.out = Returned(curves, s.at)}

LegSet(curves, at, i, x, new) ==
    at \in [DOMAIN curves -> Nat] /\ i \in DOMAIN curves /\ x \in Nat /\ new = [at EXCEPT ![i] = x]
SumsFollow(curves, at, i, x, new) ==
    /\ new \in [DOMAIN curves -> Nat]
    /\ Given(curves, at) \in Int /\ Returned(curves, at) \in Int
    /\ Given(curves, new) = Given(curves, at) + (x - at[i])
    /\ Returned(curves, new) = Returned(curves, at) + (Out(curves[i], x) - Out(curves[i], at[i]))

\* One leg's part changes, and the sums with it.
LEMMA OneLegChanges ==
    ASSUME NEW curves, Venues(curves), NEW at, NEW i, NEW x, NEW new, LegSet(curves, at, i, x, new)
    PROVE  SumsFollow(curves, at, i, x, new)
<1> USE DEF LegSet, SumsFollow
<1>1. /\ new \in [DOMAIN curves -> Nat] /\ new[i] = x
      /\ \A j \in DOMAIN curves : j # i => new[j] = at[j]
  OBVIOUS
<1>2. PICK f, g : f = Returns(curves, at) /\ g = Returns(curves, new) OBVIOUS
<1>3. \A j \in DOMAIN curves : f[j] = Out(curves[j], at[j]) /\ g[j] = Out(curves[j], new[j])
  BY <1>2 DEF Returns
<1>4. \A j \in DOMAIN curves : f[j] \in Int /\ g[j] \in Int /\ (j # i => f[j] = g[j])
  BY <1>1, <1>3 DEF Venues, NoFill
<1>5. \A j \in DOMAIN curves : at[j] \in Int /\ new[j] \in Int /\ (j # i => at[j] = new[j])
  BY <1>1
<1>6. /\ Given(curves, at) \in Int
      /\ Given(curves, new) = Given(curves, at) + (new[i] - at[i])
  BY <1>5, SumChange DEF Given, Venues
<1>7. /\ SumFunctionOnSet(f, DOMAIN curves) \in Int
      /\ SumFunctionOnSet(g, DOMAIN curves) = SumFunctionOnSet(f, DOMAIN curves) + (g[i] - f[i])
  BY <1>4, SumChange DEF Venues
<1>8. /\ Returned(curves, at) = SumFunctionOnSet(f, DOMAIN curves)
      /\ Returned(curves, new) = SumFunctionOnSet(g, DOMAIN curves)
  BY <1>2 DEF Returned
<1> QED BY <1>1, <1>3, <1>6, <1>7, <1>8

\* A move keeps what is given and counts what is returned.
LEMMA MoveKeeps ==
    ASSUME NEW curves, Venues(curves), NEW legs \in SUBSET DOMAIN curves, NEW amount,
           NEW s \in Divisions(curves, legs, amount), NEW i \in legs, NEW j \in legs, i # j,
           NEW x \in {NoFill} \cup 0..(s.at[i] + s.at[j])
    PROVE  Move(curves, s, i, j, x) \in Divisions(curves, legs, amount)
<1>1. PICK at \in [DOMAIN curves -> Nat], out \in Int :
        /\ s = [at |-> at, out |-> out] /\ s.at = at /\ s.out = out
        /\ \A k \in DOMAIN curves : Out(curves[k], at[k]) # NoFill
        /\ Opened(at) \subseteq legs /\ Given(curves, at) = amount /\ out = Returned(curves, at)
  BY DEF Divisions
<1>2. PICK m \in Nat, n \in Nat : m = at[i] /\ n = at[j] OBVIOUS
<1>3. PICK after : after = Worth(curves[i], curves[j], m + n, x) OBVIOUS
<1>4. PICK p \in Nat, q \in Nat : p = Out(curves[i], m) /\ q = Out(curves[j], n)
  BY <1>1, <1>2 DEF Venues
<1>5. CASE after <= p + q
  <2>1. Move(curves, s, i, j, x) = s BY <1>1, <1>2, <1>3, <1>4, <1>5 DEF Move
  <2> QED BY <2>1
<1>6. CASE ~ (after <= p + q)
  <2>1. /\ x # NoFill /\ Out(curves[i], x) # NoFill /\ Out(curves[j], m + n - x) # NoFill
        /\ after = Out(curves[i], x) + Out(curves[j], m + n - x)
    BY <1>3, <1>4, <1>6 DEF Worth, NoFill
  <2>2. PICK y \in Nat, z \in Nat : y = x /\ z = m + n - x BY <1>1, <1>2, <2>1
  <2>3. PICK u \in Nat, v \in Nat : u = Out(curves[i], y) /\ v = Out(curves[j], z)
    BY <2>1, <2>2 DEF Venues
  <2>4. PICK mid : mid = [at EXCEPT ![i] = y] OBVIOUS
  <2>5. /\ mid \in [DOMAIN curves -> Nat] /\ mid[i] = y /\ mid[j] = n
        /\ Given(curves, at) \in Int /\ Returned(curves, at) \in Int
        /\ Given(curves, mid) = Given(curves, at) + (y - m)
        /\ Returned(curves, mid) = Returned(curves, at) + (u - p)
    <3>1. LegSet(curves, at, i, y, mid) BY <2>4 DEF LegSet
    <3>2. SumsFollow(curves, at, i, y, mid) BY <3>1, OneLegChanges
    <3> QED BY <1>2, <1>4, <2>3, <2>4, <3>2 DEF SumsFollow
  <2>6. PICK new : new = [mid EXCEPT ![j] = z] OBVIOUS
  <2>7. /\ new \in [DOMAIN curves -> Nat]
        /\ Given(curves, mid) \in Int /\ Returned(curves, mid) \in Int
        /\ Given(curves, new) = Given(curves, mid) + (z - n)
        /\ Returned(curves, new) = Returned(curves, mid) + (v - q)
    <3>1. LegSet(curves, mid, j, z, new) BY <2>5, <2>6 DEF LegSet
    <3>2. SumsFollow(curves, mid, j, z, new) BY <3>1, OneLegChanges
    <3> QED BY <1>4, <2>3, <2>5, <3>2 DEF SumsFollow
  <2>8. Given(curves, new) = amount BY <1>1, <2>2, <2>5, <2>7
  <2>9. PICK worth \in Int : worth = out - (p + q) + (u + v) OBVIOUS
  <2>10. worth = Returned(curves, new) BY <1>1, <2>5, <2>7, <2>9
  <2>11. Move(curves, s, i, j, x) = [at |-> new, out |-> worth]
    <3>1. new = [at EXCEPT ![i] = x, ![j] = m + @ - x]
      BY <1>2, <2>2, <2>4, <2>5, <2>6
    <3>2. after = u + v BY <2>1, <2>2, <2>3
    <3>3. Move(curves, s, i, j, x)
            = [at |-> [at EXCEPT ![i] = x, ![j] = m + @ - x], out |-> out - (p + q) + after]
      BY <1>1, <1>2, <1>3, <1>4, <1>6 DEF Move
    <3> QED BY <2>9, <3>1, <3>2, <3>3
  <2>12. \A k \in DOMAIN curves : new[k] = IF k = j THEN z ELSE IF k = i THEN y ELSE at[k]
    BY <2>4, <2>6
  <2>13. \A k \in DOMAIN curves : Out(curves[k], new[k]) # NoFill
    BY <1>1, <2>1, <2>2, <2>12
  <2>14. Opened(new) \subseteq legs BY <1>1, <2>7, <2>12 DEF Opened
  <2> QED BY <2>7, <2>8, <2>9, <2>10, <2>11, <2>13, <2>14 DEF Divisions
<1> QED BY <1>5, <1>6

\* Refining a pair keeps what is given and counts what is returned.
LEMMA RefinePairKeeps ==
    ASSUME NEW curves, Venues(curves), NEW legs \in SUBSET DOMAIN curves, NEW amount,
           NEW s \in Divisions(curves, legs, amount), NEW pair \in legs \X legs,
           pair[1] < pair[2], NEW steps \in Nat
    PROVE  RefinePair(curves, steps, s, pair) \in Divisions(curves, legs, amount)
<1>1. PICK i \in legs, j \in legs : i = pair[1] /\ j = pair[2] /\ i # j
  BY DEF Venues
<1>2. PICK total \in Nat : total = s.at[i] + s.at[j] BY DEF Divisions
<1>3. CASE total <= 1
  <2>1. RefinePair(curves, steps, s, pair) = s BY <1>1, <1>2, <1>3 DEF RefinePair
  <2> QED BY <2>1
<1>4. CASE ~ (total <= 1)
  <2>1. PICK x \in {NoFill} \cup 0..total : x = Boundary(curves[i], curves[j], total, steps)
    BY BoundaryDivides
  <2>2. RefinePair(curves, steps, s, pair) = Move(curves, s, i, j, x)
    BY <1>1, <1>2, <1>4, <2>1 DEF RefinePair
  <2> QED BY <1>1, <1>2, <2>1, <2>2, MoveKeeps
<1> QED BY <1>3, <1>4

RefineParts(curves, steps, s, pairs, parts) ==
    LET iter[t \in SUBSET parts] ==
            IF t = {} THEN s
            ELSE RefinePair(curves, steps, iter[t \ {Max(t)}], pairs[Max(t)])
    IN  iter[parts]

\* A pair has two parts.
LEMMA PairParts ==
    ASSUME NEW legs
    PROVE  \A q \in Pairs(legs) : q = <<q[1], q[2]>> /\ q[1] \in legs /\ q[2] \in legs
BY DEF Pairs

\* Refining several pairs keeps what is given and counts what is returned.
LEMMA RefinePartsKeep ==
    ASSUME NEW curves, Venues(curves), NEW legs \in SUBSET DOMAIN curves, NEW amount,
           NEW s \in Divisions(curves, legs, amount), NEW steps \in Nat,
           NEW parts, IsFiniteSet(parts), \A t \in SUBSET parts : t # {} => Max(t) \in t,
           NEW pairs \in [parts -> Pairs(legs)]
    PROVE  RefineParts(curves, steps, s, pairs, parts) \in Divisions(curves, legs, amount)
<1> DEFINE Step(h, t) == IF t = {} THEN s
                         ELSE RefinePair(curves, steps, h[t \ {Max(t)}], pairs[Max(t)])
           Iter(h) == h = [t \in SUBSET parts |-> Step(h, t)]
           iter == CHOOSE h : Iter(h)
           D == Divisions(curves, legs, amount)
<1>1. RefineParts(curves, steps, s, pairs, parts) = iter[parts] BY DEF RefineParts
<1>2. \A d \in D, k \in parts : RefinePair(curves, steps, d, pairs[k]) \in D
  <2> TAKE d \in D, k \in parts
  <2>1. pairs[k] \in legs \X legs /\ pairs[k][1] < pairs[k][2] BY DEF Pairs
  <2> QED BY <2>1, RefinePairKeeps
<1>3. s \in D OBVIOUS
<1> HIDE DEF D
<1>4. Iter(iter)
  <2> DEFINE F == [p \in D \X parts |-> RefinePair(curves, steps, p[1], pairs[p[2]])]
             pick == [t \in SUBSET parts |-> Max(t)]
  <2>1. F \in [D \X parts -> D] BY <1>2
  <2>2. \A t \in SUBSET parts : t # {} => pick[t] \in t OBVIOUS
  <2>3. \A d \in D, k \in parts : F[<<d, k>>] = RefinePair(curves, steps, d, pairs[k])
    OBVIOUS
  <2>4. \A t \in SUBSET parts : pick[t] = Max(t) OBVIOUS
  <2> HIDE DEF F, pick
  <2>5. PICK g \in [SUBSET parts -> D] : Folds(g, s, F, pick, SUBSET parts)
    <3>1. Foldable(parts, pick, D, s, F) BY <1>3, <2>1, <2>2 DEF Foldable
    <3>2. HasFold(parts, pick, D, s, F) BY <3>1, FoldsExist
    <3> QED BY <3>2 DEF HasFold
  <2>6. \A t \in SUBSET parts : g[t] = Step(g, t)
    <3> TAKE t \in SUBSET parts
    <3>1. CASE t = {} BY <2>5, <3>1 DEF Folds
    <3>2. CASE t # {}
      <4>1. Max(t) \in parts /\ t \ {Max(t)} \in SUBSET parts BY <3>2
      <4>2. g[t \ {Max(t)}] \in D BY <4>1
      <4>3. g[t] = F[<<g[t \ {Max(t)}], Max(t)>>] BY <2>4, <2>5, <3>2 DEF Folds
      <4> QED BY <2>3, <3>2, <4>1, <4>2, <4>3
    <3> QED BY <3>1, <3>2
  <2>7. g = [t \in SUBSET parts |-> g[t]] OBVIOUS
  <2>8. Iter(g) BY <2>6, <2>7
  <2> QED BY <2>8
<1> HIDE DEF iter
<1>5. \A t \in SUBSET parts : iter[t] = Step(iter, t) BY <1>4
<1> DEFINE G == {t \in SUBSET parts : iter[t] \in D}
<1>6. {} \in G BY <1>3, <1>5
<1>7. ASSUME NEW t \in SUBSET parts, t # {}
      PROVE  \E k \in t : t \ {k} \in G => t \in G
  <2>1. PICK k \in t : k = Max(t) BY <1>7
  <2> SUFFICES ASSUME t \ {k} \in G PROVE t \in G BY <2>1
  <2>2. iter[t] = RefinePair(curves, steps, iter[t \ {k}], pairs[k]) BY <1>5, <1>7, <2>1
  <2> QED BY <1>2, <2>2
<1> HIDE DEF G
<1>8. SUBSET parts \subseteq G BY <1>6, <1>7, PartByPart
<1>9. parts \in G BY <1>8
<1> QED BY <1>1, <1>9 DEF G, D

\* One sweep over a list of pairs.
LEMMA RefineAllKeeps ==
    ASSUME NEW curves, Venues(curves), NEW legs \in SUBSET DOMAIN curves, NEW amount,
           NEW s \in Divisions(curves, legs, amount), NEW steps \in Nat,
           NEW n \in Nat, NEW pairs \in [1..n -> Pairs(legs)]
    PROVE  RefineAll(curves, steps, s, pairs) \in Divisions(curves, legs, amount)
<1>1. RefineAll(curves, steps, s, pairs) = RefineParts(curves, steps, s, pairs, 1..n)
  <2>1. DOMAIN pairs = 1..n OBVIOUS
  <2> QED BY <2>1 DEF RefineAll, RefineParts, FoldLeft, MapThenFoldSet
<1>2. PICK parts : parts = 1..n OBVIOUS
<1>3. IsFiniteSet(parts) BY <1>2, FS_Interval
<1>4. \A t \in SUBSET parts : t # {} => Max(t) \in t BY <1>2, LargestPart
<1>5. pairs \in [parts -> Pairs(legs)] BY <1>2
<1>6. RefineParts(curves, steps, s, pairs, parts) \in Divisions(curves, legs, amount)
  BY <1>3, <1>4, <1>5, RefinePartsKeep
<1> QED BY <1>1, <1>2, <1>6

-----------------------------------------------------------------------------
(* Lists in an order                                                        *)

\* The pairs of legs can be listed.
LEMMA PairsAreListed ==
    ASSUME NEW legs, IsFiniteSet(legs), legs \subseteq Nat
    PROVE  /\ Cardinality(Pairs(legs)) \in Nat
           /\ PairOrder(legs) \in [1..Cardinality(Pairs(legs)) -> Pairs(legs)]
<1> DEFINE S == Pairs(legs)
           Before(p, q) == p[1] < q[1] \/ (p[1] = q[1] /\ p[2] < q[2])
           R == {w \in S \X S : Before(w[1], w[2])}
           n == Cardinality(S)
<1>1. IsFiniteSet(S) /\ n \in Nat
  <2>1. IsFiniteSet(legs \X legs) BY FS_Product
  <2>2. S \in SUBSET (legs \X legs) BY DEF Pairs
  <2> QED BY <2>1, <2>2, FS_Subset, FS_CardinalityType
<1>2. \A q \in S : q = <<q[1], q[2]>> /\ q[1] \in Nat /\ q[2] \in Nat
  <2>1. \A q \in Pairs(legs) : q = <<q[1], q[2]>> /\ q[1] \in legs /\ q[2] \in legs
    BY PairParts
  <2> QED BY <2>1
<1>3. \A p, q \in S : <<p, q>> \in R <=> Before(p, q) OBVIOUS
<1> HIDE DEF S, R
<1>4. IsOrder(R, S)
  <2>1. ASSUME NEW p \in S, NEW q \in S, p # q PROVE <<p, q>> \in R \/ <<q, p>> \in R
    <3>1. p[1] # q[1] \/ p[2] # q[2] BY <1>2, <2>1
    <3>2. Before(p, q) \/ Before(q, p) BY <1>2, <3>1
    <3> QED BY <1>3, <3>2
  <2>2. ASSUME NEW p \in S, NEW q \in S, NEW r \in S, <<p, q>> \in R, <<q, r>> \in R
        PROVE  <<p, r>> \in R
    <3>1. Before(p, q) /\ Before(q, r) BY <1>3, <2>2
    <3>2. Before(p, r) BY <1>2, <3>1
    <3> QED BY <1>3, <3>2
  <2> QED BY <2>1, <2>2 DEF IsOrder
<1>5. PICK f : Lists(f, n, S, R) BY <1>1, <1>4, ListsExist
<1> DEFINE Listed(s) == \A i, j \in DOMAIN s : i < j => Before(s[i], s[j])
<1>6. f \in [1..n -> S] /\ Listed(f)
  <2>1. f \in [1..n -> S] /\ \A i, j \in 1..n : i < j => <<f[i], f[j]>> \in R
    BY <1>5 DEF Lists, Enumerates
  <2>2. \A i, j \in 1..n : i < j => Before(f[i], f[j]) BY <1>3, <2>1
  <2> QED BY <2>1, <2>2
<1>7. PairOrder(legs) = CHOOSE s \in [1..n -> S] : Listed(s) BY DEF PairOrder, InOrder, S
<1> HIDE DEF Listed
<1>8. PairOrder(legs) \in [1..n -> S] BY <1>6, <1>7
<1> QED BY <1>1, <1>8 DEF S

\* What an allocation returns is counted from the legs in use.
LEMMA UnusedLegs ==
    ASSUME NEW curves, Venues(curves), NEW at \in [DOMAIN curves -> Nat],
           \A i \in DOMAIN curves : Out(curves[i], at[i]) # NoFill
    PROVE  /\ Opened(at) \in SUBSET DOMAIN curves /\ IsFiniteSet(Opened(at))
           /\ Returned(curves, at) \in Int
           /\ SumFunctionOnSet(at, Opened(at)) = Given(curves, at)
           /\ SumFunctionOnSet(Returns(curves, at), Opened(at)) = Returned(curves, at)
<1>1. PICK f : f = Returns(curves, at) OBVIOUS
<1>2. \A i \in DOMAIN curves : f[i] = Out(curves[i], at[i]) BY <1>1 DEF Returns
<1>3. \A i \in DOMAIN curves : at[i] \in Int /\ f[i] \in Int BY <1>2 DEF Venues, NoFill
<1>4. PICK legs : legs = Opened(at) OBVIOUS
<1>5. legs \in SUBSET DOMAIN curves /\ \A i \in DOMAIN curves \ legs : at[i] = 0
  BY <1>4 DEF Opened
<1>6. \A i \in DOMAIN curves \ legs : f[i] = 0 BY <1>2, <1>5 DEF Out
<1>7. IsFiniteSet(legs) BY <1>5, FS_Subset DEF Venues
<1>8. SumFunctionOnSet(at, legs) = SumFunctionOnSet(at, DOMAIN curves)
  BY <1>3, <1>5, SumOfPart DEF Venues
<1>9. SumFunctionOnSet(f, legs) = SumFunctionOnSet(f, DOMAIN curves)
  BY <1>3, <1>5, <1>6, SumOfPart DEF Venues
<1>10. SumFunctionOnSet(f, DOMAIN curves) \in Int BY <1>3, SumType DEF Venues
<1> QED BY <1>1, <1>4, <1>5, <1>7, <1>8, <1>9, <1>10 DEF Given, Returned

\* Refinement keeps the order, over the legs in use, and ends with a sweep.
LEMMA RefineKeeps ==
    ASSUME NEW curves, Venues(curves), NEW at \in [DOMAIN curves -> Nat],
           \A i \in DOMAIN curves : Out(curves[i], at[i]) # NoFill, NEW steps \in Nat
    PROVE  /\ Refine(curves, at, steps) \in Divisions(curves, Opened(at), Given(curves, at))
           /\ \E s \in Divisions(curves, Opened(at), Given(curves, at)) :
                Refine(curves, at, steps) = RefineAll(curves, steps, s, PairOrder(Opened(at)))
<1> DEFINE legs == Opened(at)
           returns == [i \in legs |-> Out(curves[i], at[i])]
           base == [at |-> at, out |-> SumFunction(returns)]
           Step(g, k) == IF k = 0 THEN base ELSE RefineAll(curves, steps, g[k - 1], PairOrder(legs))
           Iter(g) == g = [k \in 0..MaxSweeps |-> Step(g, k)]
           sweep == CHOOSE g : Iter(g)
           D == Divisions(curves, legs, Given(curves, at))
<1>1. Refine(curves, at, steps) = sweep[MaxSweeps] BY DEF Refine
<1>2. /\ legs \in SUBSET DOMAIN curves /\ IsFiniteSet(legs) /\ Returned(curves, at) \in Int
      /\ SumFunctionOnSet(Returns(curves, at), legs) = Returned(curves, at)
  BY UnusedLegs
<1>3. legs \subseteq Nat BY <1>2 DEF Venues
<1>4. base \in D
  <2>1. PICK f, g : f = returns /\ g = Returns(curves, at) OBVIOUS
  <2>2. DOMAIN f = legs /\ \A i \in legs : f[i] = Out(curves[i], at[i]) BY <2>1
  <2>3. \A i \in legs : g[i] = f[i] /\ f[i] \in Int
    BY <1>2, <2>1, <2>2 DEF Returns, Venues, NoFill
  <2>4. SumFunctionOnSet(f, legs) = SumFunctionOnSet(g, legs)
    <3>1. PICK S : S = legs OBVIOUS
    <3>2. IsFiniteSet(S) /\ \A i \in S : f[i] \in Int /\ f[i] = g[i] BY <1>2, <2>3, <3>1
    <3>3. SumFunctionOnSet(f, S) = SumFunctionOnSet(g, S) BY <3>2, SumAgrees
    <3> QED BY <3>1, <3>3
  <2>5. SumFunction(returns) = Returned(curves, at) BY <1>2, <2>1, <2>2, <2>4 DEF SumFunction
  <2> HIDE DEF returns
  <2> QED BY <1>2, <2>5 DEF Divisions
<1>5. PICK n \in Nat : n = Cardinality(Pairs(legs)) BY <1>2, <1>3, PairsAreListed
<1>6. PICK pairs \in [1..n -> Pairs(legs)] : pairs = PairOrder(legs)
  BY <1>2, <1>3, <1>5, PairsAreListed
<1>7. \A s \in D : RefineAll(curves, steps, s, pairs) \in D
  BY <1>2, <1>6, RefineAllKeeps
<1> HIDE DEF base, D, legs
<1>8. MaxSweeps \in Nat BY SplitAssumption
<1>9. Iter(sweep)
  <2> DEFINE F == [s \in D |-> RefineAll(curves, steps, s, pairs)]
  <2>1. F \in [D -> D] BY <1>7
  <2>2. \A s \in D : F[s] = RefineAll(curves, steps, s, pairs) OBVIOUS
  <2> HIDE DEF F
  <2>3. PICK g \in [0..MaxSweeps -> D] : Repeats(g, base, F, MaxSweeps)
    BY <1>4, <1>8, <2>1, RepeatsExist
  <2>4. \A k \in 0..MaxSweeps : g[k] = Step(g, k)
    <3> TAKE k \in 0..MaxSweeps
    <3>1. CASE k = 0 BY <2>3, <3>1 DEF Repeats
    <3>2. CASE k # 0
      <4>1. g[k - 1] \in D BY <1>8, <2>3, <3>2
      <4>2. g[k] = F[g[k - 1]] BY <2>3, <3>2 DEF Repeats
      <4> QED BY <1>6, <2>2, <3>2, <4>1, <4>2
    <3> QED BY <3>1, <3>2
  <2>5. g = [k \in 0..MaxSweeps |-> g[k]] OBVIOUS
  <2>6. Iter(g) BY <2>4, <2>5
  <2> QED BY <2>6
<1> HIDE DEF sweep
<1>10. \A k \in 0..MaxSweeps : sweep[k] = Step(sweep, k) BY <1>9
<1> DEFINE G == {k \in 0..MaxSweeps : sweep[k] \in D}
<1>11. 0 \in G BY <1>4, <1>8, <1>10
<1>12. \A k \in 1..MaxSweeps : k - 1 \in G => k \in G
  <2> TAKE k \in 1..MaxSweeps
  <2>1. sweep[k] = RefineAll(curves, steps, sweep[k - 1], pairs) BY <1>6, <1>8, <1>10
  <2> QED BY <1>7, <1>8, <2>1
<1> HIDE DEF G
<1>13. 0..MaxSweeps \subseteq G BY <1>8, <1>11, <1>12, CountUp
<1>14. sweep[MaxSweeps] \in D BY <1>8, <1>13 DEF G
<1>15. \E s \in D : sweep[MaxSweeps] = RefineAll(curves, steps, s, PairOrder(legs))
  <2>1. MaxSweeps \in 1..MaxSweeps /\ MaxSweeps - 1 \in 0..MaxSweeps BY SplitAssumption
  <2>2. sweep[MaxSweeps - 1] \in D BY <1>13, <2>1 DEF G
  <2>3. sweep[MaxSweeps] = RefineAll(curves, steps, sweep[MaxSweeps - 1], pairs)
    BY <1>6, <1>10, <2>1
  <2> QED BY <1>6, <2>2, <2>3
<1> QED BY <1>1, <1>14, <1>15 DEF D, legs

\* The legs in use can be listed by what they have.
LEMMA LegsAreListed ==
    ASSUME NEW at, IsFiniteSet(Opened(at)), Opened(at) \subseteq Nat,
           \A i \in Opened(at) : at[i] \in Nat
    PROVE  /\ Cardinality(Opened(at)) \in Nat
           /\ Enumerates(LegOrder(at), Cardinality(Opened(at)), Opened(at))
<1> DEFINE S == Opened(at)
           Before(p, q) == at[p] > at[q] \/ (at[p] = at[q] /\ p < q)
           R == {w \in S \X S : Before(w[1], w[2])}
           n == Cardinality(S)
           order == LegOrder(at)
<1>1. n \in Nat BY FS_CardinalityType
<1>2. \A p \in S : p \in Nat /\ at[p] \in Nat OBVIOUS
<1>3. \A p, q \in S : <<p, q>> \in R <=> Before(p, q) OBVIOUS
<1>4. IsFiniteSet(S) OBVIOUS
<1> DEFINE Listed(s) == \A i, j \in DOMAIN s : i < j => Before(s[i], s[j])
<1>5. order = CHOOSE s \in [1..n -> S] : Listed(s) BY DEF LegOrder, InOrder
<1> HIDE DEF S, R, order
<1>6. IsOrder(R, S)
  <2>1. ASSUME NEW p \in S, NEW q \in S, p # q PROVE <<p, q>> \in R \/ <<q, p>> \in R
    <3>1. Before(p, q) \/ Before(q, p) BY <1>2, <2>1
    <3> QED BY <1>3, <3>1
  <2>2. ASSUME NEW p \in S, NEW q \in S, NEW r \in S, <<p, q>> \in R, <<q, r>> \in R
        PROVE  <<p, r>> \in R
    <3>1. Before(p, q) /\ Before(q, r) BY <1>3, <2>2
    <3>2. Before(p, r) BY <1>2, <3>1
    <3> QED BY <1>3, <3>2
  <2> QED BY <2>1, <2>2 DEF IsOrder
<1>7. PICK f : Lists(f, n, S, R) BY <1>4, <1>6, ListsExist
<1>8. f \in [1..n -> S] /\ Listed(f)
  <2>1. f \in [1..n -> S] /\ \A i, j \in 1..n : i < j => <<f[i], f[j]>> \in R
    BY <1>7 DEF Lists, Enumerates
  <2>2. \A i, j \in 1..n : i < j => Before(f[i], f[j]) BY <1>3, <2>1
  <2> QED BY <2>1, <2>2
<1>9. order \in [1..n -> S] /\ Listed(order)
  <2> HIDE DEF Listed
  <2> QED BY <1>5, <1>8
<1>10. \A i, j \in 1..n : order[i] = order[j] => i = j
  <2> SUFFICES ASSUME NEW i \in 1..n, NEW j \in 1..n, order[i] = order[j], i < j PROVE FALSE
    BY <1>1
  <2>1. Before(order[i], order[j]) BY <1>9
  <2> QED BY <1>2, <1>9, <2>1
<1>11. \A x \in S : \E i \in 1..n : order[i] = x
  <2> SUFFICES ASSUME NEW x \in S, \A i \in 1..n : order[i] # x PROVE FALSE OBVIOUS
  <2>1. PICK T : T = S \ {x} OBVIOUS
  <2>2. order \in [1..n -> T] BY <1>9, <2>1
  <2>3. PICK I : I = 1..n OBVIOUS
  <2>4. IsFiniteSet(I) /\ Cardinality(I) = n BY <1>1, <2>3, FS_Interval
  <2>5. IsFiniteSet(T) /\ Cardinality(T) < n
    <3>1. IsFiniteSet(T) /\ Cardinality(T) = Cardinality(S) - 1
      BY <1>4, <2>1, FS_RemoveElement
    <3> QED BY <1>1, <3>1
  <2>6. Cardinality(T) < Cardinality(I) /\ order \in [I -> T] BY <2>2, <2>3, <2>4, <2>5
  <2>7. PICK i \in I, j \in I : i # j /\ order[i] = order[j]
    BY <2>4, <2>5, <2>6, FS_PigeonHole
  <2> QED BY <1>10, <2>3, <2>7
<1> QED BY <1>1, <1>9, <1>10, <1>11 DEF S, order, Enumerates

Cut(f, w, amount, k) == (f[k] * w) \div amount
Shares(f, w, amount, n) ==
    [k \in 1..n |-> IF k = n THEN w - SumFunction([i \in 1..(n - 1) |-> Cut(f, w, amount, i)])
                    ELSE Cut(f, w, amount, k)]
MakesUp(shares, w, n) == shares \in [1..n -> Nat] /\ SumFunctionOnSet(shares, 1..n) = w

\* Truncated shares of something and what they leave make up the whole of it.
LEMMA SharesMakeTheWhole ==
    ASSUME NEW n \in Nat \ {0}, NEW f \in [1..n -> Nat], NEW w \in Nat,
           NEW amount \in Nat \ {0}, SumFunctionOnSet(f, 1..n) = amount
    PROVE  MakesUp(Shares(f, w, amount, n), w, n)
<1>1. PICK I, J : I = 1..n /\ J = 1..(n - 1) OBVIOUS
<1>2. /\ IsFiniteSet(I) /\ IsFiniteSet(J) /\ J \in SUBSET I /\ n \in I /\ J = I \ {n}
      /\ n \notin J
  <2>1. IsFiniteSet(1..n) /\ IsFiniteSet(1..(n - 1)) BY FS_Interval
  <2> QED BY <1>1, <2>1
<1>3. PICK c : c = [i \in 1..(n - 1) |-> Cut(f, w, amount, i)] OBVIOUS
<1>4. \A i \in J : c[i] = Cut(f, w, amount, i) /\ c[i] \in Nat /\ f[i] \in Nat
                   /\ c[i] * amount <= f[i] * w
  <2> TAKE i \in J
  <2>1. PICK y \in Nat : y = f[i] BY <1>1
  <2>2. y * w \in Nat OBVIOUS
  <2>3. (y * w) \div amount \in Nat /\ ((y * w) \div amount) * amount <= y * w
    BY <2>2, Quotients, RoundedUp
  <2>4. c[i] = Cut(f, w, amount, i) BY <1>1, <1>3
  <2>5. Cut(f, w, amount, i) = (y * w) \div amount BY <2>1 DEF Cut
  <2> QED BY <2>1, <2>3, <2>4, <2>5
<1>5. PICK cut \in Nat : cut = SumFunctionOnSet(c, J) BY <1>2, <1>4, SumType
<1>6. PICK part \in Nat, last \in Nat : /\ part = SumFunctionOnSet(f, J)
                                      /\ last = f[n] /\ last + part = amount
  <2>1. \A i \in I : f[i] \in Int BY <1>1
  <2>2. \A k \in I : SumFunctionOnSet(f, I) = f[k] + SumFunctionOnSet(f, I \ {k})
    BY <1>2, <2>1, SumElement
  <2>3. SumFunctionOnSet(f, I) = f[n] + SumFunctionOnSet(f, J) BY <1>2, <2>2
  <2>4. SumFunctionOnSet(f, J) \in Nat BY <1>2, <1>4, SumType
  <2>5. f[n] \in Nat BY <1>1, <1>2
  <2> QED BY <1>1, <1>2, <2>3, <2>4, <2>5
<1>7. cut * amount <= part * w BY <1>2, <1>4, <1>5, <1>6, SumOfShares
<1>8. cut <= w
  <2>1. part <= amount BY <1>6
  <2>2. part * w <= amount * w BY <2>1
  <2>3. cut * amount <= amount * w BY <1>7, <2>2
  <2> QED BY <2>3
<1>9. PICK sh : sh = Shares(f, w, amount, n) OBVIOUS
<1>10. SumFunction(c) = cut
  <2>1. DOMAIN c = J BY <1>1, <1>3
  <2> QED BY <1>5, <2>1 DEF SumFunction
<1>11. /\ sh \in [1..n -> Nat] /\ sh[n] = w - cut
       /\ \A i \in J : sh[i] = c[i]
  <2>1. sh = [k \in 1..n |-> IF k = n THEN w - cut ELSE Cut(f, w, amount, k)]
    BY <1>3, <1>9, <1>10 DEF Shares
  <2>2. w - cut \in Nat BY <1>8
  <2>3. \A k \in 1..n : k # n => Cut(f, w, amount, k) \in Nat BY <1>1, <1>2, <1>4
  <2>4. sh \in [1..n -> Nat] /\ sh[n] = w - cut BY <2>1, <2>2, <2>3
  <2>5. \A i \in J : sh[i] = Cut(f, w, amount, i) BY <1>1, <1>2, <2>1
  <2> QED BY <1>4, <2>4, <2>5
<1>12. SumFunctionOnSet(sh, I) = sh[n] + SumFunctionOnSet(sh, J)
  <2>1. \A i \in I : sh[i] \in Int BY <1>1, <1>11
  <2>2. \A k \in I : SumFunctionOnSet(sh, I) = sh[k] + SumFunctionOnSet(sh, I \ {k})
    BY <1>2, <2>1, SumElement
  <2> QED BY <1>2, <2>2
<1>13. SumFunctionOnSet(sh, J) = SumFunctionOnSet(c, J)
  <2>1. \A i \in J : c[i] \in Int /\ c[i] = sh[i] BY <1>4, <1>11
  <2>2. IsFiniteSet(J) BY <1>2
  <2> QED BY <2>1, <2>2, SumAgrees
<1>14. SumFunctionOnSet(sh, I) = w BY <1>5, <1>11, <1>12, <1>13
<1> QED BY <1>1, <1>9, <1>11, <1>14 DEF MakesUp

\* What the optimizer answers is worth something and its legs are venues with a
\* part of the order each.
Leg(curves) == [venue : DOMAIN curves, in : Nat \ {0}, share : Nat]
Answers(curves, amount, max_legs, got) ==
    /\ Sound(curves, amount, max_legs, got)
    /\ got.out \in Nat \ {0} /\ got.legs \in Seq(Leg(curves))

\* A single venue takes all of the order.
LEMMA SingleIsSound ==
    ASSUME NEW curves, Venues(curves), NEW amount \in Nat, NEW max_legs,
           BestSingle(curves, amount) # NoVenue
    PROVE  LET got == SingleResult(curves, BestSingle(curves, amount), amount)
           IN  /\ Answers(curves, amount, max_legs, got)
               /\ got.kind # "none" /\ got.out = Out(curves[BestSingle(curves, amount)], amount)
<1>1. PICK i : i = BestSingle(curves, amount) OBVIOUS
<1>2. PICK out \in Nat \ {0} : out = Out(curves[i], amount) BY <1>1, BestOfTheVenues
<1>3. amount > 0 BY BestOfTheVenues
<1>4. PICK leg : leg = [venue |-> i, in |-> amount, share |-> Whole] OBVIOUS
<1>5. PICK legs, got : legs = <<leg>> /\ got = SingleResult(curves, i, amount) OBVIOUS
<1>6. got.legs = legs /\ got.kind = "single" /\ got.out = out
  BY <1>2, <1>4, <1>5 DEF SingleResult
<1>7. DOMAIN legs = {1} /\ Len(legs) = 1 /\ legs[1] = leg BY <1>5
<1>8. leg.venue = i /\ leg.in = amount /\ leg.share = Whole BY <1>4
<1>9. PICK whole \in Nat : whole = Whole BY SplitAssumption
<1>10. SumFunction([k \in {1} |-> amount]) = amount BY SumOfOne
<1>11. SumFunction([k \in {1} |-> whole]) = whole BY SumOfOne
<1>12. SumFunction([k \in {1} |-> out]) = out BY SumOfOne
<1>13. SumOver(legs, LAMBDA l : l.in) = amount
  <2>1. [k \in DOMAIN legs |-> legs[k].in] = [k \in {1} |-> amount] BY <1>7, <1>8
  <2> QED BY <1>10, <2>1 DEF SumOver
<1>14. SumOver(legs, LAMBDA l : l.share) = Whole
  <2>1. [k \in DOMAIN legs |-> legs[k].share] = [k \in {1} |-> whole] BY <1>7, <1>8, <1>9
  <2> QED BY <1>9, <1>11, <2>1 DEF SumOver
<1>15. SumOver(legs, LAMBDA l : Out(curves[l.venue], l.in)) = out
  <2>1. [k \in DOMAIN legs |-> Out(curves[legs[k].venue], legs[k].in)] = [k \in {1} |-> out]
    BY <1>2, <1>7, <1>8
  <2> QED BY <1>12, <2>1 DEF SumOver
<1>16. Cardinality({legs[k].venue : k \in DOMAIN legs}) = Len(legs)
  <2>1. {legs[k].venue : k \in DOMAIN legs} = {i} BY <1>7, <1>8
  <2> QED BY <1>7, <2>1, FS_Singleton
<1>17. \A k \in DOMAIN legs :
          /\ legs[k].in > 0 /\ legs[k].share >= 0
          /\ Out(curves[legs[k].venue], legs[k].in) # NoFill
  BY <1>2, <1>3, <1>7, <1>8, <1>9 DEF NoFill
<1>18. Sound(curves, amount, max_legs, got)
  BY <1>6, <1>13, <1>14, <1>15, <1>16, <1>17 DEF Sound
<1>19. got.legs \in Seq(Leg(curves))
  <2>1. i \in DOMAIN curves BY <1>1, BestOfTheVenues
  <2>2. leg = [venue |-> i, in |-> amount, share |-> whole] /\ amount \in Nat \ {0}
    BY <1>3, <1>4, <1>9
  <2>3. leg \in Leg(curves) BY <2>1, <2>2 DEF Leg
  <2> QED BY <1>5, <1>6, <2>3
<1> QED BY <1>1, <1>2, <1>5, <1>6, <1>18, <1>19 DEF Answers

\* The legs of a split are the division it was made from.
LEMMA SplitResultIsSound ==
    ASSUME NEW curves, Venues(curves), NEW amount \in Nat \ {0}, NEW max_legs \in Nat,
           NEW legs, NEW s \in Divisions(curves, legs, amount),
           Cardinality(Opened(s.at)) <= max_legs, s.out > 0, NEW gain
    PROVE  LET got == SplitResult(s.at, amount, s.out, gain)
           IN  Answers(curves, amount, max_legs, got) /\ got.kind = "split" /\ got.out = s.out
<1>1. PICK at \in [DOMAIN curves -> Nat], out \in Int :
        /\ s.at = at /\ s.out = out
        /\ \A i \in DOMAIN curves : Out(curves[i], at[i]) # NoFill
        /\ Given(curves, at) = amount /\ out = Returned(curves, at)
  BY DEF Divisions
<1>2. PICK S, r : S = Opened(at) /\ r = Returns(curves, at) OBVIOUS
<1>3. /\ S \in SUBSET DOMAIN curves /\ IsFiniteSet(S)
      /\ SumFunctionOnSet(at, S) = amount /\ SumFunctionOnSet(r, S) = out
  BY <1>1, <1>2, UnusedLegs
<1>4. \A i \in S : /\ at[i] \in Nat /\ at[i] > 0 /\ Out(curves[i], at[i]) # NoFill
                   /\ r[i] = Out(curves[i], at[i]) /\ r[i] \in Int
  BY <1>1, <1>2, <1>3 DEF Opened, Returns, Venues, NoFill
<1>5. S \subseteq Nat BY <1>3 DEF Venues
<1>6. PICK n \in Nat : n = Cardinality(S) /\ Enumerates(LegOrder(at), n, S)
  <2>1. /\ Cardinality(Opened(at)) \in Nat
        /\ Enumerates(LegOrder(at), Cardinality(Opened(at)), Opened(at))
    BY <1>2, <1>3, <1>4, <1>5, LegsAreListed
  <2> QED BY <1>2, <2>1
<1>7. PICK order \in [1..n -> S] : order = LegOrder(at) /\ Enumerates(order, n, S)
  BY <1>6 DEF Enumerates
<1>8. DOMAIN order = 1..n /\ Len(order) = n
  <2>1. order \in Seq(S) OBVIOUS
  <2>2. DOMAIN order = 1..n OBVIOUS
  <2> QED BY <2>1, <2>2, LenProperties
<1>9. PICK f : f = Along(at, order, n) OBVIOUS
<1>10. f \in [1..n -> Nat] /\ \A k \in 1..n : f[k] = at[order[k]] BY <1>4, <1>9 DEF Along
<1>11. SumFunction(f) = amount
  <2>1. Summable(at, order, n, S) BY <1>4, <1>7 DEF Summable
  <2>2. SumFunction(Along(at, order, n)) = SumFunctionOnSet(at, S) BY <2>1, ListedSum
  <2> QED BY <1>3, <1>9, <2>2
<1>12. SumFunction(Along(r, order, n)) = out
  <2>1. Summable(r, order, n, S) BY <1>4, <1>7 DEF Summable
  <2>2. SumFunction(Along(r, order, n)) = SumFunctionOnSet(r, S) BY <2>1, ListedSum
  <2> QED BY <1>3, <2>2
<1>13. SumFunctionOnSet(f, 1..n) = amount
  <2>1. DOMAIN f = 1..n BY <1>10
  <2> QED BY <1>11, <2>1 DEF SumFunction
<1>14. n # 0
  <2> SUFFICES ASSUME n = 0 PROVE FALSE OBVIOUS
  <2>1. 1..n = {} OBVIOUS
  <2> QED BY <1>13, <2>1, SumEmpty
<1>15. PICK shares : shares = Shares(f, Whole, amount, n) OBVIOUS
<1>16. shares \in [1..n -> Nat] /\ SumFunctionOnSet(shares, 1..n) = Whole
  <2>1. PICK w \in Nat : w = Whole BY SplitAssumption
  <2>2. MakesUp(Shares(f, w, amount, n), w, n)
    BY <1>10, <1>13, <1>14, SharesMakeTheWhole
  <2> QED BY <1>15, <2>1, <2>2 DEF MakesUp
<1>17. SumFunction(shares) = Whole
  <2>1. DOMAIN shares = 1..n BY <1>16
  <2> QED BY <1>16, <2>1 DEF SumFunction
<1>18. \A k \in 1..n : Share(at, amount, order, k) = shares[k]
  <2> TAKE k \in 1..n
  <2>1. \A i \in 1..n : (at[order[i]] * Whole) \div amount = Cut(f, Whole, amount, i)
    BY <1>10 DEF Cut
  <2>2. [i \in 1..(k - 1) |-> (at[order[i]] * Whole) \div amount]
          = [i \in 1..(k - 1) |-> Cut(f, Whole, amount, i)]
    <3>1. \A i \in 1..(k - 1) : i \in 1..n OBVIOUS
    <3> QED BY <2>1, <3>1
  <2>3. CASE k = n
    BY <1>8, <1>15, <2>2, <2>3 DEF Share, Shares
  <2>4. CASE k # n
    BY <1>8, <1>15, <2>1, <2>4 DEF Share, Shares
  <2> QED BY <2>3, <2>4
<1>19. PICK list : list = [k \in 1..n |-> [venue |-> order[k], in |-> at[order[k]],
                                           share |-> Share(at, amount, order, k)]]
  OBVIOUS
<1>20. /\ DOMAIN list = 1..n /\ Len(list) = n
       /\ \A k \in 1..n : /\ list[k].venue = order[k] /\ list[k].in = f[k]
                          /\ list[k].share = shares[k]
  <2>1. DOMAIN list = 1..n BY <1>19
  <2>2. \A k \in 1..n : /\ list[k].venue = order[k] /\ list[k].in = f[k]
                        /\ list[k].share = shares[k]
    BY <1>10, <1>18, <1>19
  <2>3. list \in Seq({list[k] : k \in 1..n}) BY <1>19
  <2> QED BY <2>1, <2>2, <2>3, LenProperties
<1>21. PICK got : got = SplitResult(at, amount, out, gain) OBVIOUS
<1>22. got.legs = list /\ got.kind = "split" /\ got.out = out
  BY <1>7, <1>8, <1>19, <1>21 DEF SplitResult
<1>23. SumOver(list, LAMBDA l : l.in) = amount
  <2>1. [k \in DOMAIN list |-> list[k].in] = f BY <1>10, <1>20
  <2> QED BY <1>11, <2>1 DEF SumOver
<1>24. SumOver(list, LAMBDA l : l.share) = Whole
  <2>1. [k \in DOMAIN list |-> list[k].share] = shares BY <1>16, <1>20
  <2> QED BY <1>17, <2>1 DEF SumOver
<1>25. SumOver(list, LAMBDA l : Out(curves[l.venue], l.in)) = out
  <2>1. \A k \in 1..n : Out(curves[list[k].venue], list[k].in) = r[order[k]]
    BY <1>4, <1>10, <1>20
  <2>2. [k \in DOMAIN list |-> Out(curves[list[k].venue], list[k].in)]
          = Along(r, order, n)
    BY <1>20, <2>1 DEF Along
  <2> QED BY <1>12, <2>2 DEF SumOver
<1>26. {list[k].venue : k \in DOMAIN list} = S
  <2>1. \A k \in DOMAIN list : list[k].venue \in S BY <1>20
  <2>2. \A x \in S : \E k \in DOMAIN list : list[k].venue = x
    BY <1>7, <1>20 DEF Enumerates
  <2> QED BY <2>1, <2>2
<1>27. \A k \in DOMAIN list :
          /\ list[k].in > 0 /\ list[k].share >= 0
          /\ Out(curves[list[k].venue], list[k].in) # NoFill
  BY <1>4, <1>10, <1>16, <1>20
<1>28. Sound(curves, amount, max_legs, got)
  <2>1. Cardinality({list[k].venue : k \in DOMAIN list}) = Len(list)
    BY <1>6, <1>20, <1>26
  <2>2. Len(list) <= max_legs BY <1>1, <1>2, <1>6, <1>20
  <2> QED BY <1>22, <1>23, <1>24, <1>25, <1>27, <2>1, <2>2 DEF Sound
<1>29. list \in Seq(Leg(curves))
  <2>1. \A k \in 1..n : /\ list[k] \in [venue : {order[k]}, in : {at[order[k]]},
                                         share : {Share(at, amount, order, k)}]
    BY <1>19
  <2>2. \A k \in 1..n : /\ order[k] \in DOMAIN curves /\ at[order[k]] \in Nat \ {0}
                        /\ Share(at, amount, order, k) \in Nat
    BY <1>3, <1>4, <1>7, <1>16, <1>18
  <2>3. \A k \in 1..n : list[k] \in Leg(curves) BY <2>1, <2>2 DEF Leg
  <2> QED BY <1>19, <2>3
<1> QED BY <1>1, <1>21, <1>22, <1>28, <1>29 DEF Answers

\* What the optimizer answers is sound and never worse than one venue.
LEMMA OptimizedIsSound ==
    ASSUME NEW curves, Venues(curves), NEW amount \in Nat, NEW opts, opts.max_legs \in Nat,
           opts.steps \in Nat, opts.granularity \in Nat \ {0}
    PROVE  LET got == OptimizeSplit(curves, amount, opts)  best == BestSingle(curves, amount)
           IN  /\ best # NoVenue =>
                     got.kind # "none" /\ got.out >= Out(curves[best], amount)
               /\ got.kind # "none" => Answers(curves, amount, opts.max_legs, got)
<1>1. PICK got, best : /\ got = OptimizeSplit(curves, amount, opts)
                       /\ best = BestSingle(curves, amount)
  OBVIOUS
<1>2. PICK at : at = Allocate(curves, amount, opts) OBVIOUS
<1>3. PICK max_legs \in Nat, steps \in Nat : max_legs = opts.max_legs /\ steps = opts.steps
  OBVIOUS
<1>4. /\ got = OptimizeSplit(curves, amount, opts) /\ best = BestSingle(curves, amount)
      /\ at = Allocate(curves, amount, opts)
      /\ max_legs = opts.max_legs /\ steps = opts.steps
  BY <1>1, <1>2, <1>3
<1>5. PICK single : single = SingleResult(curves, best, amount) OBVIOUS
<1>6. ASSUME best # NoVenue
      PROVE  /\ Answers(curves, amount, max_legs, single) /\ single.kind # "none"
             /\ single.out = Out(curves[best], amount) /\ single.out \in Nat \ {0}
  <2>1. BestSingle(curves, amount) # NoVenue BY <1>4, <1>6
  <2>2. /\ Answers(curves, amount, max_legs, single) /\ single.kind # "none"
        /\ single.out = Out(curves[best], amount)
    BY <1>4, <1>5, <2>1, SingleIsSound
  <2>3. Out(curves[best], amount) \in Nat \ {0} BY <1>4, <2>1, BestOfTheVenues
  <2> QED BY <2>2, <2>3
<1>7. CASE at = <<>> \/ amount <= 0 \/ Usable(curves) = {}
  <2>1. got = IF best = NoVenue THEN NoSplit ELSE single
    BY <1>4, <1>5, <1>7 DEF OptimizeSplit, Unplaced
  <2>2. CASE best = NoVenue
    <3>1. got.kind = "none" BY <2>1, <2>2 DEF NoSplit
    <3> QED BY <1>4, <2>2, <3>1
  <2>3. CASE best # NoVenue
    <3>1. got = single BY <2>1, <2>3
    <3> QED BY <1>4, <1>6, <2>3, <3>1
  <2> QED BY <2>2, <2>3
<1>8. CASE ~ (at = <<>> \/ amount <= 0 \/ Usable(curves) = {})
  <2>1. PICK refined : refined = Refine(curves, at, steps) OBVIOUS
  <2>2. amount \in Nat \ {0} BY <1>8
  <2>3. Allocation(curves, max_legs, at) /\ Given(curves, at) = amount
    BY <1>4, <1>8, AllocatesTheOrder
  <2>4. refined \in Divisions(curves, Opened(at), amount)
    <3>1. at \in [DOMAIN curves -> Nat] /\ \A i \in DOMAIN curves : Out(curves[i], at[i]) # NoFill
      BY <2>3 DEF Allocation
    <3> QED BY <2>1, <2>3, <3>1, RefineKeeps
  <2>5. Cardinality(Opened(refined.at)) <= max_legs /\ refined.out \in Int
    <3>1. Opened(at) \in SUBSET DOMAIN curves BY <2>3 DEF Allocation, Opened
    <3>2. IsFiniteSet(Opened(at)) BY <3>1, FS_Subset DEF Venues
    <3>3. Opened(refined.at) \in SUBSET Opened(at) /\ refined.out \in Int
      BY <2>4 DEF Divisions
    <3>4. /\ Cardinality(Opened(refined.at)) \in Nat /\ Cardinality(Opened(at)) \in Nat
          /\ Cardinality(Opened(refined.at)) <= Cardinality(Opened(at))
      BY <3>2, <3>3, FS_Subset, FS_CardinalityType
    <3>5. Cardinality(Opened(at)) <= max_legs BY <2>3 DEF Allocation
    <3> QED BY <3>3, <3>4, <3>5
  <2>6. got = Placed(curves, amount, best, refined)
    BY <1>4, <1>8, <2>1 DEF OptimizeSplit
  <2>7. ASSUME NEW gain, NEW split, split = SplitResult(refined.at, amount, refined.out, gain),
               refined.out > 0
        PROVE  /\ Answers(curves, amount, max_legs, split) /\ split.kind = "split"
               /\ split.out = refined.out
    BY <2>2, <2>4, <2>5, <2>7, SplitResultIsSound
  <2>8. CASE best = NoVenue
    <3>1. CASE refined.out <= 0
      <4>1. got = NoSplit BY <2>6, <2>8, <3>1 DEF Placed
      <4>2. got.kind = "none" BY <4>1 DEF NoSplit
      <4> QED BY <1>4, <2>8, <4>2
    <3>2. CASE ~ (refined.out <= 0)
      <4>1. got = SplitResult(refined.at, amount, refined.out, 0)
        BY <2>6, <2>8, <3>2 DEF Placed
      <4>2. Answers(curves, amount, max_legs, got) BY <2>5, <2>7, <3>2, <4>1
      <4> QED BY <1>4, <2>8, <4>2
    <3> QED BY <3>1, <3>2
  <2>9. CASE best # NoVenue
    <3>1. PICK whole \in Nat \ {0} : whole = Out(curves[best], amount) BY <1>6, <2>9
    <3>2. CASE Cardinality(Opened(refined.at)) <= 1 \/ refined.out <= whole
      <4>1. got = single BY <1>5, <2>6, <2>9, <3>1, <3>2 DEF Placed
      <4> QED BY <1>4, <1>6, <2>9, <4>1
    <3>3. CASE ~ (Cardinality(Opened(refined.at)) <= 1 \/ refined.out <= whole)
      <4>1. PICK gain : gain = ((refined.out - whole) * Whole * 10) \div whole OBVIOUS
      <4>2. got = SplitResult(refined.at, amount, refined.out, gain)
        BY <2>6, <2>9, <3>1, <3>3, <4>1 DEF Placed
      <4>3. /\ Answers(curves, amount, max_legs, got) /\ got.kind = "split"
            /\ got.out = refined.out
        BY <2>5, <2>7, <3>1, <3>3, <4>2
      <4>4. got.out >= whole BY <2>5, <3>3, <4>3
      <4> QED BY <1>4, <3>1, <4>3, <4>4
    <3> QED BY <3>2, <3>3
  <2> QED BY <2>8, <2>9
<1> QED BY <1>7, <1>8

\* Venues by their names.
LEMMA NamedCurves ==
    ASSUME NEW names \in Seq(DOMAIN Pools)
    PROVE  /\ Venues([k \in DOMAIN names |-> Pools[names[k]]])
           /\ \A k \in DOMAIN names : names[k] \in DOMAIN Pools
<1>1. PICK venues : venues = [k \in DOMAIN names |-> Pools[names[k]]] OBVIOUS
<1>2. PICK n \in Nat : DOMAIN names = 1..n /\ \A k \in 1..n : names[k] \in DOMAIN Pools
  <2>1. /\ Len(names) \in Nat /\ DOMAIN names = 1..Len(names)
        /\ names \in [1..Len(names) -> DOMAIN Pools]
    BY LenProperties
  <2> QED BY <2>1
<1>3. DOMAIN venues = 1..n BY <1>1, <1>2
<1>4. IsFiniteSet(1..n) BY FS_Interval
<1>5. ASSUME NEW i \in 1..n, NEW x \in Nat PROVE Out(venues[i], x) \in Nat \cup {NoFill}
  <2>1. PICK p \in DOMAIN Pools : venues[i] = Pools[p] BY <1>1, <1>2
  <2>2. \A y \in DOMAIN Pools[p].out : Pools[p].out[y] \in Nat \cup {NoFill} BY SplitQuestions
  <2> QED BY <2>1, <2>2 DEF Out
<1> QED BY <1>1, <1>2, <1>3, <1>4, <1>5 DEF Venues

\* A split spends the order over distinct venues that fill their part, is
\* worth what its legs return and never less than one venue, for any curves.
THEOREM SplitsAreSound == Spec => []SplitIsSound
<1>1. Posed => SplitIsSound
  <2> SUFFICES ASSUME Posed, question.op = "split" PROVE SplitIsSound BY DEF SplitIsSound
  <2>1. PICK t \in Splits : /\ question.amount = t.amount /\ question.pools = t.pools
                            /\ question.opts = t.opts
    BY DEF Posed, Asked
  <2>2. PICK amount \in Nat : amount = question.amount BY <2>1, SplitQuestions
  <2>3. PICK opts, pools :
          /\ opts = question.opts /\ pools = question.pools
          /\ opts.max_legs \in Nat /\ opts.steps \in Nat /\ opts.granularity \in Nat \ {0}
          /\ pools \in Seq(DOMAIN Pools)
    BY <2>1, SplitQuestions
  <2>4. PICK curves : curves = [k \in DOMAIN pools |-> Pools[pools[k]]] OBVIOUS
  <2>5. Venues(curves) BY <2>3, <2>4, NamedCurves
  <2>6. PICK got, best : /\ got = OptimizeSplit(curves, amount, opts)
                         /\ best = BestSingle(curves, amount)
    OBVIOUS
  <2>7. /\ best # NoVenue => got.kind # "none" /\ got.out >= Out(curves[best], amount)
        /\ got.kind # "none" => Sound(curves, amount, opts.max_legs, got)
    BY <2>3, <2>5, <2>6, OptimizedIsSound DEF Answers
  <2> QED BY <2>2, <2>3, <2>4, <2>6, <2>7 DEF SplitIsSound
<1> QED BY <1>1, PosedInvariant, PTL

-----------------------------------------------------------------------------
(* What is asked and what is quoted                                         *)

\* An ask, and the quotes of venues.
Traded(ask) == ask.side \in {"buy", "sell"} /\ ask.amount \in Nat /\ ask.max \in Nat
Hops == {"direct", "intermediate", "representation"}
Quoted == [venue : Nat \ {0}, in : Nat \ {0}, out : Nat, impact : Nat,
           ok : BOOLEAN, via : {"native", "external", "none"}, hop : Hops]

\* Venues that say what a quote of theirs is.
Priced(venues) ==
    /\ Venues(venues)
    /\ \A i \in DOMAIN venues :
          /\ venues[i].ok \in BOOLEAN /\ venues[i].via \in {"native", "external", "none"}
          /\ \A x \in Nat \ {0} : Out(venues[i], x) # NoFill => venues[i].impact[x] \in Nat

\* The least of two numbers.
LEMMA LeastOfTwo ==
    ASSUME NEW a \in Nat, NEW b \in Nat
    PROVE  Min({a, b}) \in Nat /\ Min({a, b}) <= a /\ Min({a, b}) <= b
<1>1. \E x \in {a, b} : \A y \in {a, b} : x <= y OBVIOUS
<1>2. Min({a, b}) \in {a, b} /\ \A y \in {a, b} : Min({a, b}) <= y BY <1>1 DEF Min
<1> QED BY <1>2

\* Basis points of an amount.
LEMMA BpsBounded ==
    ASSUME NEW x \in Nat, NEW b \in Nat
    PROVE  /\ BpsOf(x, b) \in Nat /\ BpsOf(x, b) * Whole <= x * b
           /\ b <= Whole => BpsOf(x, b) <= x
<1>1. PICK w \in Nat \ {0} : w = Whole BY SplitAssumption
<1>2. PICK n \in Nat : n = x * b OBVIOUS
<1>3. n \div w \in Nat /\ (n \div w) * w <= n BY Quotients, RoundedUp
<1>4. BpsOf(x, b) = n \div w BY <1>1, <1>2 DEF BpsOf
<1>5. ASSUME b <= w PROVE BpsOf(x, b) <= x
  <2>1. (x * b) \div w <= x BY <1>5, SharesBounded
  <2> QED BY <1>1, <2>1 DEF BpsOf
<1> QED BY <1>1, <1>2, <1>3, <1>4, <1>5

\* The fee leaves something of something.
LEMMA FeeLeaves ==
    ASSUME NEW x \in Nat
    PROVE  BpsOf(x, FeeBps) \in 0..x /\ (x > 0 => BpsOf(x, FeeBps) < x)
<1>1. PICK w \in Nat \ {0}, f \in Nat : w = Whole /\ f = FeeBps /\ f < w
  BY SplitAssumption, TermsAssumption
<1>2. PICK y \in Nat : y = BpsOf(x, FeeBps) /\ y * w <= x * f /\ y <= x
  <2>1. BpsOf(x, f) \in Nat /\ BpsOf(x, f) * Whole <= x * f
        /\ (f <= Whole => BpsOf(x, f) <= x)
    BY BpsBounded
  <2> QED BY <1>1, <2>1
<1>3. ASSUME x > 0 PROVE y < x
  <2>1. x * f < x * w BY <1>1, <1>3
  <2>2. y * w < x * w BY <1>2, <2>1
  <2> QED BY <2>2
<1> QED BY <1>2, <1>3

\* What a trade swaps and what it leaves the user.
LEMMA NetTerms ==
    ASSUME NEW ask, Traded(ask), NEW x \in Nat
    PROVE  /\ VenueAmount(ask) \in Nat /\ NetOf(ask, x) \in Nat
           /\ x > 0 => NetOf(ask, x) > 0
<1>1. BpsOf(x, FeeBps) \in 0..x /\ (x > 0 => BpsOf(x, FeeBps) < x) BY FeeLeaves
<1>2. BpsOf(ask.amount, FeeBps) \in 0..ask.amount BY FeeLeaves DEF Traded
<1> QED BY <1>1, <1>2 DEF VenueAmount, NetOf, Traded

\* What a quote needs, and its floor.
LEMMA FloorTerms ==
    ASSUME NEW q \in Quoted
    PROVE  /\ Required(q) \in Nat
           /\ BpsOf(q.out, Required(q)) \in Nat
           /\ BpsOf(q.out, Required(q)) * Whole <= q.out * Required(q)
           /\ FloorOf(q) \in Int /\ FloorOf(q) = q.out - BpsOf(q.out, Required(q))
           /\ Required(q) <= Whole => FloorOf(q) \in Nat
<1>1. q.impact \in Nat /\ q.out \in Nat BY DEF Quoted
<1>2. PICK m \in Nat, h \in Nat, b \in Nat :
        m = HopMargin /\ h = HopMaxSlippage /\ b = BaseSlippage
  BY TermsAssumption
<1>3. (q.impact + 1) \div 2 \in Nat BY <1>1
<1>4. Required(q) \in Nat
  <2>1. q.impact + m \in Nat BY <1>1
  <2>2. Min({q.impact + m, h}) \in Nat BY <2>1, LeastOfTwo
  <2> QED BY <1>2, <1>3, <2>2 DEF Required
<1>5. PICK y \in Nat : y = BpsOf(q.out, Required(q)) /\ y * Whole <= q.out * Required(q)
                       /\ (Required(q) <= Whole => y <= q.out)
  BY <1>1, <1>4, BpsBounded
<1> QED BY <1>1, <1>4, <1>5 DEF FloorOf

\* A quote is what it says.
LEMMA QuoteIs ==
    ASSUME NEW venues, Priced(venues), NEW i \in DOMAIN venues, NEW x \in Nat \ {0},
           Out(venues[i], x) # NoFill, NEW hop \in Hops
    PROVE  /\ Quote(venues, i, x, hop) \in Quoted
           /\ Quote(venues, i, x, hop).venue = i /\ Quote(venues, i, x, hop).in = x
           /\ Quote(venues, i, x, hop).out = Out(venues[i], x)
           /\ Quote(venues, i, x, hop).hop = hop
<1>1. i \in Nat \ {0} /\ Out(venues[i], x) \in Nat BY DEF Priced, Venues
<1>2. venues[i].impact[x] \in Nat /\ venues[i].ok \in BOOLEAN
      /\ venues[i].via \in {"native", "external", "none"}
  BY DEF Priced
<1> QED BY <1>1, <1>2 DEF Quote, Quoted

Ins(legs) == [k \in DOMAIN legs |-> legs[k].in]
Outs(legs) == [k \in DOMAIN legs |-> legs[k].out]
Floors(legs) == [k \in DOMAIN legs |-> FloorOf(legs[k])]

\* Sums over legs.
LEMMA LegSums ==
    ASSUME NEW legs \in Seq(Quoted)
    PROVE  /\ IsFiniteSet(DOMAIN legs) /\ DOMAIN legs = 1..Len(legs) /\ Len(legs) \in Nat
           /\ SumIn(legs) = SumFunctionOnSet(Ins(legs), DOMAIN legs)
           /\ SumOut(legs) = SumFunctionOnSet(Outs(legs), DOMAIN legs)
           /\ SumOver(legs, FloorOf) = SumFunctionOnSet(Floors(legs), DOMAIN legs)
           /\ \A k \in DOMAIN legs :
                /\ legs[k] \in Quoted
                /\ Ins(legs)[k] = legs[k].in /\ legs[k].in \in Nat
                /\ Outs(legs)[k] = legs[k].out /\ legs[k].out \in Nat
                /\ Floors(legs)[k] = FloorOf(legs[k]) /\ FloorOf(legs[k]) \in Int
           /\ SumIn(legs) \in Nat /\ SumOut(legs) \in Nat
<1>1. Len(legs) \in Nat /\ DOMAIN legs = 1..Len(legs) /\ legs \in [1..Len(legs) -> Quoted]
  BY LenProperties
<1>2. IsFiniteSet(DOMAIN legs) BY <1>1, FS_Interval
<1>3. /\ SumIn(legs) = SumFunctionOnSet(Ins(legs), DOMAIN legs)
      /\ SumOut(legs) = SumFunctionOnSet(Outs(legs), DOMAIN legs)
      /\ SumOver(legs, FloorOf) = SumFunctionOnSet(Floors(legs), DOMAIN legs)
  BY DEF SumIn, SumOut, SumOver, SumFunction, Ins, Outs, Floors
<1>4. ASSUME NEW k \in DOMAIN legs
      PROVE  /\ legs[k] \in Quoted
             /\ Ins(legs)[k] = legs[k].in /\ legs[k].in \in Nat
             /\ Outs(legs)[k] = legs[k].out /\ legs[k].out \in Nat
             /\ Floors(legs)[k] = FloorOf(legs[k]) /\ FloorOf(legs[k]) \in Int
  <2>1. legs[k] \in Quoted BY <1>1
  <2>2. legs[k].in \in Nat /\ legs[k].out \in Nat BY <2>1 DEF Quoted
  <2>3. FloorOf(legs[k]) \in Int BY <2>1, FloorTerms
  <2> QED BY <2>1, <2>2, <2>3 DEF Ins, Outs, Floors
<1>5. PICK f, g, D : f = Ins(legs) /\ g = Outs(legs) /\ D = DOMAIN legs OBVIOUS
<1>6. \A k \in D : f[k] \in Nat /\ g[k] \in Nat BY <1>4, <1>5
<1>7. SumFunctionOnSet(f, D) \in Nat /\ SumFunctionOnSet(g, D) \in Nat
  BY <1>2, <1>5, <1>6, SumType
<1> QED BY <1>1, <1>2, <1>3, <1>4, <1>5, <1>7

\* A division's quotes spend what was divided and return what it is worth.
LEMMA QuotedLegs ==
    ASSUME NEW venues, Priced(venues), NEW x \in Nat, NEW max_legs, NEW got,
           Answers(venues, x, max_legs, got), NEW hop \in Hops
    PROVE  LET legs == QuotesOf(venues, got, hop)
           IN  /\ legs \in Seq(Quoted) /\ legs # <<>>
               /\ SumIn(legs) = x /\ SumOut(legs) = got.out
               /\ \A k \in DOMAIN legs : legs[k].hop = hop
<1>1. PICK n \in Nat, l \in Seq(Leg(venues)) :
        got.legs = l /\ l \in [1..n -> Leg(venues)] /\ DOMAIN got.legs = 1..n
  <2>1. got.legs \in Seq(Leg(venues)) BY DEF Answers
  <2> QED BY <2>1, LenProperties
<1>2. PICK legs : legs = QuotesOf(venues, got, hop) OBVIOUS
<1>3. /\ DOMAIN legs = 1..n
      /\ \A k \in 1..n : legs[k] = Quote(venues, l[k].venue, l[k].in, hop)
      /\ legs = [k \in 1..n |-> Quote(venues, l[k].venue, l[k].in, hop)]
  BY <1>1, <1>2 DEF QuotesOf
<1>4. ASSUME NEW k \in 1..n
      PROVE  /\ legs[k] \in Quoted /\ legs[k].in = l[k].in /\ legs[k].hop = hop
             /\ legs[k].out = Out(venues[l[k].venue], l[k].in)
  <2>1. l[k].venue \in DOMAIN venues /\ l[k].in \in Nat \ {0} BY <1>1 DEF Leg
  <2>2. Out(venues[l[k].venue], l[k].in) # NoFill
    <3>1. \A j \in DOMAIN got.legs : Out(venues[got.legs[j].venue], got.legs[j].in) # NoFill
      BY DEF Answers, Sound
    <3> QED BY <1>1, <3>1
  <2>3. PICK i \in DOMAIN venues, y \in Nat \ {0} : i = l[k].venue /\ y = l[k].in BY <2>1
  <2> QED BY <1>3, <2>2, <2>3, QuoteIs
<1>5. legs \in Seq(Quoted) BY <1>3, <1>4
<1>6. SumIn(legs) = x
  <2>1. [k \in DOMAIN legs |-> legs[k].in] = [k \in DOMAIN got.legs |-> got.legs[k].in]
    BY <1>1, <1>3, <1>4
  <2>2. SumOver(got.legs, LAMBDA y : y.in) = x BY DEF Answers, Sound
  <2> QED BY <2>1, <2>2 DEF SumIn, SumOver
<1>7. SumOut(legs) = got.out
  <2>1. [k \in DOMAIN legs |-> legs[k].out]
          = [k \in DOMAIN got.legs |-> Out(venues[got.legs[k].venue], got.legs[k].in)]
    BY <1>1, <1>3, <1>4
  <2>2. SumOver(got.legs, LAMBDA y : Out(venues[y.venue], y.in)) = got.out
    BY DEF Answers, Sound
  <2> QED BY <2>1, <2>2 DEF SumOut, SumOver
<1>8. legs # <<>>
  <2> SUFFICES ASSUME legs = <<>> PROVE FALSE OBVIOUS
  <2>1. SumOut(legs) = 0
    <3>1. DOMAIN legs = {} OBVIOUS
    <3>2. SumOut(legs) = SumFunctionOnSet(Outs(legs), DOMAIN legs) BY <1>5, LegSums
    <3> QED BY <3>1, <3>2, SumEmpty
  <2>2. got.out \in Nat \ {0} BY DEF Answers
  <2> QED BY <1>7, <2>1, <2>2
<1> QED BY <1>2, <1>3, <1>4, <1>5, <1>6, <1>7, <1>8

\* A list of one quote.
LEMMA OneLeg ==
    ASSUME NEW q \in Quoted
    PROVE  /\ <<q>> \in Seq(Quoted) /\ <<q>> # <<>> /\ DOMAIN <<q>> = {1} /\ <<q>>[1] = q
           /\ SumIn(<<q>>) = q.in /\ SumOut(<<q>>) = q.out
           /\ SumOver(<<q>>, FloorOf) = FloorOf(q)
<1>1. PICK s : s = <<q>> OBVIOUS
<1>2. s \in Seq(Quoted) /\ s # <<>> /\ DOMAIN s = {1} /\ s[1] = q BY <1>1
<1>3. q.in \in Int /\ q.out \in Int /\ FloorOf(q) \in Int BY FloorTerms DEF Quoted
<1>4. SumFunction([k \in DOMAIN s |-> s[k].in]) = q.in
  <2>1. PICK f : f = [k \in DOMAIN s |-> s[k].in] OBVIOUS
  <2>2. DOMAIN f = {1} /\ f[1] = q.in BY <1>2, <2>1
  <2> QED BY <1>3, <2>1, <2>2, SumOfOne
<1>5. SumFunction([k \in DOMAIN s |-> s[k].out]) = q.out
  <2>1. PICK f : f = [k \in DOMAIN s |-> s[k].out] OBVIOUS
  <2>2. DOMAIN f = {1} /\ f[1] = q.out BY <1>2, <2>1
  <2> QED BY <1>3, <2>1, <2>2, SumOfOne
<1>6. SumFunction([k \in DOMAIN s |-> FloorOf(s[k])]) = FloorOf(q)
  <2>1. PICK f : f = [k \in DOMAIN s |-> FloorOf(s[k])] OBVIOUS
  <2>2. DOMAIN f = {1} /\ f[1] = FloorOf(q) BY <1>2, <2>1
  <2> QED BY <1>3, <2>1, <2>2, SumOfOne
<1> QED BY <1>1, <1>2, <1>4, <1>5, <1>6 DEF SumIn, SumOut, SumOver

\* The options of the router are those of an optimizer.
LEMMA OptsFit ==
    ASSUME NEW curves, Venues(curves), NEW x \in Nat, NEW max_legs \in Nat
    PROVE  LET got == OptimizeSplit(curves, x, Opts(max_legs))
           IN  Worthwhile(got) => Answers(curves, x, max_legs, got)
<1>1. PICK opts : opts = Opts(max_legs) OBVIOUS
<1>2. /\ opts.max_legs = max_legs /\ opts.max_legs \in Nat /\ opts.steps \in Nat
      /\ opts.granularity \in Nat \ {0}
  BY <1>1, TermsAssumption DEF Opts
<1>3. PICK got : got = OptimizeSplit(curves, x, opts) OBVIOUS
<1>4. got.kind # "none" => Answers(curves, x, max_legs, got) BY <1>2, <1>3, OptimizedIsSound
<1> QED BY <1>1, <1>3, <1>4 DEF Worthwhile

\* The legs of a path over the representation's pools spend what they are given.
LEMMA LegQuotesFit ==
    ASSUME NEW m, Priced(m.legs), NEW x \in Nat \ {0}, NEW max_legs \in Nat,
           LegQuotes(m, x, max_legs) # <<>>
    PROVE  LegQuotes(m, x, max_legs) \in Seq(Quoted) /\ SumIn(LegQuotes(m, x, max_legs)) = x
<1>1. PICK venues, split, legs : /\ venues = m.legs
                                 /\ split = OptimizeSplit(m.legs, x, Opts(max_legs))
                                 /\ legs = LegQuotes(m, x, max_legs)
  OBVIOUS
<1>2. legs = LegsOver(m, x, split) BY <1>1 DEF LegQuotes
<1>3. Venues(venues) BY <1>1 DEF Priced
<1>4. CASE Worthwhile(split)
  <2>1. Answers(venues, x, max_legs, split) BY <1>1, <1>3, <1>4, OptsFit
  <2>2. legs = QuotesOf(venues, split, "representation") BY <1>1, <1>2, <1>4 DEF LegsOver
  <2>3. "representation" \in Hops BY DEF Hops
  <2> QED BY <1>1, <2>1, <2>2, <2>3, QuotedLegs
<1>5. CASE ~ Worthwhile(split)
  <2>1. PICK best : best = BestSingle(venues, x) OBVIOUS
  <2>2. best # NoVenue /\ legs = <<Quote(venues, best, x, "representation")>>
    BY <1>1, <1>2, <1>5, <2>1 DEF LegsOver
  <2>3. best \in DOMAIN venues /\ Out(venues[best], x) \in Nat \ {0}
    BY <1>3, <2>1, <2>2, BestOfTheVenues
  <2>4. PICK q \in Quoted : q = Quote(venues, best, x, "representation") /\ q.in = x
    <3>1. "representation" \in Hops BY DEF Hops
    <3>2. Out(venues[best], x) # NoFill BY <2>3 DEF NoFill
    <3> QED BY <1>1, <2>3, <3>1, <3>2, QuoteIs
  <2> QED BY <1>1, <2>2, <2>4, OneLeg
<1> QED BY <1>4, <1>5

-----------------------------------------------------------------------------
(* What a route is made of                                                  *)

\* Every leg of some is a leg of others.
Among(some, legs) ==
    \A k \in DOMAIN some : \E j \in DOMAIN legs : some[k] = legs[j]

\* A route spends the order and its legs carry it from one hop to the next.
Fits(ask, route) ==
    /\ {route.legs, InputLegs(ask, route), OutputLegs(ask, route)} \subseteq Seq(Quoted)
    /\ Among(OutputLegs(ask, route), route.legs) /\ route.legs # <<>>
    /\ SumIn(InputLegs(ask, route)) = VenueAmount(ask)
    /\ route.gross \in Nat \ {0} /\ route.net = NetOf(ask, route.gross)
    /\ SumOut(OutputLegs(ask, route)) = route.gross
    /\ route.kind = "path" => FloorsAgree(ask, route)

\* A route over venues that trade the pair itself.
LEMMA DirectFits ==
    ASSUME NEW ask, Traded(ask), NEW kind \in {"single", "split"}, NEW legs \in Seq(Quoted),
           legs # <<>>, SumIn(legs) = VenueAmount(ask), SumOut(legs) \in Nat \ {0}
    PROVE  LET route == Route(ask, kind, legs, SumOut(legs))
           IN  Fits(ask, route) /\ route.kind = kind /\ route.legs = legs
<1>1. PICK route : route = Route(ask, kind, legs, SumOut(legs)) OBVIOUS
<1>2. /\ route.kind = kind /\ route.legs = legs /\ route.gross = SumOut(legs)
      /\ route.net = NetOf(ask, SumOut(legs)) /\ route.kind # "path"
  BY <1>1 DEF Route
<1>3. InputLegs(ask, route) = legs /\ OutputLegs(ask, route) = legs
  BY <1>2 DEF InputLegs, OutputLegs
<1>4. Fits(ask, route) BY <1>2, <1>3 DEF Fits, Among
<1> QED BY <1>1, <1>2, <1>4

\* The quotes that are ranked.
LEMMA QuotesAre ==
    ASSUME NEW ask, Traded(ask), NEW m, Priced(m.pools), NEW q \in Quotes(ask, m)
    PROVE  /\ q \in Quoted /\ q.in = VenueAmount(ask) /\ q.out > 0
           /\ \A r \in Quotes(ask, m) : q.venue = r.venue => q = r
<1>1. PICK x \in Nat : x = VenueAmount(ask) BY NetTerms DEF Traded
<1>2. ASSUME NEW r \in Quotes(ask, m)
      PROVE  \E i \in DOMAIN m.pools :
                /\ r = Quote(m.pools, i, x, "direct") /\ r.venue = i
                /\ r \in Quoted /\ r.in = x /\ r.out > 0
  <2>1. PICK i \in Usable(m.pools) :
          r = Quote(m.pools, i, x, "direct") /\ Out(m.pools[i], x) > 0
    BY <1>1 DEF Quotes
  <2>2. i \in DOMAIN m.pools BY DEF Usable
  <2>3. x # 0 BY <2>1 DEF Out
  <2>4. Out(m.pools[i], x) # NoFill BY <2>1 DEF NoFill
  <2>5. "direct" \in Hops BY DEF Hops
  <2>6. /\ r \in Quoted /\ r.venue = i /\ r.in = x /\ r.out = Out(m.pools[i], x)
    BY <1>1, <2>1, <2>2, <2>3, <2>4, <2>5, QuoteIs
  <2> QED BY <2>1, <2>2, <2>6
<1> QED BY <1>1, <1>2

\* A single quote is a route.
LEMMA SingleFits ==
    ASSUME NEW ask, Traded(ask), NEW m, Priced(m.pools), NEW pick \in Quotes(ask, m)
    PROVE  /\ Fits(ask, SingleRoute(ask, pick)) /\ SingleRoute(ask, pick).kind = "single"
           /\ SingleRoute(ask, pick).legs = <<pick>>
           /\ SingleRoute(ask, pick).net = NetOf(ask, pick.out)
<1>1. pick \in Quoted /\ pick.in = VenueAmount(ask) /\ pick.out > 0 BY QuotesAre
<1>2. pick.out \in Nat \ {0} BY <1>1 DEF Quoted
<1>3. PICK legs : legs = <<pick>> OBVIOUS
<1>4. /\ legs \in Seq(Quoted) /\ legs # <<>>
      /\ SumIn(legs) = VenueAmount(ask) /\ SumOut(legs) = pick.out
  BY <1>1, <1>3, OneLeg
<1>5. SingleRoute(ask, pick) = Route(ask, "single", legs, SumOut(legs))
  BY <1>3, <1>4 DEF SingleRoute
<1>6. SingleRoute(ask, pick).net = NetOf(ask, pick.out) BY DEF SingleRoute, Route
<1>7. /\ Fits(ask, Route(ask, "single", legs, SumOut(legs)))
      /\ Route(ask, "single", legs, SumOut(legs)).kind = "single"
      /\ Route(ask, "single", legs, SumOut(legs)).legs = legs
  <2>1. SumOut(legs) \in Nat \ {0} BY <1>2, <1>4
  <2> QED BY <1>4, <2>1, DirectFits
<1> QED BY <1>3, <1>5, <1>6, <1>7

\* The pools that quoted, in order.
LEMMA PoolsInOrder ==
    ASSUME NEW V, IsFiniteSet(V), V \subseteq Nat
    PROVE  Cardinality(V) \in Nat /\ InTheirOrder(V) \in [1..Cardinality(V) -> V]
<1> DEFINE R == {w \in V \X V : w[1] < w[2]}
           n == Cardinality(V)
<1>1. n \in Nat BY FS_CardinalityType
<1>2. \A p, q \in V : <<p, q>> \in R <=> p < q OBVIOUS
<1> HIDE DEF R
<1>3. IsOrder(R, V) BY <1>2 DEF IsOrder
<1>4. PICK f : Lists(f, n, V, R) BY <1>3, ListsExist
<1> DEFINE Listed(s) == \A i, j \in DOMAIN s : i < j => s[i] < s[j]
<1>5. f \in [1..n -> V] /\ Listed(f)
  <2>1. f \in [1..n -> V] /\ \A i, j \in 1..n : i < j => <<f[i], f[j]>> \in R
    BY <1>4 DEF Lists, Enumerates
  <2>2. \A i, j \in 1..n : i < j => f[i] < f[j] BY <1>2, <2>1
  <2> QED BY <2>1, <2>2
<1>6. InTheirOrder(V) = CHOOSE s \in [1..n -> V] : Listed(s) BY DEF InTheirOrder, InOrder
<1> HIDE DEF Listed
<1>7. InTheirOrder(V) \in [1..n -> V] BY <1>5, <1>6
<1> QED BY <1>1, <1>7

\* Finitely many venues quote.
LEMMA QuotesAreFinite ==
    ASSUME NEW ask, NEW m, Priced(m.pools)
    PROVE  IsFiniteSet(Quotes(ask, m))
<1> DEFINE S == {v \in Usable(m.pools) : Out(m.pools[v], VenueAmount(ask)) > 0}
           T == Quotes(ask, m)
           f == [i \in S |-> Quote(m.pools, i, VenueAmount(ask), "direct")]
<1>1. S \in SUBSET DOMAIN m.pools BY DEF Usable
<1>2. IsFiniteSet(S) BY <1>1, FS_Subset DEF Priced, Venues
<1>3. f \in [S -> T] /\ \A t \in T : \E s \in S : f[s] = t BY DEF Quotes
<1> HIDE DEF S, T, f
<1>4. f \in Surjection(S, T) BY <1>3 DEF Surjection
<1>5. IsFiniteSet(T) BY <1>2, <1>4, FS_Surjection
<1> QED BY <1>5 DEF T

\* A split that is emitted is a route.
LEMMA SplitFits ==
    ASSUME NEW ask, Traded(ask), NEW m, Priced(m.pools), NEW max_legs \in Nat,
           SplitRouteOf(ask, m, max_legs).kind # "none"
    PROVE  /\ Fits(ask, SplitRouteOf(ask, m, max_legs))
           /\ SplitRouteOf(ask, m, max_legs).kind = "split"
<1>1. PICK V, quoted, route : /\ V = NativeVenues(ask, m) /\ quoted = InTheirOrder(V)
                              /\ route = SplitRouteOf(ask, m, max_legs)
  OBVIOUS
<1>2. V \subseteq DOMAIN m.pools /\ IsFiniteSet(V) /\ V \subseteq Nat
  <2>1. V \subseteq DOMAIN m.pools
    BY <1>1 DEF NativeVenues, Quotes, Quote, Usable
  <2>2. IsFiniteSet(DOMAIN m.pools) /\ DOMAIN m.pools \subseteq Nat BY DEF Priced, Venues
  <2> QED BY <2>1, <2>2, FS_Subset
<1>3. PICK n \in Nat : quoted \in [1..n -> V] BY <1>1, <1>2, PoolsInOrder
<1>4. PICK pools : pools = [k \in DOMAIN quoted |-> m.pools[quoted[k]]] OBVIOUS
<1>5. Priced(pools)
  <2>1. DOMAIN pools = 1..n /\ \A k \in 1..n : \E i \in DOMAIN m.pools : pools[k] = m.pools[i]
    BY <1>2, <1>3, <1>4
  <2>2. IsFiniteSet(1..n) BY FS_Interval
  <2>3. \A k \in DOMAIN pools, x \in Nat : Out(pools[k], x) \in Nat \cup {NoFill}
    BY <2>1 DEF Priced, Venues
  <2>4. Venues(pools) BY <2>1, <2>2, <2>3 DEF Venues
  <2>5. ASSUME NEW k \in DOMAIN pools
        PROVE  /\ pools[k].ok \in BOOLEAN /\ pools[k].via \in {"native", "external", "none"}
               /\ \A x \in Nat \ {0} : Out(pools[k], x) # NoFill => pools[k].impact[x] \in Nat
    <3>1. PICK i \in DOMAIN m.pools : pools[k] = m.pools[i] BY <2>1
    <3> QED BY <3>1 DEF Priced
  <2> QED BY <2>4, <2>5 DEF Priced
<1>6. PICK x \in Nat : x = VenueAmount(ask) BY NetTerms DEF Traded
<1>7. PICK split : split = OptimizeSplit(pools, x, Opts(max_legs)) OBVIOUS
<1>8. route.kind # "none" /\ NoRoute.kind = "none" BY <1>1 DEF NoRoute
<1>9. route = SplitOver(ask, pools, split)
  BY <1>1, <1>4, <1>6, <1>7, <1>8 DEF SplitRouteOf
<1>10. Worthwhile(split) BY <1>8, <1>9 DEF SplitOver
<1>11. Answers(pools, x, max_legs, split)
  <2>1. Venues(pools) BY <1>5 DEF Priced
  <2> QED BY <1>7, <1>10, <2>1, OptsFit
<1>12. PICK legs : legs = QuotesOf(pools, split, "direct") OBVIOUS
<1>13. legs \in Seq(Quoted) /\ legs # <<>> /\ SumIn(legs) = x /\ SumOut(legs) = split.out
  <2>1. "direct" \in Hops BY DEF Hops
  <2>2. PICK hop \in Hops : hop = "direct" BY <2>1
  <2>3. LET of == QuotesOf(pools, split, hop)
        IN  of \in Seq(Quoted) /\ of # <<>> /\ SumIn(of) = x /\ SumOut(of) = split.out
    BY <1>5, <1>11, QuotedLegs
  <2> QED BY <1>12, <2>2, <2>3
<1>14. SumOut(legs) \in Nat \ {0} BY <1>11, <1>13 DEF Answers
<1>15. route = Route(ask, "split", legs, SumOut(legs)) BY <1>9, <1>10, <1>12 DEF SplitOver
<1>16. /\ Fits(ask, Route(ask, "split", legs, SumOut(legs)))
       /\ Route(ask, "split", legs, SumOut(legs)).kind = "split"
  BY <1>6, <1>13, <1>14, DirectFits
<1> QED BY <1>1, <1>15, <1>16

\* What a hop has at least is what the next one swaps.
LEMMA FloorsAreIn ==
    ASSUME NEW ask, Traded(ask), NEW legs \in Seq(Quoted), LegsFit(ask, legs)
    PROVE  SumOver(legs, FloorOf) \in Nat /\ SumOut(legs) \in Nat \ {0}
<1>1. PICK D, f, g : D = DOMAIN legs /\ f = Floors(legs) /\ g = Outs(legs) OBVIOUS
<1>2. /\ IsFiniteSet(D) /\ D = 1..Len(legs) /\ Len(legs) \in Nat
      /\ SumOver(legs, FloorOf) = SumFunctionOnSet(f, D)
      /\ SumOut(legs) = SumFunctionOnSet(g, D)
      /\ \A k \in D : /\ legs[k] \in Quoted /\ f[k] = FloorOf(legs[k])
                      /\ g[k] = legs[k].out /\ legs[k].out \in Nat
  BY <1>1, LegSums
<1>3. PICK a \in Nat, w \in Nat : a = MaxSlippage /\ w = Whole /\ a <= w
  BY SplitAssumption, TermsAssumption
<1>4. ASSUME NEW k \in D PROVE f[k] \in Nat /\ g[k] \in Nat \ {0}
  <2>1. legs[k].out > 0 /\ WithinCeiling(legs[k], ask) BY <1>1 DEF LegsFit
  <2>2. Min({MaxSlippage, ask.max}) \in Nat /\ Min({MaxSlippage, ask.max}) <= a
    <3>1. PICK b \in Nat : b = ask.max BY DEF Traded
    <3> QED BY <1>3, <3>1, LeastOfTwo
  <2>3. Required(legs[k]) \in Nat /\ (Required(legs[k]) <= w => FloorOf(legs[k]) \in Nat)
    BY <1>2, <1>3, FloorTerms
  <2>4. Required(legs[k]) <= w BY <1>3, <2>1, <2>2, <2>3 DEF WithinCeiling
  <2> QED BY <1>2, <2>1, <2>3, <2>4
<1>5. SumFunctionOnSet(f, D) \in Nat BY <1>2, <1>4, SumType
<1>6. SumFunctionOnSet(g, D) \in Nat \ {0}
  <2>1. legs # <<>> BY DEF LegsFit
  <2>2. Len(legs) # 0
    <3>1. \A s \in Seq(Quoted) : s # <<>> => Len(s) \in Nat \ {0} BY EmptySeq
    <3> QED BY <2>1, <3>1
  <2>3. D # {}
    <3>1. 1 \in 1..Len(legs) BY <1>2, <2>2
    <3> QED BY <1>2, <3>1
  <2>4. \A k \in D : g[k] \in Nat \ {0} BY <1>4
  <2> QED BY <1>2, <2>3, <2>4, SumPositive
<1> QED BY <1>2, <1>5, <1>6

\* A hop of USDC is a quote.
LEMMA HopIs ==
    ASSUME NEW m, Priced(m.hops), NEW x \in Nat, BestSingle(m.hops, x) # NoVenue
    PROVE  LET hop == Quote(m.hops, BestSingle(m.hops, x), x, "intermediate")
           IN  hop \in Quoted /\ hop.in = x /\ hop.out \in Nat \ {0}
<1>1. PICK venues, i : venues = m.hops /\ i = BestSingle(venues, x) OBVIOUS
<1>2. Venues(venues) BY <1>1 DEF Priced
<1>3. x > 0 /\ i \in DOMAIN venues /\ Out(venues[i], x) \in Nat \ {0}
  BY <1>1, <1>2, BestOfTheVenues
<1>4. Out(venues[i], x) # NoFill BY <1>3 DEF NoFill
<1>5. "intermediate" \in Hops BY DEF Hops
<1>6. PICK hop : hop = Quote(venues, i, x, "intermediate") OBVIOUS
<1>7. hop \in Quoted /\ hop.in = x /\ hop.out = Out(venues[i], x)
  <2>1. x \in Nat \ {0} /\ Priced(venues) BY <1>1, <1>3
  <2> QED BY <1>3, <1>4, <1>5, <1>6, <2>1, QuoteIs
<1> QED BY <1>1, <1>3, <1>6, <1>7

-----------------------------------------------------------------------------
(* Paths                                                                    *)

\* A sequence of one before another.
LEMMA OneBefore ==
    ASSUME NEW q \in Quoted, NEW legs \in Seq(Quoted), legs # <<>>
    PROVE  /\ <<q>> \o legs \in Seq(Quoted) /\ <<q>> \o legs # <<>>
           /\ Head(<<q>> \o legs) = q /\ Tail(<<q>> \o legs) = legs
           /\ Among(legs, <<q>> \o legs)
<1>1. PICK s, t : s = <<q>> /\ t = <<q>> \o legs OBVIOUS
<1>2. s \in Seq(Quoted) /\ Len(s) = 1 /\ s[1] = q BY <1>1
<1>3. PICK n \in Nat : n = Len(legs) /\ legs \in [1..n -> Quoted] /\ DOMAIN legs = 1..n
  BY LenProperties
<1>4. /\ t \in Seq(Quoted) /\ Len(t) = 1 + n
      /\ \A i \in 1..(1 + n) : t[i] = IF i <= 1 THEN s[i] ELSE legs[i - 1]
  BY <1>1, <1>2, <1>3, ConcatProperties
<1>5. t # <<>> /\ DOMAIN t = 1..(1 + n) /\ t[1] = q
  <2>1. DOMAIN t = 1..(1 + n) BY <1>4, LenProperties
  <2>2. 1 \in 1..(1 + n) OBVIOUS
  <2> QED BY <1>2, <1>4, <2>1, <2>2
<1>6. \A i \in 1..n : t[i + 1] = legs[i] /\ i + 1 \in 1..(1 + n)
  <2> TAKE i \in 1..n
  <2>1. i + 1 \in 1..(1 + n) /\ ~ (i + 1 <= 1) /\ (i + 1) - 1 = i OBVIOUS
  <2> QED BY <1>4, <2>1
<1>7. Head(t) = q BY <1>4, <1>5 DEF Head
<1>8. Tail(t) = legs
  <2>1. /\ Tail(t) \in Seq(Quoted) /\ Len(Tail(t)) = Len(t) - 1
        /\ \A i \in 1..Len(Tail(t)) : Tail(t)[i] = t[i + 1]
    BY <1>4, <1>5, HeadTailProperties
  <2>2. Len(Tail(t)) = n BY <1>4, <2>1
  <2>3. \A i \in 1..Len(Tail(t)) : Tail(t)[i] = legs[i] BY <1>6, <2>1, <2>2
  <2> QED BY <1>3, <2>1, <2>2, <2>3, SeqEqual
<1>9. Among(legs, t)
  <2>1. \A k \in 1..n : legs[k] = t[k + 1] /\ k + 1 \in DOMAIN t BY <1>5, <1>6
  <2> QED BY <1>3, <2>1 DEF Among
<1> QED BY <1>1, <1>4, <1>5, <1>7, <1>8, <1>9

\* A sequence with one after it.
LEMMA OneAfter ==
    ASSUME NEW q \in Quoted, NEW legs \in Seq(Quoted), legs # <<>>
    PROVE  /\ Append(legs, q) \in Seq(Quoted) /\ Append(legs, q) # <<>>
           /\ Last(Append(legs, q)) = q /\ Front(Append(legs, q)) = legs
           /\ Among(<<q>>, Append(legs, q))
<1>1. PICK t : t = Append(legs, q) OBVIOUS
<1>2. PICK n \in Nat : n = Len(legs) /\ legs \in [1..n -> Quoted] /\ DOMAIN legs = 1..n
  BY LenProperties
<1>3. /\ t \in Seq(Quoted) /\ t # <<>> /\ Len(t) = n + 1
      /\ \A i \in 1..n : t[i] = legs[i]
      /\ t[n + 1] = q
  BY <1>1, <1>2, AppendProperties
<1>4. DOMAIN t = 1..(n + 1) BY <1>3, LenProperties
<1>5. Last(t) = q BY <1>3 DEF Last
<1>6. Front(t) = legs
  <2>1. Front(t) = SubSeq(t, 1, n)
    <3>1. Len(t) - 1 = n BY <1>3
    <3> QED BY <3>1 DEF Front
  <2>2. \A i \in 1..n : t[i] \in Quoted BY <1>2, <1>3
  <2>3. /\ SubSeq(t, 1, n) \in Seq(Quoted)
        /\ Len(SubSeq(t, 1, n)) = IF 1 <= n THEN n - 1 + 1 ELSE 0
        /\ \A i \in 1..(n - 1 + 1) : SubSeq(t, 1, n)[i] = t[1 + i - 1]
    BY <2>2, SubSeqProperties
  <2>4. PICK u : u = SubSeq(t, 1, n) OBVIOUS
  <2>5. Len(u) = n /\ u \in Seq(Quoted) BY <2>3, <2>4
  <2>6. \A i \in 1..n : u[i] = legs[i]
    <3> TAKE i \in 1..n
    <3>1. i \in 1..(n - 1 + 1) /\ 1 + i - 1 = i OBVIOUS
    <3> QED BY <1>3, <2>3, <2>4, <3>1
  <2>7. u = legs BY <1>2, <2>5, <2>6, SeqEqual
  <2> QED BY <2>1, <2>4, <2>7
<1>7. Among(<<q>>, t)
  <2>1. n + 1 \in DOMAIN t BY <1>4
  <2>2. DOMAIN <<q>> = {1} /\ <<q>>[1] = q OBVIOUS
  <2> QED BY <1>3, <2>1, <2>2 DEF Among
<1> QED BY <1>1, <1>3, <1>5, <1>6, <1>7

\* A buy's path is a route.
LEMMA BuyPathFits ==
    ASSUME NEW ask, Traded(ask), ask.side = "buy", NEW m, Priced(m.hops), Priced(m.legs),
           NEW max_legs \in Nat, BuyPath(ask, m, max_legs).kind # "none"
    PROVE  Fits(ask, BuyPath(ask, m, max_legs)) /\ BuyPath(ask, m, max_legs).kind = "path"
<1>1. PICK x \in Nat : x = VenueAmount(ask) BY NetTerms DEF Traded
<1>2. PICK route, i : route = BuyPath(ask, m, max_legs) /\ i = BestSingle(m.hops, x) OBVIOUS
<1>3. PICK hop : hop = Quote(m.hops, i, x, "intermediate") OBVIOUS
<1>4. route.kind # "none" /\ NoRoute.kind = "none" BY <1>2 DEF NoRoute
<1>5. /\ i # NoVenue /\ ~ (FloorOf(hop) <= 0)
      /\ route = BuyLegs(ask, hop, LegQuotes(m, FloorOf(hop), max_legs))
  BY <1>1, <1>2, <1>3, <1>4 DEF BuyPath
<1>6. hop \in Quoted /\ hop.in = x BY <1>2, <1>3, <1>5, HopIs
<1>7. PICK floor \in Nat \ {0} : floor = FloorOf(hop)
  <2>1. FloorOf(hop) \in Int BY <1>6, FloorTerms
  <2> QED BY <1>5, <2>1
<1>8. PICK legs : legs = LegQuotes(m, floor, max_legs) OBVIOUS
<1>9. LegsFit(ask, legs) /\ route = Route(ask, "path", <<hop>> \o legs, SumOut(legs))
  BY <1>4, <1>5, <1>7, <1>8 DEF BuyLegs
<1>10. legs # <<>> BY <1>9 DEF LegsFit
<1>11. legs \in Seq(Quoted) /\ SumIn(legs) = floor BY <1>8, <1>10, LegQuotesFit
<1>12. SumOut(legs) \in Nat \ {0} BY <1>9, <1>11, FloorsAreIn
<1>13. PICK all : all = <<hop>> \o legs OBVIOUS
<1>14. all \in Seq(Quoted) /\ all # <<>> /\ Head(all) = hop /\ Tail(all) = legs
       /\ Among(legs, all)
  BY <1>6, <1>10, <1>11, <1>13, OneBefore
<1>15. /\ route.kind = "path" /\ route.legs = all /\ route.gross = SumOut(legs)
       /\ route.net = NetOf(ask, route.gross)
  BY <1>9, <1>13 DEF Route
<1>16. OutputLegs(ask, route) = legs /\ InputLegs(ask, route) = <<hop>>
  BY <1>14, <1>15 DEF OutputLegs, InputLegs
<1>17. <<hop>> \in Seq(Quoted) /\ SumIn(<<hop>>) = x BY <1>6, OneLeg
<1>18. FloorsAgree(ask, route) BY <1>7, <1>11, <1>14, <1>15 DEF FloorsAgree
<1>19. Fits(ask, route)
  BY <1>1, <1>11, <1>12, <1>14, <1>15, <1>16, <1>17, <1>18 DEF Fits
<1> QED BY <1>2, <1>15, <1>19

\* A sale's path is a route.
LEMMA SellPathFits ==
    ASSUME NEW ask, Traded(ask), ask.side = "sell", NEW m, Priced(m.hops), Priced(m.legs),
           NEW max_legs \in Nat, SellPath(ask, m, max_legs).kind # "none"
    PROVE  Fits(ask, SellPath(ask, m, max_legs)) /\ SellPath(ask, m, max_legs).kind = "path"
<1>1. PICK x \in Nat : x = VenueAmount(ask) BY NetTerms DEF Traded
<1>2. PICK route, legs : route = SellPath(ask, m, max_legs) /\ legs = LegQuotes(m, x, max_legs)
  OBVIOUS
<1>3. PICK floor, i, hop : /\ floor = SumOver(legs, FloorOf) /\ i = BestSingle(m.hops, floor)
                           /\ hop = Quote(m.hops, i, floor, "intermediate")
  OBVIOUS
<1>4. route.kind # "none" /\ NoRoute.kind = "none" BY <1>2 DEF NoRoute
<1>5. route = SellHop(ask, m, legs) BY <1>1, <1>2 DEF SellPath
<1>6. /\ LegsFit(ask, legs) /\ ~ (floor <= 0) /\ i # NoVenue
      /\ route = Route(ask, "path", Append(legs, hop), hop.out)
  BY <1>3, <1>4, <1>5 DEF SellHop
<1>7. legs # <<>> BY <1>6 DEF LegsFit
<1>8. x # 0
  <2> SUFFICES ASSUME x = 0 PROVE FALSE OBVIOUS
  <2>1. PICK split : split = OptimizeSplit(m.legs, x, Opts(max_legs)) OBVIOUS
  <2>2. legs = LegsOver(m, x, split) BY <1>2, <2>1 DEF LegQuotes
  <2>3. Venues(m.legs) BY DEF Priced
  <2>4. BestSingle(m.legs, x) = NoVenue BY <2>3, BestOfTheVenues
  <2>5. ~ Worthwhile(split)
    <3> SUFFICES ASSUME Worthwhile(split) PROVE FALSE OBVIOUS
    <3>1. split = Unplaced(m.legs, x, BestSingle(m.legs, x)) BY <2>1 DEF OptimizeSplit
    <3>2. split = NoSplit BY <2>4, <3>1 DEF Unplaced
    <3> QED BY <3>2 DEF NoSplit, Worthwhile
  <2> QED BY <1>7, <2>2, <2>4, <2>5 DEF LegsOver
<1>9. legs \in Seq(Quoted) /\ SumIn(legs) = x BY <1>2, <1>7, <1>8, LegQuotesFit
<1>10. floor \in Nat BY <1>3, <1>6, <1>9, FloorsAreIn
<1>11. hop \in Quoted /\ hop.in = floor /\ hop.out \in Nat \ {0} BY <1>3, <1>6, <1>10, HopIs
<1>12. PICK all : all = Append(legs, hop) OBVIOUS
<1>13. all \in Seq(Quoted) /\ all # <<>> /\ Last(all) = hop /\ Front(all) = legs
       /\ Among(<<hop>>, all)
  BY <1>7, <1>9, <1>11, <1>12, OneAfter
<1>14. /\ route.kind = "path" /\ route.legs = all /\ route.gross = hop.out
       /\ route.net = NetOf(ask, route.gross)
  BY <1>6, <1>12 DEF Route
<1>15. OutputLegs(ask, route) = <<hop>> /\ InputLegs(ask, route) = legs
  BY <1>13, <1>14 DEF OutputLegs, InputLegs
<1>16. <<hop>> \in Seq(Quoted) /\ SumOut(<<hop>>) = hop.out BY <1>11, OneLeg
<1>17. FloorsAgree(ask, route)
  <2>1. SumOver(Front(all), FloorOf) = Last(all).in BY <1>3, <1>11, <1>13
  <2> QED BY <1>14, <2>1 DEF FloorsAgree
<1>18. Fits(ask, route)
  BY <1>1, <1>9, <1>11, <1>13, <1>14, <1>15, <1>16, <1>17 DEF Fits
<1> QED BY <1>2, <1>14, <1>18

-----------------------------------------------------------------------------
(* Ranking and selection                                                    *)

\* One quote comes before another.
Leads(ask, q, r) ==
    LET nq == NetOf(ask, q.out)  nr == NetOf(ask, r.out)
    IN  \/ nq > nr
        \/ nq = nr /\ q.impact < r.impact
        \/ nq = nr /\ q.impact = r.impact /\ q.via # "none" /\ r.via = "none"
        \/ nq = nr /\ q.impact = r.impact /\ (q.via = "none" <=> r.via = "none")
           /\ q.venue < r.venue

\* Of quotes of several venues one comes before the others, and nets as much.
LEMMA LeadingIs ==
    ASSUME NEW ask, Traded(ask), NEW m, Priced(m.pools), NEW quotes,
           quotes \in SUBSET Quotes(ask, m), quotes # {}
    PROVE  /\ Leading(ask, quotes) \in quotes
           /\ \A q \in quotes : NetOf(ask, q.out) <= NetOf(ask, Leading(ask, quotes).out)
<1> DEFINE R == {w \in quotes \X quotes : Leads(ask, w[2], w[1])}
<1>1. IsFiniteSet(quotes)
  <2>1. IsFiniteSet(Quotes(ask, m)) BY QuotesAreFinite
  <2> QED BY <2>1, FS_Subset
<1>2. ASSUME NEW q \in quotes
      PROVE  NetOf(ask, q.out) \in Nat /\ q.impact \in Nat /\ q.venue \in Nat
  <2>1. q \in Quoted BY QuotesAre
  <2>2. q.out \in Nat /\ q.impact \in Nat /\ q.venue \in Nat BY <2>1 DEF Quoted
  <2> QED BY <2>2, NetTerms
<1>3. ASSUME NEW q \in quotes, NEW r \in quotes, q # r
      PROVE  Leads(ask, q, r) \/ Leads(ask, r, q)
  <2>1. q.venue # r.venue BY <1>3, QuotesAre
  <2>2. PICK a \in Nat, b \in Nat : a = NetOf(ask, q.out) /\ b = NetOf(ask, r.out) BY <1>2
  <2>3. q.impact \in Nat /\ q.venue \in Nat /\ r.impact \in Nat /\ r.venue \in Nat BY <1>2
  <2> QED BY <2>1, <2>2, <2>3 DEF Leads
<1>4. ASSUME NEW q \in quotes, NEW r \in quotes, NEW s \in quotes,
             Leads(ask, q, r), Leads(ask, r, s)
      PROVE  Leads(ask, q, s)
  <2>1. PICK a \in Nat, b \in Nat, c \in Nat :
          a = NetOf(ask, q.out) /\ b = NetOf(ask, r.out) /\ c = NetOf(ask, s.out)
    BY <1>2
  <2>2. /\ q.impact \in Nat /\ r.impact \in Nat /\ s.impact \in Nat
        /\ q.venue \in Nat /\ r.venue \in Nat /\ s.venue \in Nat
    BY <1>2
  <2> QED BY <1>4, <2>1, <2>2 DEF Leads
<1>5. \A q, r \in quotes : <<q, r>> \in R <=> Leads(ask, r, q) OBVIOUS
<1> HIDE DEF R
<1>6. IsOrder(R, quotes)
  <2>1. \A q, r \in quotes : q # r => <<q, r>> \in R \/ <<r, q>> \in R BY <1>3, <1>5
  <2>2. \A q, r, s \in quotes : <<q, r>> \in R /\ <<r, s>> \in R => <<q, s>> \in R
    BY <1>4, <1>5
  <2> QED BY <2>1, <2>2 DEF IsOrder
<1> DEFINE Best(q) == \A r \in quotes \ {q} : Leads(ask, q, r)
<1>7. \E q \in quotes : Best(q)
  <2>1. PICK q \in quotes : \A x \in quotes \ {q} : <<x, q>> \in R
    BY <1>1, <1>6, LastExists
  <2> QED BY <1>5, <2>1
<1>8. PICK q \in quotes : q = Leading(ask, quotes) /\ Best(q)
  <2>1. Leading(ask, quotes) = CHOOSE q \in quotes : Best(q) BY DEF Leading, Leads
  <2> HIDE DEF Best
  <2> QED BY <1>7, <2>1
<1>9. ASSUME NEW r \in quotes PROVE NetOf(ask, r.out) <= NetOf(ask, q.out)
  <2>1. PICK a \in Nat, b \in Nat : a = NetOf(ask, q.out) /\ b = NetOf(ask, r.out) BY <1>2
  <2>2. r # q => Leads(ask, q, r) BY <1>8
  <2>3. b <= a BY <2>1, <2>2 DEF Leads
  <2> QED BY <2>1, <2>3
<1> QED BY <1>8, <1>9

\* Venues by their names say what a quote of theirs is.
LEMMA NamedVenues ==
    ASSUME NEW names \in Seq(DOMAIN Pools)
    PROVE  Priced([k \in DOMAIN names |-> Pools[names[k]]])
<1>1. PICK venues : venues = [k \in DOMAIN names |-> Pools[names[k]]] OBVIOUS
<1>2. Venues(venues) /\ \A k \in DOMAIN names : names[k] \in DOMAIN Pools BY <1>1, NamedCurves
<1>3. ASSUME NEW i \in DOMAIN venues
      PROVE  /\ venues[i].ok \in BOOLEAN /\ venues[i].via \in {"native", "external", "none"}
             /\ \A x \in Nat \ {0} : Out(venues[i], x) # NoFill => venues[i].impact[x] \in Nat
  <2>1. PICK p \in DOMAIN Pools : venues[i] = Pools[p] BY <1>1, <1>2
  <2>2. /\ \A x \in DOMAIN Pools[p].out : Pools[p].impact[x] \in Nat
        /\ Pools[p].ok \in BOOLEAN /\ Pools[p].via \in {"native", "external", "none"}
    BY TradeQuestions
  <2> QED BY <2>1, <2>2 DEF Out
<1> QED BY <1>1, <1>2, <1>3 DEF Priced

\* A trade and its market.
LEMMA MarketIs ==
    ASSUME Posed, question.op = "trade"
    PROVE  LET m == Market(question)
           IN  /\ Traded(question.ask) /\ Priced(m.pools) /\ Priced(m.hops) /\ Priced(m.legs)
               /\ DefaultLegs \in Nat
<1>1. PICK t \in Trades : /\ question.ask = t.ask /\ question.pools = t.pools
                          /\ question.hops = t.hops /\ question.legs = t.legs
  BY DEF Posed, Asked
<1>2. /\ t.ask.side \in {"buy", "sell"} /\ {t.ask.amount, t.ask.max} \subseteq Nat
      /\ {t.pools, t.hops, t.legs} \subseteq Seq(DOMAIN Pools)
  BY TradeQuestions
<1>3. Traded(question.ask) BY <1>1, <1>2 DEF Traded
<1>4. PICK p, h, l : p = t.pools /\ h = t.hops /\ l = t.legs OBVIOUS
<1>5. p \in Seq(DOMAIN Pools) /\ h \in Seq(DOMAIN Pools) /\ l \in Seq(DOMAIN Pools)
  BY <1>2, <1>4
<1>6. /\ Market(question).pools = [k \in DOMAIN p |-> Pools[p[k]]]
      /\ Market(question).hops = [k \in DOMAIN h |-> Pools[h[k]]]
      /\ Market(question).legs = [k \in DOMAIN l |-> Pools[l[k]]]
  BY <1>1, <1>4 DEF Market
<1>7. /\ Priced([k \in DOMAIN p |-> Pools[p[k]]])
      /\ Priced([k \in DOMAIN h |-> Pools[h[k]]])
      /\ Priced([k \in DOMAIN l |-> Pools[l[k]]])
  BY <1>5, NamedVenues
<1>8. DefaultLegs \in Nat BY TermsAssumption
<1> QED BY <1>3, <1>6, <1>7, <1>8

\* A route of a kind, or none.
Candidate(ask, route, kind) ==
    route.kind = "none" \/ (Fits(ask, route) /\ route.kind = kind)

\* What a user gets of a route is its net, if anything.
LEMMA ObtainableIs ==
    ASSUME NEW ask, Traded(ask), NEW kind \in {"single", "split", "path"}, NEW route,
           Candidate(ask, route, kind)
    PROVE  /\ Obtainable(ask, route) \in Int
           /\ Obtainable(ask, route) # NoFill =>
                route.net \in Nat \ {0} /\ Obtainable(ask, route) = route.net
           /\ route.kind \in {"split", "path"} =>
                route.net \in Nat \ {0} /\ Obtainable(ask, route) = route.net
<1>1. CASE route.kind = "none"
  <2>1. Obtainable(ask, route) = NoFill BY <1>1 DEF Obtainable
  <2> QED BY <1>1, <2>1 DEF NoFill
<1>2. CASE route.kind # "none"
  <2>1. Fits(ask, route) BY <1>2 DEF Candidate
  <2>2. route.gross \in Nat \ {0} /\ route.net = NetOf(ask, route.gross) BY <2>1 DEF Fits
  <2>3. PICK g \in Nat : g = route.gross /\ g > 0 BY <2>2
  <2>4. NetOf(ask, g) \in Nat /\ NetOf(ask, g) > 0 BY <2>3, NetTerms
  <2>5. route.net \in Nat \ {0} BY <2>2, <2>3, <2>4
  <2>6. Obtainable(ask, route) \in {NoFill, route.net} BY <1>2 DEF Obtainable
  <2>7. route.kind \in {"split", "path"} => Obtainable(ask, route) = route.net
    BY DEF Obtainable
  <2> QED BY <2>5, <2>6, <2>7 DEF NoFill
<1> QED BY <1>1, <1>2

\* What Henar builds alone is approved and native.
LEMMA BuildableIs ==
    ASSUME NEW ask, NEW route, Buildable(ask, route)
    PROVE  /\ route.kind # "none" /\ AllApproved(ask, route)
           /\ \A k \in DOMAIN route.legs : route.legs[k].via = "native"
<1>1. \A k \in DOMAIN route.legs : Capability(route.legs[k], ask) = "HENAR_NATIVE"
  BY DEF Buildable
<1>2. ASSUME NEW k \in DOMAIN route.legs
      PROVE  Approved(route.legs[k], ask) /\ route.legs[k].via = "native"
  BY <1>1 DEF Capability
<1> QED BY <1>2 DEF Buildable, AllApproved

\* A route that is chosen gives the user no less than any Henar could build.
LEMMA ChosenKeeps ==
    ASSUME NEW ask, Traded(ask), NEW single, Candidate(ask, single, "single"),
           NEW split, Candidate(ask, split, "split"), NEW path, Candidate(ask, path, "path")
    PROVE  LET chosen == Preferred(ask, Direct(ask, single, split), path)
           IN  /\ chosen \in {single, split, path}
               /\ Obtainable(ask, chosen) \in Int
               /\ Obtainable(ask, chosen) # NoFill => Obtainable(ask, chosen) = chosen.net
               /\ Obtainable(ask, chosen) >= Obtainable(ask, single)
               /\ Buildable(ask, split) => Obtainable(ask, chosen) >= split.net
               /\ Buildable(ask, path) => Obtainable(ask, chosen) >= path.net
<1>1. PICK direct : direct = Direct(ask, single, split) OBVIOUS
<1>2. PICK chosen : chosen = Preferred(ask, direct, path) OBVIOUS
<1>3. direct \in {single, split} /\ (direct = split => split.kind = "split" \/ single = split)
  BY <1>1 DEF Direct
<1>4. chosen \in {direct, path} /\ (chosen = path => path.kind = "path" \/ direct = path)
  BY <1>2 DEF Preferred, Executable
<1>5. PICK a \in Int : /\ a = Obtainable(ask, single)
                       /\ a # NoFill => a = single.net
  <2>1. /\ Obtainable(ask, single) \in Int
        /\ Obtainable(ask, single) # NoFill => Obtainable(ask, single) = single.net
    BY ObtainableIs
  <2> QED BY <2>1
<1>6. PICK b \in Int : /\ b = Obtainable(ask, split) /\ (b # NoFill => b = split.net)
                       /\ split.kind = "split" => b = split.net
  <2>1. /\ Obtainable(ask, split) \in Int
        /\ Obtainable(ask, split) # NoFill => Obtainable(ask, split) = split.net
        /\ split.kind = "split" => Obtainable(ask, split) = split.net
    BY ObtainableIs
  <2> QED BY <2>1
<1>7. PICK c \in Int : /\ c = Obtainable(ask, path) /\ (c # NoFill => c = path.net)
                       /\ path.kind = "path" => c = path.net
  <2>1. /\ Obtainable(ask, path) \in Int
        /\ Obtainable(ask, path) # NoFill => Obtainable(ask, path) = path.net
        /\ path.kind = "path" => Obtainable(ask, path) = path.net
    BY ObtainableIs
  <2> QED BY <2>1
<1>8. PICK d \in Int : /\ d = Obtainable(ask, direct) /\ (d # NoFill => d = direct.net)
                       /\ d >= a
                       /\ Buildable(ask, split) => d >= split.net
  <2>1. CASE split.kind = "split" /\ AllApproved(ask, split) /\ split.net > a
    <3>1. direct = split BY <1>1, <1>5, <2>1 DEF Direct
    <3>2. b = split.net BY <1>6, <2>1
    <3> QED BY <1>6, <2>1, <3>1, <3>2
  <2>2. CASE ~ (split.kind = "split" /\ AllApproved(ask, split) /\ split.net > a)
    <3>1. direct = single BY <1>1, <1>5, <2>2 DEF Direct
    <3>2. ASSUME Buildable(ask, split) PROVE a >= split.net
      <4>1. split.kind # "none" /\ AllApproved(ask, split) BY <3>2, BuildableIs
      <4>2. split.kind = "split" BY <4>1 DEF Candidate
      <4>3. split.net = b BY <1>6, <4>2
      <4> QED BY <2>2, <4>1, <4>2, <4>3
    <3> QED BY <1>5, <3>1, <3>2
  <2> QED BY <2>1, <2>2
<1>9. /\ Obtainable(ask, chosen) \in Int
      /\ Obtainable(ask, chosen) # NoFill => Obtainable(ask, chosen) = chosen.net
      /\ Obtainable(ask, chosen) >= d
      /\ Buildable(ask, path) => Obtainable(ask, chosen) >= path.net
  <2>1. CASE Executable(ask, path) /\ path.net > d
    <3>1. chosen = path BY <1>2, <1>8, <2>1 DEF Preferred
    <3>2. path.kind = "path" BY <2>1 DEF Executable
    <3>3. c = path.net BY <1>7, <3>2
    <3> QED BY <1>7, <2>1, <3>1, <3>3
  <2>2. CASE ~ (Executable(ask, path) /\ path.net > d)
    <3>1. chosen = direct BY <1>2, <1>8, <2>2 DEF Preferred
    <3>2. ASSUME Buildable(ask, path) PROVE d >= path.net
      <4>1. /\ path.kind # "none" /\ AllApproved(ask, path)
            /\ \A k \in DOMAIN path.legs : path.legs[k].via = "native"
        BY <3>2, BuildableIs
      <4>2. path.kind = "path" /\ Fits(ask, path) BY <4>1 DEF Candidate
      <4>3. FloorsAgree(ask, path) BY <4>2 DEF Fits
      <4>4. Executable(ask, path) BY <4>1, <4>2, <4>3 DEF Executable
      <4>5. path.net = c BY <1>7, <4>2
      <4> QED BY <2>2, <4>4, <4>5
    <3> QED BY <1>8, <3>1, <3>2
  <2> QED BY <2>1, <2>2
<1>10. chosen \in {single, split, path} BY <1>3, <1>4
<1>11. /\ Obtainable(ask, chosen) >= Obtainable(ask, single)
       /\ Buildable(ask, split) => Obtainable(ask, chosen) >= split.net
  <2>1. PICK e \in Int : e = Obtainable(ask, chosen) /\ e >= d BY <1>9
  <2>2. e >= a BY <1>8, <2>1
  <2>3. ASSUME Buildable(ask, split) PROVE e >= split.net
    <3>1. split.kind = "split"
      <4>1. split.kind # "none" BY <2>3, BuildableIs
      <4> QED BY <4>1 DEF Candidate
    <3>2. split.net = b BY <1>6, <3>1
    <3> QED BY <1>8, <2>1, <2>3, <3>2
  <2> QED BY <1>5, <2>1, <2>2, <2>3
<1> QED BY <1>1, <1>2, <1>9, <1>10, <1>11

\* The pick of the single quotes.
LEMMA PickedIs ==
    ASSUME NEW ask, Traded(ask), NEW m, Priced(m.pools), NEW approved,
           approved \in SUBSET Quotes(ask, m), approved # {},
           NEW reach, reach = {q \in approved : Capability(q, ask) # "QUOTE_ONLY"}
    PROVE  /\ Picked(ask, approved) \in approved
           /\ reach # {} =>
                /\ Picked(ask, approved) \in reach
                /\ LET top == Leading(ask, reach)
                   IN  /\ top \in reach
                       /\ \A q \in reach : NetOf(ask, q.out) <= NetOf(ask, top.out)
                       /\ \/ Picked(ask, approved) = top
                          \/ Near(ask, NetOf(ask, top.out), Picked(ask, approved))
<1>1. PICK natives : natives = {q \in approved : Capability(q, ask) = "HENAR_NATIVE"} OBVIOUS
<1>2. natives \subseteq reach /\ reach \subseteq approved BY <1>1
<1>3. PICK pick : pick = Picked(ask, approved) OBVIOUS
<1>4. CASE reach = {}
  <2>1. pick = Leading(ask, approved) BY <1>3, <1>4 DEF Picked
  <2>2. Leading(ask, approved) \in approved BY LeadingIs
  <2> QED BY <1>3, <1>4, <2>1, <2>2
<1>5. CASE reach # {}
  <2>1. PICK top : top = Leading(ask, reach) OBVIOUS
  <2>2. top \in reach /\ \A q \in reach : NetOf(ask, q.out) <= NetOf(ask, top.out)
    <3>1. reach \in SUBSET Quotes(ask, m) BY <1>2
    <3> QED BY <1>5, <2>1, <3>1, LeadingIs
  <2>3. pick = Reached(ask, top, natives) BY <1>1, <1>3, <1>5, <2>1 DEF Picked
  <2>4. CASE pick = top BY <1>2, <1>3, <2>1, <2>2, <2>4
  <2>5. CASE pick # top
    <3>1. /\ natives # {} /\ pick = Leading(ask, natives)
          /\ Near(ask, NetOf(ask, top.out), Leading(ask, natives))
      BY <2>3, <2>5 DEF Reached
    <3>2. natives \in SUBSET Quotes(ask, m) BY <1>2
    <3>3. Leading(ask, natives) \in natives BY <3>1, <3>2, LeadingIs
    <3> QED BY <1>2, <1>3, <2>1, <2>2, <3>1, <3>3
  <2> QED BY <2>4, <2>5
<1> QED BY <1>4, <1>5

\* What a route is chosen among.
LEMMA CandidatesAre ==
    ASSUME NEW ask, Traded(ask), NEW m, Priced(m.pools), Priced(m.hops), Priced(m.legs),
           NEW max_legs \in Nat
    PROVE  /\ Candidate(ask, SelectSingle(ask, m), "single")
           /\ Candidate(ask, SplitRouteOf(ask, m, max_legs), "split")
           /\ Candidate(ask, PathOf(ask, m, max_legs), "path")
<1>1. Candidate(ask, SelectSingle(ask, m), "single")
  <2>1. PICK approved, single : /\ approved = {q \in Quotes(ask, m) : Approved(q, ask)}
                                /\ single = SelectSingle(ask, m)
    OBVIOUS
  <2>2. CASE approved = {}
    <3>1. single = NoRoute BY <2>1, <2>2 DEF SelectSingle
    <3> QED BY <2>1, <3>1 DEF NoRoute, Candidate
  <2>3. CASE approved # {}
    <3>1. PICK pick : pick = Picked(ask, approved) OBVIOUS
    <3>2. pick \in approved BY <2>1, <2>3, <3>1, PickedIs
    <3>3. pick \in Quotes(ask, m) BY <2>1, <3>2
    <3>4. single = SingleRoute(ask, pick) BY <2>1, <2>3, <3>1 DEF SelectSingle
    <3>5. Fits(ask, single) /\ single.kind = "single" BY <3>3, <3>4, SingleFits
    <3> QED BY <2>1, <3>5 DEF Candidate
  <2> QED BY <2>2, <2>3
<1>2. Candidate(ask, SplitRouteOf(ask, m, max_legs), "split") BY SplitFits DEF Candidate
<1>3. Candidate(ask, PathOf(ask, m, max_legs), "path")
  <2>1. CASE ask.side = "buy"
    <3>1. PathOf(ask, m, max_legs) = BuyPath(ask, m, max_legs) BY <2>1 DEF PathOf
    <3>2. Candidate(ask, BuyPath(ask, m, max_legs), "path") BY <2>1, BuyPathFits DEF Candidate
    <3> QED BY <3>1, <3>2
  <2>2. CASE ask.side # "buy"
    <3>1. PathOf(ask, m, max_legs) = SellPath(ask, m, max_legs) BY <2>2 DEF PathOf
    <3>2. ask.side = "sell" BY <2>2 DEF Traded
    <3>3. Candidate(ask, SellPath(ask, m, max_legs), "path")
      BY <3>2, SellPathFits DEF Candidate
    <3> QED BY <3>1, <3>3
  <2> QED BY <2>1, <2>2
<1> QED BY <1>1, <1>2, <1>3

\* What loses less of a price is nearer to it.
LEMMA NearerStill ==
    ASSUME NEW a \in Int, NEW b \in Int, NEW w \in Nat, NEW t \in Nat \ {0}, NEW p \in Nat,
           a <= b, (b * w) \div t <= p
    PROVE  (a * w) \div t <= p
<1>1. PICK x \in Int, y \in Int : x = a * w /\ y = b * w OBVIOUS
<1>2. x <= y
  <2>1. PICK d \in Nat : b = a + d
    <3>1. b - a \in Nat /\ b = a + (b - a) OBVIOUS
    <3> QED BY <3>1
  <2>2. PICK e \in Nat : e = d * w OBVIOUS
  <2>3. (a + d) * w = a * w + d * w OBVIOUS
  <2> QED BY <1>1, <2>1, <2>2, <2>3
<1>3. x \div t <= y \div t BY <1>2
<1>4. x \div t \in Int /\ y \div t \in Int OBVIOUS
<1> QED BY <1>1, <1>3, <1>4

\* The single route reaches what any quote reaches, or near it.
LEMMA SingleReaches ==
    ASSUME NEW ask, Traded(ask), NEW m, Priced(m.pools), NEW q \in Quotes(ask, m),
           Capability(q, ask) # "QUOTE_ONLY"
    PROVE  LET single == SelectSingle(ask, m)
           IN  \E top \in Quotes(ask, m) :
                  /\ Capability(top, ask) # "QUOTE_ONLY"
                  /\ NetOf(ask, q.out) <= NetOf(ask, top.out)
                  /\ Obtainable(ask, single) = single.net
                  /\ \/ single.net = NetOf(ask, top.out)
                     \/ ((NetOf(ask, top.out) - single.net) * Whole) \div NetOf(ask, top.out)
                           <= NativePreference
<1>1. PICK approved : approved = {r \in Quotes(ask, m) : Approved(r, ask)} OBVIOUS
<1>2. PICK reach : reach = {r \in approved : Capability(r, ask) # "QUOTE_ONLY"} OBVIOUS
<1>3. q \in reach
  <2>1. Approved(q, ask) BY DEF Capability
  <2> QED BY <1>1, <1>2, <2>1
<1>4. approved # {} /\ reach # {} /\ approved \in SUBSET Quotes(ask, m) BY <1>1, <1>2, <1>3
<1>5. PICK pick, top : pick = Picked(ask, approved) /\ top = Leading(ask, reach) OBVIOUS
<1>6. /\ pick \in reach /\ top \in reach
      /\ \A r \in reach : NetOf(ask, r.out) <= NetOf(ask, top.out)
      /\ pick = top \/ Near(ask, NetOf(ask, top.out), pick)
  BY <1>2, <1>4, <1>5, PickedIs
<1>7. PICK single : single = SelectSingle(ask, m) OBVIOUS
<1>8. single = SingleRoute(ask, pick) BY <1>1, <1>4, <1>5, <1>7 DEF SelectSingle
<1>9. /\ single.kind = "single" /\ single.legs = <<pick>> /\ single.net = NetOf(ask, pick.out)
  BY <1>8 DEF SingleRoute, Route
<1>10. Obtainable(ask, single) = single.net
  <2>1. single.legs[1] = pick BY <1>9
  <2>2. Capability(pick, ask) # "QUOTE_ONLY" BY <1>2, <1>6
  <2> QED BY <1>9, <2>1, <2>2 DEF Obtainable
<1>11. pick = top => single.net = NetOf(ask, top.out) BY <1>9
<1>12. Near(ask, NetOf(ask, top.out), pick) =>
          ((NetOf(ask, top.out) - single.net) * Whole) \div NetOf(ask, top.out)
             <= NativePreference
  BY <1>9 DEF Near
<1>13. top \in Quotes(ask, m) /\ Capability(top, ask) # "QUOTE_ONLY" BY <1>1, <1>2, <1>6
<1> QED BY <1>3, <1>6, <1>7, <1>10, <1>11, <1>12, <1>13

\* What is obtained of a choice is near to the best of what could have been.
LEMMA NearTheBest ==
    ASSUME NEW ask, Traded(ask), NEW m, Priced(m.pools), Priced(m.hops), Priced(m.legs),
           NEW max_legs \in Nat,
           NEW nets, nets = {NetOf(ask, q.out) : q \in {r \in Quotes(ask, m) :
                                               Capability(r, ask) # "QUOTE_ONLY"}}
                     \cup {r.net : r \in {s \in {SplitRouteOf(ask, m, max_legs),
                                                 PathOf(ask, m, max_legs)} :
                                             Buildable(ask, s)}}
    PROVE  AtMostThePreference(ask, Select(ask, m, max_legs), nets)
<1>1. PICK single, split, path : /\ single = SelectSingle(ask, m)
                                 /\ split = SplitRouteOf(ask, m, max_legs)
                                 /\ path = PathOf(ask, m, max_legs)
  OBVIOUS
<1>2. PICK chosen : chosen = Select(ask, m, max_legs) OBVIOUS
<1>3. /\ Candidate(ask, single, "single") /\ Candidate(ask, split, "split")
      /\ Candidate(ask, path, "path")
  BY <1>1, CandidatesAre
<1>4. chosen = Preferred(ask, Direct(ask, single, split), path) BY <1>1, <1>2 DEF Select
<1>5. /\ chosen \in {single, split, path}
      /\ Obtainable(ask, chosen) \in Int
      /\ Obtainable(ask, chosen) # NoFill => Obtainable(ask, chosen) = chosen.net
      /\ Obtainable(ask, chosen) >= Obtainable(ask, single)
      /\ Buildable(ask, split) => Obtainable(ask, chosen) >= split.net
      /\ Buildable(ask, path) => Obtainable(ask, chosen) >= path.net
  BY <1>3, <1>4, ChosenKeeps
<1>6. PICK quoted, built : /\ quoted = {q \in Quotes(ask, m) : Capability(q, ask) # "QUOTE_ONLY"}
                           /\ built = {s \in {split, path} : Buildable(ask, s)}
  OBVIOUS
<1>7. nets = {NetOf(ask, q.out) : q \in quoted} \cup {s.net : s \in built} BY <1>1, <1>6
<1>8. ASSUME NEW q \in quoted PROVE NetOf(ask, q.out) \in Nat \ {0}
  <2>1. q \in Quoted /\ q.out > 0 BY <1>6, QuotesAre
  <2>2. q.out \in Nat BY <2>1 DEF Quoted
  <2> QED BY <2>1, <2>2, NetTerms
<1>9. ASSUME NEW s \in built PROVE s.net \in Nat \ {0} /\ Obtainable(ask, chosen) >= s.net
  <2>1. s \in {split, path} /\ Buildable(ask, s) BY <1>6
  <2>2. s.kind # "none" BY <2>1, BuildableIs
  <2>3. CASE s = split
    <3>1. s.kind = "split" BY <1>3, <2>2, <2>3 DEF Candidate
    <3>2. split.net \in Nat \ {0} BY <1>3, <2>3, <3>1, ObtainableIs
    <3> QED BY <1>5, <2>1, <2>3, <3>2
  <2>4. CASE s = path
    <3>1. s.kind = "path" BY <1>3, <2>2, <2>4 DEF Candidate
    <3>2. path.net \in Nat \ {0} BY <1>3, <2>4, <3>1, ObtainableIs
    <3> QED BY <1>5, <2>1, <2>4, <3>2
  <2> QED BY <2>1, <2>3, <2>4
<1>10. SUFFICES ASSUME nets # {}
                PROVE  /\ Obtainable(ask, chosen) # NoFill
                       /\ ((Max(nets) - chosen.net) * Whole) \div Max(nets) <= NativePreference
  BY <1>2 DEF AtMostThePreference
<1>11. nets \subseteq Nat \ {0} BY <1>7, <1>8, <1>9
<1>12. IsFiniteSet(nets)
  <2>1. IsFiniteSet(quoted)
    <3>1. IsFiniteSet(Quotes(ask, m)) BY QuotesAreFinite
    <3>2. quoted \in SUBSET Quotes(ask, m) BY <1>6
    <3> QED BY <3>1, <3>2, FS_Subset
  <2>2. IsFiniteSet(built)
    <3>1. IsFiniteSet({split}) /\ IsFiniteSet({path}) BY FS_Singleton
    <3>2. IsFiniteSet({split} \cup {path}) BY <3>1, FS_Union
    <3>3. built \in SUBSET ({split} \cup {path}) BY <1>6
    <3> QED BY <3>2, <3>3, FS_Subset
  <2>3. IsFiniteSet({NetOf(ask, q.out) : q \in quoted})
    <3>1. PICK f : f = [q \in quoted |-> NetOf(ask, q.out)] OBVIOUS
    <3>2. {f[q] : q \in quoted} = {NetOf(ask, q.out) : q \in quoted} BY <3>1
    <3>3. IsFiniteSet({f[q] : q \in quoted}) BY <2>1, FiniteImages
    <3> QED BY <3>2, <3>3
  <2>4. IsFiniteSet({s.net : s \in built})
    <3>1. PICK f : f = [s \in built |-> s.net] OBVIOUS
    <3>2. {f[s] : s \in built} = {s.net : s \in built} BY <3>1
    <3>3. IsFiniteSet({f[s] : s \in built}) BY <2>2, FiniteImages
    <3> QED BY <3>2, <3>3
  <2>5. PICK a, b : a = {NetOf(ask, q.out) : q \in quoted} /\ b = {s.net : s \in built} OBVIOUS
  <2>6. IsFiniteSet(a) /\ IsFiniteSet(b) BY <2>3, <2>4, <2>5
  <2>7. IsFiniteSet(a \cup b) BY <2>6, FS_Union
  <2> QED BY <1>7, <2>5, <2>7
<1>13. PICK top \in Nat \ {0} : top \in nets /\ top = Max(nets) /\ \A n \in nets : n <= top
  <2>1. nets \subseteq Int BY <1>11
  <2>2. Max(nets) \in nets /\ \A n \in nets : n <= Max(nets) BY <1>10, <1>12, <2>1, MaxIsElement
  <2> QED BY <1>11, <2>2
<1>14. PICK w \in Nat \ {0}, p \in Nat : w = Whole /\ p = NativePreference
  BY SplitAssumption, TermsAssumption
<1>15. PICK got \in Int : got = Obtainable(ask, chosen) /\ (got # NoFill => got = chosen.net)
  BY <1>5
<1> SUFFICES got # NoFill /\ ((top - got) * w) \div top <= p BY <1>13, <1>14, <1>15
<1>16. (0 * w) \div top <= p
  <2>1. 0 * w = 0 /\ 0 \div top = 0 OBVIOUS
  <2> QED BY <2>1
<1>17. CASE top \in {s.net : s \in built}
  <2>1. got >= top BY <1>9, <1>15, <1>17
  <2>2. got # NoFill BY <2>1 DEF NoFill
  <2>3. top - got \in Int /\ top - got <= 0 BY <2>1
  <2>4. PICK a \in Int : a = top - got /\ a <= 0 BY <2>3
  <2>5. (a * w) \div top <= p BY <1>16, <2>4, NearerStill
  <2> QED BY <2>2, <2>4, <2>5
<1>18. CASE top \in {NetOf(ask, q.out) : q \in quoted}
  <2>1. PICK q \in quoted : top = NetOf(ask, q.out) BY <1>18
  <2>2. q \in Quotes(ask, m) /\ Capability(q, ask) # "QUOTE_ONLY" BY <1>6
  <2>3. PICK best \in Quotes(ask, m) :
          /\ Capability(best, ask) # "QUOTE_ONLY"
          /\ NetOf(ask, q.out) <= NetOf(ask, best.out)
          /\ Obtainable(ask, single) = single.net
          /\ \/ single.net = NetOf(ask, best.out)
             \/ ((NetOf(ask, best.out) - single.net) * Whole) \div NetOf(ask, best.out)
                   <= NativePreference
    BY <1>1, <2>2, SingleReaches
  <2>4. NetOf(ask, best.out) = top
    <3>1. best \in quoted BY <1>6, <2>3
    <3>2. NetOf(ask, best.out) \in nets BY <1>7, <3>1
    <3>3. PICK n \in Nat : n = NetOf(ask, best.out) BY <1>8, <3>1
    <3>4. n <= top BY <1>13, <3>2, <3>3
    <3>5. top <= n BY <2>1, <2>3, <3>3
    <3> QED BY <3>3, <3>4, <3>5
  <2>5. PICK s \in Nat \ {0} : s = single.net /\ s = Obtainable(ask, single)
    <3>1. SelectSingle(ask, m).kind # "none"
      <4>1. q \in Quotes(ask, m) /\ Approved(q, ask) BY <2>2 DEF Capability
      <4>2. {r \in Quotes(ask, m) : Approved(r, ask)} # {} BY <4>1
      <4> QED BY <4>2 DEF SelectSingle, SingleRoute, Route
    <3>2. Obtainable(ask, single) # NoFill
      <4>1. Fits(ask, single) BY <1>1, <1>3, <3>1 DEF Candidate
      <4>2. PICK g \in Nat : g > 0 /\ single.net = NetOf(ask, g) BY <4>1 DEF Fits
      <4>3. single.net \in Nat BY <4>2, NetTerms
      <4> QED BY <2>3, <4>3 DEF NoFill
    <3>3. single.net \in Nat \ {0} BY <1>3, <3>2, ObtainableIs
    <3> QED BY <2>3, <3>3
  <2>6. ((top - s) * w) \div top <= p
    <3>1. CASE s = top
      <4>1. top - s = 0 BY <3>1
      <4> QED BY <1>16, <4>1
    <3>2. CASE s # top BY <1>14, <2>3, <2>4, <2>5, <3>2
    <3> QED BY <3>1, <3>2
  <2>7. got >= s BY <1>5, <1>15, <2>5
  <2>8. got # NoFill BY <2>7 DEF NoFill
  <2>9. PICK a \in Int, b \in Int : a = top - got /\ b = top - s /\ a <= b BY <2>7
  <2>10. (a * w) \div top <= p BY <2>6, <2>9, NearerStill
  <2> QED BY <2>8, <2>9, <2>10
<1> QED BY <1>7, <1>13, <1>17, <1>18

\* The selected route can be executed whenever any can, and gives up no more
\* than the native preference, for any market and ask.
THEOREM SelectsTheBest == Spec => []SelectionNeverWorse
<1>1. Posed => SelectionNeverWorse
  <2> SUFFICES ASSUME Posed, question.op = "trade" PROVE SelectionNeverWorse
    BY DEF SelectionNeverWorse
  <2>1. PICK ask, m : ask = question.ask /\ m = Market(question) OBVIOUS
  <2>2. /\ Traded(ask) /\ Priced(m.pools) /\ Priced(m.hops) /\ Priced(m.legs)
        /\ DefaultLegs \in Nat
    BY <2>1, MarketIs
  <2>3. PICK nets : nets = {NetOf(ask, q.out) : q \in {r \in Quotes(ask, m) :
                                               Capability(r, ask) # "QUOTE_ONLY"}}
                     \cup {r.net : r \in {s \in {SplitRouteOf(ask, m, DefaultLegs),
                                                 PathOf(ask, m, DefaultLegs)} :
                                             Buildable(ask, s)}}
    OBVIOUS
  <2>4. AtMostThePreference(ask, Select(ask, m, DefaultLegs), nets) BY <2>2, <2>3, NearTheBest
  <2>5. Chosen(question) = Select(ask, m, DefaultLegs) BY <2>1 DEF Chosen
  <2> QED BY <2>1, <2>3, <2>4, <2>5 DEF SelectionNeverWorse
<1> QED BY <1>1, PosedInvariant, PTL

-----------------------------------------------------------------------------
(* What a plan keeps                                                        *)

\* The floors of legs that are within a ceiling are within it together.
LEMMA FloorsWithin ==
    ASSUME NEW legs \in Seq(Quoted), NEW c \in Nat,
           \A k \in DOMAIN legs : Required(legs[k]) <= c
    PROVE  /\ SumOver(legs, FloorOf) \in Int
           /\ SumOver(legs, FloorOf) >= SumOut(legs) - BpsOf(SumOut(legs), c)
<1>1. PICK D, f, g : D = DOMAIN legs /\ f = Floors(legs) /\ g = Outs(legs) OBVIOUS
<1>2. /\ IsFiniteSet(D)
      /\ SumOver(legs, FloorOf) = SumFunctionOnSet(f, D)
      /\ SumOut(legs) = SumFunctionOnSet(g, D)
      /\ \A k \in D : /\ legs[k] \in Quoted /\ f[k] = FloorOf(legs[k])
                      /\ g[k] = legs[k].out /\ legs[k].out \in Nat
  BY <1>1, LegSums
<1>3. PICK cut : cut = [k \in D |-> BpsOf(legs[k].out, Required(legs[k]))] OBVIOUS
<1>4. PICK w \in Nat \ {0} : w = Whole BY SplitAssumption
<1>5. ASSUME NEW k \in D
      PROVE  g[k] \in Nat /\ cut[k] \in Nat /\ cut[k] * w <= g[k] * c /\ f[k] = g[k] - cut[k]
  <2>1. PICK x \in Nat, r \in Nat : x = legs[k].out /\ r = Required(legs[k]) /\ r <= c
    BY <1>1, <1>2, FloorTerms
  <2>2. /\ BpsOf(x, r) \in Nat /\ BpsOf(x, r) * w <= x * r
        /\ FloorOf(legs[k]) = x - BpsOf(x, r)
    BY <1>2, <1>4, <2>1, FloorTerms
  <2>3. PICK y \in Nat : y = BpsOf(x, r) /\ y * w <= x * r BY <2>2
  <2>4. x * r <= x * c
    <3>1. PICK d \in Nat : c = r + d
      <4>1. c - r \in Nat /\ c = r + (c - r) BY <2>1
      <4> QED BY <4>1
    <3>2. x * (r + d) = x * r + x * d /\ x * d \in Nat OBVIOUS
    <3> QED BY <3>1, <3>2
  <2>5. y * w <= x * c
    <3>1. PICK i \in Nat, j \in Nat, l \in Nat : i = y * w /\ j = x * r /\ l = x * c OBVIOUS
    <3>2. i <= j /\ j <= l BY <2>3, <2>4, <3>1
    <3> QED BY <3>1, <3>2
  <2> QED BY <1>2, <1>3, <2>1, <2>2, <2>3, <2>5
<1>6. PICK all \in Nat, cuts \in Nat :
        all = SumFunctionOnSet(g, D) /\ cuts = SumFunctionOnSet(cut, D)
  <2>1. SumFunctionOnSet(g, D) \in Nat /\ SumFunctionOnSet(cut, D) \in Nat
    BY <1>2, <1>5, SumType
  <2> QED BY <2>1
<1>7. cuts * w <= all * c BY <1>2, <1>5, <1>6, SumOfShares
<1>8. SumFunctionOnSet(f, D) = all - cuts
  <2>1. \A k \in D : g[k] \in Int /\ cut[k] \in Int /\ f[k] = g[k] - cut[k] BY <1>5
  <2> QED BY <1>2, <1>6, <2>1, SumMinus
<1>9. cuts <= (all * c) \div w
  <2>1. PICK n \in Nat : n = all * c OBVIOUS
  <2>2. n \div w \in Nat /\ n < (n \div w + 1) * w BY Quotients, RoundedUp
  <2>3. PICK d \in Nat : d = n \div w BY <2>2
  <2>4. cuts * w < (d + 1) * w BY <1>7, <2>1, <2>2, <2>3
  <2>5. cuts < d + 1
    <3> SUFFICES ASSUME d + 1 <= cuts PROVE FALSE OBVIOUS
    <3>1. (d + 1) * w <= cuts * w OBVIOUS
    <3> QED BY <2>4, <3>1
  <2> QED BY <2>1, <2>3, <2>5
<1>10. BpsOf(all, c) = (all * c) \div w BY <1>4 DEF BpsOf
<1>11. PICK b \in Nat : b = BpsOf(all, c)
  <2>1. BpsOf(all, c) \in Nat BY BpsBounded
  <2> QED BY <2>1
<1> QED BY <1>2, <1>6, <1>8, <1>9, <1>10, <1>11

\* The fees of a division's legs add up to the fee.
LEMMA FeesAddUp ==
    ASSUME NEW ask, Traded(ask), NEW legs \in Seq(Quoted), legs # <<>>,
           SumIn(legs) = VenueAmount(ask)
    PROVE  SumFunction(LegFees(ask, legs)) = BpsOf(ask.amount, FeeBps)
<1>1. PICK n \in Nat : n = Len(legs) /\ DOMAIN legs = 1..n BY LenProperties
<1>2. n \in Nat \ {0}
  <2>1. \A s \in Seq(Quoted) : s # <<>> => Len(s) \in Nat \ {0} BY EmptySeq
  <2> QED BY <1>1, <2>1
<1>3. PICK f : f = Ins(legs) OBVIOUS
<1>4. \A k \in 1..n : f[k] = legs[k].in /\ f[k] \in Nat \ {0}
  <2>1. \A k \in 1..n : f[k] = legs[k].in /\ legs[k] \in Quoted BY <1>1, <1>3, LegSums
  <2> QED BY <2>1 DEF Quoted
<1>5. f \in [1..n -> Nat] BY <1>1, <1>3, <1>4 DEF Ins
<1>6. PICK amount \in Nat \ {0} : amount = VenueAmount(ask) /\ SumFunctionOnSet(f, 1..n) = amount
  <2>1. PICK I : I = 1..n OBVIOUS
  <2>2. IsFiniteSet(I) BY <2>1, FS_Interval
  <2>3. I # {}
    <3>1. 1 \in 1..n BY <1>2
    <3> QED BY <2>1, <3>1
  <2>4. \A k \in I : f[k] \in Nat \ {0} BY <1>4, <2>1
  <2>5. SumFunctionOnSet(f, I) \in Nat \ {0} BY <2>2, <2>3, <2>4, SumPositive
  <2>6. SumIn(legs) = SumFunctionOnSet(f, I) BY <1>1, <1>3, <2>1, LegSums
  <2> QED BY <2>1, <2>5, <2>6
<1>7. PICK w \in Nat : w = BpsOf(ask.amount, FeeBps) BY FeeLeaves DEF Traded
<1>8. PICK fees : fees = Shares(f, w, amount, n) OBVIOUS
<1>9. MakesUp(fees, w, n) BY <1>2, <1>5, <1>6, <1>8, SharesMakeTheWhole
<1>10. SumFunction(fees) = w
  <2>1. DOMAIN fees = 1..n BY <1>9 DEF MakesUp
  <2> QED BY <1>9, <2>1 DEF MakesUp, SumFunction
<1> DEFINE cut == [k \in 1..n |-> (w * legs[k].in) \div amount]
<1>11. \A k \in 1..n : cut[k] = Cut(f, w, amount, k)
  <2> TAKE k \in 1..n
  <2>1. PICK x \in Nat : x = f[k] /\ x = legs[k].in BY <1>4
  <2>2. w * x = x * w OBVIOUS
  <2>3. cut[k] = (w * x) \div amount BY <2>1
  <2> QED BY <2>1, <2>2, <2>3 DEF Cut
<1>12. LegFees(ask, legs) = [k \in 1..n |-> IF k < n THEN cut[k]
                               ELSE w - SumFunction([i \in 1..(k - 1) |-> cut[i]])]
  BY <1>1, <1>6, <1>7 DEF LegFees
<1> HIDE DEF cut
<1>13. [i \in 1..(n - 1) |-> cut[i]] = [i \in 1..(n - 1) |-> Cut(f, w, amount, i)]
  <2>1. \A i \in 1..(n - 1) : i \in 1..n OBVIOUS
  <2> QED BY <1>11, <2>1
<1>14. ASSUME NEW k \in 1..n
       PROVE  (IF k < n THEN cut[k] ELSE w - SumFunction([i \in 1..(k - 1) |-> cut[i]]))
                = IF k = n THEN w - SumFunction([i \in 1..(n - 1) |-> Cut(f, w, amount, i)])
                  ELSE Cut(f, w, amount, k)
  <2>1. CASE k < n BY <1>11, <2>1
  <2>2. CASE k = n BY <1>13, <2>2
  <2> QED BY <2>1, <2>2
<1>15. LegFees(ask, legs) = fees BY <1>8, <1>12, <1>14 DEF Shares
<1> QED BY <1>7, <1>10, <1>15

\* The plan of an approved route that fits keeps what was promised.
LEMMA PromiseKept ==
    ASSUME NEW ask, Traded(ask), NEW route, Fits(ask, route), AllApproved(ask, route),
           \A k \in DOMAIN route.legs : FloorOf(route.legs[k]) > 0
    PROVE  KeepsPromise(ask, route, Plan(ask, route))
<1>1. PICK legs, ins, outs : /\ legs = route.legs /\ ins = InputLegs(ask, route)
                             /\ outs = OutputLegs(ask, route)
  OBVIOUS
<1>2. legs \in Seq(Quoted) /\ ins \in Seq(Quoted) /\ outs \in Seq(Quoted)
  BY <1>1 DEF Fits
<1>3. /\ SumIn(ins) = VenueAmount(ask) /\ Among(outs, legs) /\ legs # <<>>
      /\ route.net = NetOf(ask, route.gross)
      /\ SumOut(outs) = route.gross /\ (route.kind = "path" => FloorsAgree(ask, route))
  BY <1>1 DEF Fits
<1>4. PICK gross \in Nat : gross = route.gross BY DEF Fits
<1>5. PICK c \in Nat : c = Min({MaxSlippage, ask.max})
  <2>1. PICK a \in Nat, b \in Nat : a = MaxSlippage /\ b = ask.max BY TermsAssumption DEF Traded
  <2> QED BY <2>1, LeastOfTwo
<1>6. PICK floors : floors = SumOver(outs, FloorOf) OBVIOUS
<1>7. floors \in Int /\ floors >= gross - BpsOf(gross, c)
  <2>1. ASSUME NEW k \in DOMAIN outs PROVE Required(outs[k]) <= c
    <3>1. PICK j \in DOMAIN legs : outs[k] = legs[j] BY <1>3 DEF Among
    <3>2. WithinCeiling(legs[j], ask) BY <1>1 DEF AllApproved, Approved
    <3> QED BY <1>5, <3>1, <3>2 DEF WithinCeiling
  <2> QED BY <1>2, <1>3, <1>4, <1>6, <2>1, FloorsWithin
<1>8. PICK plan : plan = Plan(ask, route) OBVIOUS
<1>9. /\ plan.minimum = floors /\ plan.expected = gross
      /\ plan.fee = BpsOf(IF ask.side = "buy" THEN ask.amount ELSE gross, FeeBps)
      /\ plan.net = floors - (IF ask.side = "buy" THEN 0 ELSE BpsOf(floors, FeeBps))
  BY <1>1, <1>3, <1>4, <1>6, <1>8 DEF Plan
<1>10. Plannable(ask, route)
  <2>1. ASSUME NEW k \in DOMAIN legs PROVE legs[k].in > 0
    <3>1. legs[k] \in Quoted BY <1>2, LegSums
    <3>2. legs[k].in \in Nat \ {0} BY <3>1 DEF Quoted
    <3> QED BY <3>2
  <2> QED BY <1>1, <1>3, <2>1 DEF Plannable
<1>11. plan.net = Promise(ask, route)
  <2>1. Promise(ask, route) = NetOf(ask, floors) BY <1>1, <1>6 DEF Promise
  <2>2. CASE ask.side = "buy"
    <3>1. NetOf(ask, floors) = floors BY <2>2 DEF NetOf
    <3>2. plan.net = floors BY <1>7, <1>9, <2>2
    <3> QED BY <2>1, <3>1, <3>2
  <2>3. CASE ask.side = "sell" BY <1>9, <2>1, <2>3 DEF NetOf
  <2> QED BY <2>2, <2>3 DEF Traded
<1>12. SpendsTheOrder(ask, route, plan)
  <2>1. route.net = route.gross - (IF ask.side = "sell" THEN plan.fee ELSE 0)
    <3>1. CASE ask.side = "buy"
      <4>1. route.net = gross BY <1>3, <1>4, <3>1 DEF NetOf
      <4>2. gross = gross - 0 OBVIOUS
      <4> QED BY <1>4, <3>1, <4>1, <4>2
    <3>2. CASE ask.side = "sell" BY <1>3, <1>4, <1>9, <3>2 DEF NetOf
    <3> QED BY <3>1, <3>2 DEF Traded
  <2>2. ASSUME ask.side = "buy"
        PROVE  /\ SumIn(ins) + plan.fee = ask.amount
               /\ route.kind = "split" => SumFunction(LegFees(ask, legs)) = plan.fee
    <3>1. PICK a \in Nat : a = ask.amount BY DEF Traded
    <3>2. PICK fee \in Nat : fee = BpsOf(a, FeeBps) BY FeeLeaves
    <3>3. plan.fee = fee BY <1>9, <2>2, <3>1, <3>2
    <3>4. SumIn(ins) = a - fee BY <1>3, <2>2, <3>1, <3>2 DEF VenueAmount
    <3>5. SumIn(ins) + plan.fee = ask.amount BY <3>1, <3>3, <3>4
    <3>6. ASSUME route.kind = "split" PROVE SumFunction(LegFees(ask, legs)) = fee
      <4>1. ins = legs BY <1>1, <3>6 DEF InputLegs
      <4>2. SumFunction(LegFees(ask, legs)) = BpsOf(ask.amount, FeeBps)
        BY <1>2, <1>3, <4>1, FeesAddUp
      <4> QED BY <3>1, <3>2, <4>2
    <3> QED BY <3>3, <3>5, <3>6
  <2> QED BY <1>1, <2>1, <2>2 DEF SpendsTheOrder
<1>13. plan.minimum >= route.gross - BpsOf(route.gross, Min({MaxSlippage, ask.max}))
  BY <1>4, <1>5, <1>7, <1>9
<1>14. plan.expected = route.gross BY <1>4, <1>9
<1> QED BY <1>8, <1>10, <1>11, <1>12, <1>13, <1>14 DEF KeepsPromise

\* The plan of the selected route keeps what was promised, for any market and
\* ask.
THEOREM PlansKeepPromises == Spec => []PlanKeepsThePromise
<1>1. Posed => PlanKeepsThePromise
  <2> SUFFICES ASSUME Posed, question.op = "trade" PROVE PlanKeepsThePromise
    BY DEF PlanKeepsThePromise
  <2>1. PICK ask, m : ask = question.ask /\ m = Market(question) OBVIOUS
  <2>2. /\ Traded(ask) /\ Priced(m.pools) /\ Priced(m.hops) /\ Priced(m.legs)
        /\ DefaultLegs \in Nat
    BY <2>1, MarketIs
  <2>3. PICK single, split, path : /\ single = SelectSingle(ask, m)
                                   /\ split = SplitRouteOf(ask, m, DefaultLegs)
                                   /\ path = PathOf(ask, m, DefaultLegs)
    OBVIOUS
  <2>4. /\ Candidate(ask, single, "single") /\ Candidate(ask, split, "split")
        /\ Candidate(ask, path, "path")
    BY <2>2, <2>3, CandidatesAre
  <2>5. PICK route : route = Chosen(question) OBVIOUS
  <2>6. route = Preferred(ask, Direct(ask, single, split), path)
    BY <2>1, <2>3, <2>5 DEF Chosen, Select
  <2>7. route \in {single, split, path} BY <2>2, <2>4, <2>6, ChosenKeeps
  <2>8. ASSUME Buildable(ask, route), \A k \in DOMAIN route.legs : FloorOf(route.legs[k]) > 0
        PROVE  KeepsPromise(ask, route, Plan(ask, route))
    <3>1. route.kind # "none" /\ AllApproved(ask, route) BY <2>8, BuildableIs
    <3>2. Fits(ask, route) BY <2>4, <2>7, <3>1 DEF Candidate
    <3> QED BY <2>2, <2>8, <3>1, <3>2, PromiseKept
  <2>9. WhenPlanned(ask, route, KeepsPromise) BY <2>8 DEF WhenPlanned
  <2> QED BY <2>1, <2>5, <2>9 DEF PlanKeepsThePromise
<1> QED BY <1>1, PosedInvariant, PTL

-----------------------------------------------------------------------------
(* Concave curves and the search for their best division                    *)

\* What holds of a number and goes from one number to the next holds from there
\* on.
LEMMA CountFrom ==
    ASSUME NEW x \in Nat, NEW n \in Nat, x <= n, NEW G, x \in G,
           \A k \in (x + 1)..n : k - 1 \in G => k \in G
    PROVE  x..n \subseteq G
<1> DEFINE H == {k \in Nat : x + k \in G}
<1>1. PICK m \in Nat : n = x + m OBVIOUS
<1>2. 0 \in H OBVIOUS
<1>3. \A k \in 1..m : k - 1 \in H => k \in H
  <2> TAKE k \in 1..m
  <2>1. PICK z \in (x + 1)..n : z = x + k /\ z - 1 = x + (k - 1) BY <1>1
  <2> QED BY <2>1
<1> HIDE DEF H
<1>4. 0..m \subseteq H BY <1>2, <1>3, CountUp
<1>5. \A z \in x..n : z - x \in 0..m /\ x + (z - x) = z BY <1>1
<1>6. \A k \in 0..m : x + k \in G BY <1>4 DEF H
<1> QED BY <1>5, <1>6

\* What holds of a number and goes back from one number to the one before holds
\* down to zero.
LEMMA CountDown ==
    ASSUME NEW x \in Nat, NEW G, x \in G, \A k \in 1..x : k \in G => k - 1 \in G
    PROVE  0..x \subseteq G
<1> DEFINE H == {k \in 0..x : x - k \in G}
<1>1. 0 \in H OBVIOUS
<1>2. \A k \in 1..x : k - 1 \in H => k \in H
  <2> TAKE k \in 1..x
  <2>1. PICK z \in 1..x : z = x - (k - 1) /\ z - 1 = x - k OBVIOUS
  <2> QED BY <2>1
<1> HIDE DEF H
<1>3. 0..x \subseteq H BY <1>1, <1>2, CountUp
<1>4. \A z \in 0..x : x - z \in 0..x /\ x - (x - z) = z OBVIOUS
<1>5. \A k \in 0..x : x - k \in G BY <1>3 DEF H
<1> QED BY <1>4, <1>5

\* What a list of numbers gains never grows.
Bends(f, n) == \A x \in 1..(n - 1) : f[x + 1] - f[x] <= f[x] - f[x - 1]

\* It gains no more later than earlier.
LEMMA GainsFall ==
    ASSUME NEW n \in Nat, NEW f \in [0..n -> Int], Bends(f, n), NEW x \in 1..n
    PROVE  \A y \in x..n : f[y] - f[y - 1] <= f[x] - f[x - 1]
<1> DEFINE G == {y \in x..n : f[y] - f[y - 1] <= f[x] - f[x - 1]}
<1>1. x \in G OBVIOUS
<1>2. \A k \in (x + 1)..n : k - 1 \in G => k \in G
  <2> SUFFICES ASSUME NEW k \in (x + 1)..n, k - 1 \in G PROVE k \in G OBVIOUS
  <2>1. PICK z \in 1..(n - 1) : z = k - 1 /\ z + 1 = k /\ z \in x..n OBVIOUS
  <2>2. f[z + 1] - f[z] <= f[z] - f[z - 1] BY DEF Bends
  <2>3. f[z] - f[z - 1] <= f[x] - f[x - 1] BY <2>1
  <2>4. /\ f[z + 1] \in Int /\ f[z] \in Int /\ f[z - 1] \in Int
        /\ f[x] \in Int /\ f[x - 1] \in Int
    OBVIOUS
  <2>5. PICK p \in Int, q \in Int : p = f[z] - f[z - 1] /\ q = f[x] - f[x - 1] /\ p <= q
    BY <2>3, <2>4
  <2>6. PICK d \in Int : d = f[z + 1] - f[z] BY <2>4
  <2>7. d <= q
    <3>1. d <= p BY <2>2, <2>5, <2>6
    <3> QED BY <2>5, <3>1
  <2> QED BY <2>1, <2>5, <2>6, <2>7
<1> HIDE DEF G
<1>3. x \in Nat /\ x <= n OBVIOUS
<1>4. x..n \subseteq G BY <1>1, <1>2, <1>3, CountFrom
<1> QED BY <1>4 DEF G

\* Once it has not risen it stays down.
LEMMA FallsOn ==
    ASSUME NEW n \in Nat, NEW f \in [0..n -> Int], Bends(f, n), NEW x \in 1..n,
           f[x] <= f[x - 1]
    PROVE  \A z \in x..n : f[z] <= f[x]
<1> DEFINE G == {z \in x..n : f[z] <= f[x]}
<1>1. x \in G OBVIOUS
<1>2. \A k \in (x + 1)..n : k - 1 \in G => k \in G
  <2> SUFFICES ASSUME NEW k \in (x + 1)..n, k - 1 \in G PROVE k \in G OBVIOUS
  <2>1. k \in x..n /\ k - 1 \in 0..n OBVIOUS
  <2>2. f[k] - f[k - 1] <= f[x] - f[x - 1] BY <2>1, GainsFall
  <2>3. f[k] \in Int /\ f[k - 1] \in Int /\ f[x] \in Int /\ f[x - 1] \in Int BY <2>1
  <2>4. f[k] <= f[x] BY <2>2, <2>3
  <2> QED BY <2>1, <2>4
<1> HIDE DEF G
<1>3. x \in Nat /\ x <= n OBVIOUS
<1>4. x..n \subseteq G BY <1>1, <1>2, <1>3, CountFrom
<1> QED BY <1>4 DEF G

\* Where it rises it was lower before.
LEMMA RoseBefore ==
    ASSUME NEW n \in Nat, NEW f \in [0..n -> Int], Bends(f, n), NEW x \in 1..n,
           f[x] > f[x - 1]
    PROVE  \A z \in 0..(x - 1) : f[z] <= f[x - 1]
<1> DEFINE G == {z \in 0..(x - 1) : f[z] <= f[x - 1]}
<1>1. PICK w \in Nat : w = x - 1 OBVIOUS
<1>2. w \in G BY <1>1
<1>3. \A k \in 1..w : k \in G => k - 1 \in G
  <2> SUFFICES ASSUME NEW k \in 1..w, k \in G PROVE k - 1 \in G OBVIOUS
  <2>1. k \in 1..n /\ x \in k..n /\ k - 1 \in 0..(x - 1) BY <1>1
  <2>2. f[x] - f[x - 1] <= f[k] - f[k - 1] BY <2>1, GainsFall
  <2>3. f[k] \in Int /\ f[k - 1] \in Int /\ f[x] \in Int /\ f[x - 1] \in Int BY <2>1
  <2>4. f[k - 1] <= f[x - 1] BY <2>2, <2>3
  <2> QED BY <2>1, <2>4
<1> HIDE DEF G
<1>4. 0..w \subseteq G BY <1>2, <1>3, CountDown
<1> QED BY <1>1, <1>4 DEF G

\* Of two points the better one bounds what lies beyond the other.
LEMMA BetterBounds ==
    ASSUME NEW n \in Nat, NEW f \in [0..n -> Int], Bends(f, n), NEW x \in 0..n, NEW y \in 0..n,
           x < y
    PROVE  /\ f[x] < f[y] => \A z \in 0..x : f[z] <= f[x]
           /\ f[x] >= f[y] => \A z \in y..n : f[z] <= f[y]
<1>1. ASSUME f[x] < f[y] PROVE \A z \in 0..x : f[z] <= f[x]
  <2>1. PICK w \in 1..n : w = x + 1 /\ x = w - 1 /\ y \in w..n OBVIOUS
  <2>2. f[w] \in Int /\ f[x] \in Int /\ f[y] \in Int OBVIOUS
  <2>3. CASE f[w] <= f[w - 1]
    <3>1. f[y] <= f[w] BY <2>1, <2>3, FallsOn
    <3> QED BY <1>1, <2>1, <2>2, <2>3, <3>1
  <2>4. CASE f[w] > f[w - 1]
    <3>1. \A z \in 0..(w - 1) : f[z] <= f[w - 1] BY <2>4, RoseBefore
    <3> QED BY <2>1, <3>1
  <2> QED BY <2>1, <2>2, <2>3, <2>4
<1>2. ASSUME f[x] >= f[y] PROVE \A z \in y..n : f[z] <= f[y]
  <2>1. y \in 1..n /\ x \in 0..(y - 1) /\ y - 1 \in 0..n OBVIOUS
  <2>2. f[y] \in Int /\ f[x] \in Int /\ f[y - 1] \in Int BY <2>1
  <2>3. CASE f[y] <= f[y - 1] BY <2>1, <2>3, FallsOn
  <2>4. CASE f[y] > f[y - 1]
    <3>1. f[x] <= f[y - 1] BY <2>1, <2>4, RoseBefore
    <3> QED BY <1>2, <2>2, <2>4, <3>1
  <2> QED BY <2>2, <2>3, <2>4
<1> QED BY <1>1, <1>2

\* The worths of all divisions of n units over two curves.
Worths(a, b, n, f) ==
    /\ f \in [0..n -> Nat] /\ Bends(f, n) /\ \A x \in 0..n : Worth(a, b, n, x) = f[x]

\* What a point of a search is worth.
Seen(f, x) == IF x = NoFill THEN NoFill ELSE f[x]

\* The search has seen the largest worth m or has it before it, and it has
\* left nothing better than it has seen at its upper end.
OnTrack(f, n, m, s) ==
    /\ s \in Searches(n) /\ s.done = FALSE
    /\ \A x \in 0..n : f[x] <= m
    /\ Seen(f, s.best) = m \/ \E x \in s.lo..s.hi : f[x] = m
    /\ s.hi = n \/ Seen(f, s.best) >= f[s.hi]

\* Where a step leads from a state of the search that is not yet at its end.
Searching(s) == s.hi - s.lo > 1
Narrows(f, n, m, s, t) == OnTrack(f, n, m, t) /\ t.hi - t.lo = Narrowed(s.hi - s.lo)

Prefers(f, x, y, z) ==
    /\ z \in {x, y} /\ Seen(f, z) >= Seen(f, x) /\ Seen(f, z) >= f[y]
    /\ Seen(f, x) \in Int
\* The better of two points is worth as much as each.
LEMMA BetterIsBetter ==
    ASSUME NEW a, NEW b, NEW n \in Nat, NEW f, Worths(a, b, n, f),
           NEW x \in {NoFill} \cup 0..n, NEW y \in 0..n
    PROVE  Prefers(f, x, y, Better(a, b, n, x, y))
<1>1. Worth(a, b, n, y) = f[y] /\ f[y] \in Nat BY DEF Worths
<1>2. Worth(a, b, n, x) = Seen(f, x)
  <2>1. CASE x = NoFill BY <2>1 DEF Worth, Seen
  <2>2. CASE x # NoFill BY <2>2 DEF Worths, Seen
  <2> QED BY <2>1, <2>2
<1>3. Seen(f, x) \in Int BY DEF Seen, Worths, NoFill
<1>4. Seen(f, y) = f[y] BY DEF Seen, NoFill
<1>5. CASE f[y] > Seen(f, x)
  <2>1. Better(a, b, n, x, y) = y BY <1>1, <1>2, <1>5 DEF Better
  <2> QED BY <1>1, <1>3, <1>4, <1>5, <2>1 DEF Prefers
<1>6. CASE ~ (f[y] > Seen(f, x))
  <2>1. Better(a, b, n, x, y) = x BY <1>1, <1>2, <1>6 DEF Better
  <2> QED BY <1>1, <1>3, <1>6, <2>1 DEF Prefers
<1> QED BY <1>5, <1>6

\* A step keeps the largest worth in sight and narrows the interval, if the
\* first curve is not better for every unit than the second.
LEMMA NarrowKeepsTrack ==
    ASSUME NEW a, NEW b, NEW n \in Nat, NEW f, Worths(a, b, n, f), f[n] <= f[n - 1],
           NEW m \in Nat, NEW s, OnTrack(f, n, m, s), Searching(s)
    PROVE  Narrows(f, n, m, s, Narrow(a, b, n, s))
<1>1. PICK lo \in 0..n, hi \in 0..n, best \in {NoFill} \cup 0..n :
        /\ lo = s.lo /\ hi = s.hi /\ best = s.best
        /\ hi - lo > 1
  BY DEF OnTrack, Searches, Searching
<1> DEFINE third == IF hi - lo >= 3 THEN (hi - lo) \div 3 ELSE 1
<1>2. PICK d \in Nat : /\ d = third /\ d > 0 /\ d + d <= hi - lo
                       /\ hi - lo >= 3 => d + d < hi - lo
                       /\ ~ (hi - lo >= 3) => d = 1
  <2>1. CASE hi - lo >= 3
    <3>1. PICK w \in Nat : w = hi - lo BY <1>1
    <3>2. w \div 3 \in Nat /\ w = (w \div 3) * 3 + (w % 3) /\ w % 3 \in 0..2 BY Quotients
    <3>3. third = w \div 3 BY <2>1, <3>1
    <3>4. w \div 3 > 0 BY <2>1, <3>1, <3>2
    <3> QED BY <2>1, <3>1, <3>2, <3>3, <3>4
  <2>2. CASE ~ (hi - lo >= 3) BY <1>1, <2>2
  <2> QED BY <2>1, <2>2
<1>3. Narrowed(hi - lo) = hi - lo - d
  <2>1. ~ (hi - lo <= 1) BY <1>1
  <2> QED BY <1>2, <2>1 DEF Narrowed
<1>4. PICK m1 \in 0..n, m2 \in 0..n :
        /\ m1 = lo + d /\ m2 = hi - d /\ lo < m1 /\ m1 <= m2 /\ m2 < hi
  BY <1>1, <1>2
<1> HIDE DEF third
<1>5. PICK f1 \in Nat, f2 \in Nat : f1 = f[m1] /\ f2 = f[m2] BY DEF Worths
<1>6. PICK q : q = Better(a, b, n, best, m1) OBVIOUS
<1>7. q \in {NoFill} \cup 0..n /\ Seen(f, q) >= Seen(f, best) /\ Seen(f, best) \in Int
  <2>1. Prefers(f, best, m1, q) BY <1>6, BetterIsBetter
  <2> QED BY <2>1 DEF Prefers
<1>8. PICK p : p = Better(a, b, n, q, m2) OBVIOUS
<1>9. /\ p \in {NoFill} \cup 0..n /\ Seen(f, p) >= Seen(f, q) /\ Seen(f, p) >= f2
      /\ Seen(f, q) \in Int
  <2>1. Prefers(f, q, m2, p) BY <1>7, <1>8, BetterIsBetter
  <2> QED BY <1>5, <1>7, <2>1 DEF Prefers
<1>10. Seen(f, p) \in Int /\ (p = NoFill \/ Seen(f, p) <= m)
  BY <1>9 DEF Seen, Worths, NoFill, OnTrack
<1>11. Seen(f, p) >= Seen(f, best) BY <1>7, <1>9, <1>10
<1>12. Seen(f, p) <= m
  BY <1>10 DEF Seen, NoFill
<1>13. PICK l, h : /\ Narrow(a, b, n, s) = [lo |-> l, hi |-> h, best |-> p, done |-> FALSE]
                   /\ l = IF f1 < f2 THEN m1 ELSE lo
                   /\ h = IF f1 >= f2 THEN m2 ELSE hi
  <2>1. Worth(a, b, n, m1) = f1 /\ Worth(a, b, n, m2) = f2 BY <1>5 DEF Worths
  <2>2. f1 # NoFill /\ f2 # NoFill BY DEF NoFill
  <2>3. Narrow(a, b, n, s)
          = [lo   |-> IF f2 # NoFill /\ f1 < f2 THEN m1 ELSE lo,
             hi   |-> IF f1 # NoFill /\ f1 >= f2 THEN m2 ELSE hi,
             best |-> p,
             done |-> f1 = NoFill /\ f2 = NoFill]
    BY <1>1, <1>2, <1>4, <1>6, <1>8, <2>1, Zenon DEF Narrow, third
  <2> QED BY <2>2, <2>3
<1>14. /\ f \in [0..n -> Int] /\ Bends(f, n) /\ \A x \in 0..n : f[x] \in Nat /\ f[x] <= m
       /\ Seen(f, best) = m \/ \E x \in lo..hi : f[x] = m
       /\ hi = n \/ Seen(f, best) >= f[hi]
  BY <1>1 DEF Worths, OnTrack
<1>15. CASE f1 < f2
  <2>1. Narrow(a, b, n, s) = [lo |-> m1, hi |-> hi, best |-> p, done |-> FALSE]
    <3>1. l = m1 /\ h = hi BY <1>13, <1>15
    <3> QED BY <1>13, <3>1
  <2>2. m1 < m2 BY <1>4, <1>5, <1>15
  <2>3. \A x \in 0..m1 : f[x] < m
    <3>1. \A x \in 0..m1 : f[x] <= f1 BY <1>5, <1>14, <1>15, <2>2, BetterBounds
    <3>2. f2 <= m BY <1>5, <1>14
    <3> QED BY <1>14, <1>15, <3>1, <3>2
  <2>4. Seen(f, p) = m \/ \E x \in m1..hi : f[x] = m
    <3>1. CASE Seen(f, best) = m BY <1>10, <1>11, <1>12, <3>1
    <3>2. CASE \E x \in lo..hi : f[x] = m
      <4>1. PICK x \in lo..hi : f[x] = m BY <3>2
      <4>2. ~ (x \in 0..m1) BY <2>3, <4>1
      <4>3. x \in m1..hi BY <4>2
      <4> QED BY <4>1, <4>3
    <3> QED BY <1>14, <3>1, <3>2
  <2>5. hi = n \/ Seen(f, p) >= f[hi] BY <1>7, <1>10, <1>11, <1>14
  <2>6. [lo |-> m1, hi |-> hi, best |-> p, done |-> FALSE] \in Searches(n)
    BY <1>4, <1>9 DEF Searches
  <2>7. OnTrack(f, n, m, Narrow(a, b, n, s)) BY <1>14, <2>1, <2>4, <2>5, <2>6 DEF OnTrack
  <2>8. hi - m1 = hi - lo - d BY <1>4
  <2> QED BY <1>1, <1>3, <2>1, <2>7, <2>8 DEF Narrows
<1>16. CASE ~ (f1 < f2)
  <2>1. Narrow(a, b, n, s) = [lo |-> lo, hi |-> m2, best |-> p, done |-> FALSE]
    <3>1. l = lo /\ h = m2 BY <1>13, <1>16
    <3> QED BY <1>13, <3>1
  <2>2. ASSUME NEW x \in (m2 + 1)..hi, f[x] = m PROVE Seen(f, p) = m \/ f[m2] = m
    <3>1. CASE hi - lo >= 3
      <4>1. m1 < m2 /\ x \in m2..n BY <1>2, <1>4, <3>1
      <4>2. f[m1] >= f[m2] BY <1>5, <1>16
      <4>3. \A z \in m2..n : f[z] <= f[m2] BY <1>14, <4>1, <4>2, BetterBounds
      <4> QED BY <1>14, <2>2, <4>1, <4>3
    <3>2. CASE ~ (hi - lo >= 3)
      <4>1. x = hi /\ m2 = hi - 1 BY <1>2, <1>4, <3>2
      <4>2. CASE hi = n
        <5>1. m <= f[m2] BY <2>2, <4>1, <4>2
        <5> QED BY <1>14, <5>1
      <4>3. CASE Seen(f, best) >= f[hi] BY <1>7, <1>10, <1>11, <1>12, <2>2, <4>1, <4>3
      <4> QED BY <1>14, <4>2, <4>3
    <3> QED BY <3>1, <3>2
  <2>3. Seen(f, p) = m \/ \E x \in lo..m2 : f[x] = m
    <3>1. CASE Seen(f, best) = m BY <1>10, <1>11, <1>12, <3>1
    <3>2. CASE \E x \in lo..hi : f[x] = m
      <4>1. PICK x \in lo..hi : f[x] = m BY <3>2
      <4>2. CASE x \in lo..m2 BY <4>1, <4>2
      <4>3. CASE x \in (m2 + 1)..hi
        <5>1. m2 \in lo..m2 BY <1>4
        <5> QED BY <2>2, <4>1, <4>3, <5>1
      <4>4. x \in lo..m2 \/ x \in (m2 + 1)..hi OBVIOUS
      <4> QED BY <4>2, <4>3, <4>4
    <3> QED BY <1>14, <3>1, <3>2
  <2>4. Seen(f, p) >= f[m2] BY <1>5, <1>9
  <2>5. [lo |-> lo, hi |-> m2, best |-> p, done |-> FALSE] \in Searches(n)
    BY <1>4, <1>9 DEF Searches
  <2>6. OnTrack(f, n, m, Narrow(a, b, n, s)) BY <1>14, <2>1, <2>3, <2>4, <2>5 DEF OnTrack
  <2>7. m2 - lo = hi - lo - d BY <1>4
  <2> QED BY <1>1, <1>3, <2>1, <2>6, <2>7 DEF Narrows
<1> QED BY <1>15, <1>16

\* The widths that the interval of a search of n units goes through down to two
\* neighbours.
Widths(width, n, steps) ==
    /\ width \in [0..steps -> Nat] /\ width[0] = n /\ width[steps] <= 1
    /\ \A k \in 1..steps : width[k] = Narrowed(width[k - 1])
LargestOf(f, n, m) == m \in Nat /\ (\A x \in 0..n : f[x] <= m) /\ \E x \in 0..n : f[x] = m

\* The boundary is a best one.
LEMMA BoundaryIsBest ==
    ASSUME NEW a, NEW b, NEW n \in Nat, NEW f, Worths(a, b, n, f), f[n] <= f[n - 1],
           NEW m, LargestOf(f, n, m), NEW steps \in Nat, NEW width, Widths(width, n, steps)
    PROVE  Boundary(a, b, n, steps) \in 0..n /\ f[Boundary(a, b, n, steps)] = m
<1>1. PICK search : SearchOf(a, b, n, steps, search) BY BoundarySearch
<1> DEFINE G == {k \in 0..steps : /\ OnTrack(f, n, m, search[k])
                                  /\ search[k].hi - search[k].lo = width[k]}
<1>2. m \in Nat BY DEF LargestOf
<1>3. 0 \in G
  <2>1. PICK s \in Searches(n) : /\ s = search[0]
                                /\ s.lo = 0 /\ s.hi = n /\ s.best = NoFill /\ s.done = FALSE
    BY <1>1 DEF SearchOf
  <2>2. OnTrack(f, n, m, s) BY <2>1 DEF OnTrack, LargestOf
  <2>3. s.hi - s.lo = width[0] BY <2>1 DEF Widths
  <2> QED BY <2>1, <2>2, <2>3
<1>4. ASSUME NEW k \in 1..steps, k - 1 \in G PROVE k \in G
  <2>1. PICK s \in Searches(n), w \in Nat :
          /\ s = search[k - 1] /\ OnTrack(f, n, m, s) /\ s.hi - s.lo = w /\ w = width[k - 1]
    BY <1>4 DEF OnTrack, Widths
  <2>2. search[k] = Advance(a, b, n, s) /\ width[k] = Narrowed(w)
    BY <1>1, <2>1 DEF SearchOf, Widths
  <2>3. s.done = FALSE BY <2>1 DEF OnTrack
  <2>4. CASE w <= 1
    <3>1. search[k] = s BY <2>1, <2>2, <2>4 DEF Advance
    <3>2. width[k] = w BY <2>2, <2>4 DEF Narrowed
    <3> QED BY <2>1, <3>1, <3>2
  <2>5. CASE ~ (w <= 1)
    <3>1. search[k] = Narrow(a, b, n, s) BY <2>1, <2>2, <2>3, <2>5 DEF Advance
    <3>2. Searching(s) BY <2>1, <2>5 DEF Searching
    <3>3. OnTrack(f, n, m, s) BY <2>1
    <3>4. Narrows(f, n, m, s, Narrow(a, b, n, s)) BY <1>2, <3>2, <3>3, NarrowKeepsTrack
    <3> QED BY <2>1, <2>2, <3>1, <3>4 DEF Narrows
  <2> QED BY <2>4, <2>5
<1> HIDE DEF G
<1>5. 0..steps \subseteq G BY <1>3, <1>4, CountUp
<1>6. PICK s \in Searches(n) :
        s = search[steps] /\ OnTrack(f, n, m, s) /\ s.hi - s.lo = width[steps]
  BY <1>5 DEF G, OnTrack
<1>7. PICK lo \in 0..n, hi \in 0..n, best \in {NoFill} \cup 0..n :
        lo = s.lo /\ hi = s.hi /\ best = s.best /\ hi - lo <= 1
  BY <1>6 DEF Searches, Widths
<1>8. PICK q : q = Better(a, b, n, best, lo) OBVIOUS
<1>9. /\ q \in {best, lo} /\ Seen(f, q) >= Seen(f, best) /\ Seen(f, q) >= f[lo]
      /\ Seen(f, best) \in Int
  <2>1. Prefers(f, best, lo, q) BY <1>8, BetterIsBetter
  <2> QED BY <2>1 DEF Prefers
<1>10. PICK p : p = Better(a, b, n, q, hi) OBVIOUS
<1>11. q \in {NoFill} \cup 0..n BY <1>9
<1>12. /\ p \in {q, hi} /\ Seen(f, p) >= Seen(f, q) /\ Seen(f, p) >= f[hi] /\ Seen(f, q) \in Int
  <2>1. Prefers(f, q, hi, p) BY <1>10, <1>11, BetterIsBetter
  <2> QED BY <2>1 DEF Prefers
<1>13. p = Boundary(a, b, n, steps)
  BY <1>1, <1>6, <1>7, <1>8, <1>10 DEF SearchOf, BestSeen
<1>14. p \in {NoFill} \cup 0..n BY <1>11, <1>12
<1>15. Seen(f, p) \in Int BY <1>14 DEF Seen, NoFill, Worths
<1>16. Seen(f, p) >= m
  <2>1. f[lo] \in Int /\ f[hi] \in Int BY DEF Worths
  <2>2. CASE Seen(f, best) = m BY <1>2, <1>9, <1>12, <1>15, <2>2
  <2>3. CASE \E x \in lo..hi : f[x] = m
    <3>1. PICK x \in lo..hi : f[x] = m BY <2>3
    <3>2. x = lo \/ x = hi BY <1>7, <3>1
    <3> QED BY <1>2, <1>9, <1>12, <1>15, <2>1, <3>1, <3>2
  <2> QED BY <1>6, <1>7, <2>2, <2>3 DEF OnTrack
<1>17. p # NoFill
  <2>1. Seen(f, NoFill) = NoFill BY DEF Seen
  <2> QED BY <1>2, <1>16, <2>1 DEF NoFill
<1>18. p \in 0..n BY <1>14, <1>17
<1>19. Seen(f, p) = f[p] BY <1>17 DEF Seen
<1>20. f[p] <= m BY <1>18 DEF LargestOf
<1> QED BY <1>2, <1>13, <1>15, <1>16, <1>18, <1>19, <1>20

-----------------------------------------------------------------------------
(* An order over two concave curves                                         *)

\* What a concave curve returns for each part bends, and it has no more to fill.
LEMMA ConcaveBends ==
    ASSUME NEW n \in Nat, NEW c, Concave(c, n)
    PROVE  /\ \A f : f = [x \in 0..n |-> Out(c, x)] => f \in [0..n -> Nat] /\ Bends(f, n)
           /\ \A x \in 0..n : Out(c, x) \in Nat
           /\ \A x \in Nat : Out(c, x) \in Nat \cup {NoFill}
<1>1. \A x \in 0..n : Out(c, x) \in Nat
  <2> TAKE x \in 0..n
  <2>1. CASE x = 0 BY <2>1 DEF Out
  <2>2. CASE x # 0
    <3>1. x \in 1..n BY <2>2
    <3>2. Out(c, x) = c.out[x] BY <2>2, <3>1 DEF Out, Concave
    <3> QED BY <3>1, <3>2 DEF Concave
  <2> QED BY <2>1, <2>2
<1>2. ASSUME NEW f, f = [x \in 0..n |-> Out(c, x)] PROVE f \in [0..n -> Nat] /\ Bends(f, n)
  <2>1. \A x \in 1..(n - 1) :
          f[x + 1] = Out(c, x + 1) /\ f[x] = Out(c, x) /\ f[x - 1] = Out(c, x - 1)
    BY <1>2
  <2>2. Bends(f, n) BY <2>1 DEF Bends, Concave
  <2> QED BY <1>1, <1>2, <2>2
<1>3. \A x \in Nat : x \notin 0..n => Out(c, x) = NoFill
  <2> SUFFICES ASSUME NEW x \in Nat, x \notin 0..n PROVE Out(c, x) = NoFill OBVIOUS
  <2>1. x # 0 /\ x \notin 1..n OBVIOUS
  <2> QED BY <2>1 DEF Out, Concave
<1> QED BY <1>1, <1>2, <1>3

\* So do the worths of its divisions with another such curve.
LEMMA WorthsBend ==
    ASSUME NEW n \in Nat, NEW a, NEW b, Concave(a, n), Concave(b, n),
           NEW f, f = [x \in 0..n |-> Out(a, x) + Out(b, n - x)]
    PROVE  Worths(a, b, n, f)
<1>1. \A x \in 0..n : Out(a, x) \in Nat /\ Out(b, x) \in Nat BY ConcaveBends
<1>2. \A x \in 0..n : f[x] = Out(a, x) + Out(b, n - x) /\ f[x] \in Nat
  <2> TAKE x \in 0..n
  <2>1. n - x \in 0..n OBVIOUS
  <2>2. Out(a, x) \in Nat /\ Out(b, n - x) \in Nat BY <1>1, <2>1
  <2> QED BY <2>2
<1>3. \A x \in 0..n : Worth(a, b, n, x) = f[x]
  <2> TAKE x \in 0..n
  <2>1. n - x \in 0..n /\ x # NoFill BY DEF NoFill
  <2>2. Out(a, x) # NoFill /\ Out(b, n - x) # NoFill BY <1>1, <2>1 DEF NoFill
  <2> QED BY <1>2, <2>1, <2>2 DEF Worth
<1>4. Bends(f, n)
  <2> SUFFICES ASSUME NEW x \in 1..(n - 1) PROVE f[x + 1] - f[x] <= f[x] - f[x - 1]
    BY DEF Bends
  <2>1. PICK y \in 1..(n - 1) : /\ y = n - x /\ n - (x + 1) = y - 1 /\ n - (x - 1) = y + 1
                                /\ {x, x + 1, x - 1, y, y + 1, y - 1} \subseteq 0..n
    OBVIOUS
  <2>2. PICK p, q, r \in Nat : p = Out(a, x - 1) /\ q = Out(a, x) /\ r = Out(a, x + 1)
    BY <1>1, <2>1
  <2>3. PICK t, u, v \in Nat : t = Out(b, y - 1) /\ u = Out(b, y) /\ v = Out(b, y + 1)
    BY <1>1, <2>1
  <2>4. r - q <= q - p BY <2>2 DEF Concave
  <2>5. v - u <= u - t BY <2>3 DEF Concave
  <2>6. f[x] = q + u /\ f[x + 1] = r + t /\ f[x - 1] = p + v BY <1>2, <2>1, <2>2, <2>3
  <2> QED BY <2>4, <2>5, <2>6
<1>5. f \in [0..n -> Nat] BY <1>2
<1> QED BY <1>3, <1>4, <1>5 DEF Worths

\* Any units return more at the first venue than as many at the second.
FirstLeads(a, b, n) ==
    \A x \in 0..n, k \in 1..n : x + k <= n => Out(a, x + k) - Out(a, x) > Out(b, k)

\* So it is when the last unit of the first returns more than the first of the second.
LEMMA LastUnitLeads ==
    ASSUME NEW n \in Nat \ {0}, NEW a, NEW b, Concave(a, n), Concave(b, n),
           Out(a, n) - Out(a, n - 1) > Out(b, 1)
    PROVE  FirstLeads(a, b, n)
<1> SUFFICES ASSUME NEW x \in 0..n
             PROVE  \A k \in 1..n : x + k <= n => Out(a, x + k) - Out(a, x) > Out(b, k)
  BY DEF FirstLeads
<1>1. PICK f, g : f = [y \in 0..n |-> Out(a, y)] /\ g = [y \in 0..n |-> Out(b, y)] OBVIOUS
<1>2. f \in [0..n -> Int] /\ Bends(f, n) /\ g \in [0..n -> Int] /\ Bends(g, n)
  <2>1. f \in [0..n -> Nat] /\ Bends(f, n) /\ g \in [0..n -> Nat] /\ Bends(g, n)
    BY <1>1, ConcaveBends
  <2> QED BY <2>1
<1>3. f[n] - f[n - 1] > g[1] /\ g[0] = 0 BY <1>1 DEF Out
<1>4. \A y \in 1..n : f[y] - f[y - 1] > g[1] /\ g[y] - g[y - 1] <= g[1]
  <2> TAKE y \in 1..n
  <2>1. f[n] - f[n - 1] <= f[y] - f[y - 1]
    <3>1. n \in y..n OBVIOUS
    <3> QED BY <1>2, <3>1, GainsFall
  <2>2. g[y] - g[y - 1] <= g[1] - g[1 - 1]
    <3>1. 1 \in 1..n /\ y \in 1..n OBVIOUS
    <3> QED BY <1>2, <3>1, GainsFall
  <2>3. g[1 - 1] = 0 BY <1>3
  <2>4. {f[n], f[n - 1], f[y], f[y - 1], g[y], g[y - 1], g[1]} \subseteq Int BY <1>2
  <2> QED BY <1>3, <2>1, <2>2, <2>3, <2>4
<1> DEFINE G == {k \in 0..(n - x) : /\ f[x + k] - f[x] >= g[k]
                                    /\ k # 0 => f[x + k] - f[x] > g[k]}
<1>5. PICK m \in Nat : m = n - x OBVIOUS
<1>6. 0 \in G
  <2>1. x + 0 = x /\ f[x] \in Int BY <1>2
  <2> QED BY <1>3, <2>1
<1>7. \A k \in 1..m : k - 1 \in G => k \in G
  <2> SUFFICES ASSUME NEW k \in 1..m, k - 1 \in G PROVE k \in G OBVIOUS
  <2>1. PICK y \in 1..n : y = x + k /\ y - 1 = x + (k - 1) BY <1>5
  <2>2. k \in 1..n BY <1>5
  <2>3. f[y - 1] - f[x] >= g[k - 1] BY <2>1
  <2>4. f[y] - f[y - 1] > g[1] /\ g[k] - g[k - 1] <= g[1] BY <1>4, <2>2
  <2>5. {f[y], f[y - 1], f[x], g[k], g[k - 1], g[1]} \subseteq Int
    <3>1. {y, y - 1, x, k, k - 1, 1} \subseteq 0..n BY <2>1, <2>2
    <3> QED BY <1>2, <3>1
  <2>6. f[y] - f[x] > g[k] BY <2>3, <2>4, <2>5
  <2> QED BY <1>5, <2>1, <2>5, <2>6
<1> HIDE DEF G
<1>8. 0..m \subseteq G BY <1>6, <1>7, CountUp
<1>9. \A k \in 1..m : f[x + k] - f[x] > g[k]
  <2>1. \A k \in G : k # 0 => f[x + k] - f[x] > g[k] BY DEF G
  <2> QED BY <1>8, <2>1
<1>10. ASSUME NEW k \in 1..n, x + k <= n PROVE Out(a, x + k) - Out(a, x) > Out(b, k)
  <2>1. k \in 1..m /\ x + k \in 0..n /\ k \in 0..n BY <1>5, <1>10
  <2>2. f[x + k] - f[x] > g[k] BY <1>9, <2>1
  <2>3. f[x + k] = Out(a, x + k) /\ f[x] = Out(a, x) /\ g[k] = Out(b, k) BY <1>1, <2>1
  <2> QED BY <2>2, <2>3
<1> QED BY <1>10

\* All of x at the first of two venues.
ToFirst(x) == [i \in 1..2 |-> IF i = 1 THEN x ELSE 0]

\* A chunk is placed at the first venue when that one leads.
LEMMA FirstTakesTheChunk ==
    ASSUME NEW n \in Nat, NEW a, NEW b, Concave(a, n), Concave(b, n), FirstLeads(a, b, n),
           NEW x \in Nat, NEW chunk \in Nat, x + chunk <= n
    PROVE  Place(<<a, b>>, 2, ToFirst(x), chunk) = ToFirst(x + chunk)
<1>1. PICK curves : curves = <<a, b>> OBVIOUS
<1>2. DOMAIN curves = {1, 2} /\ curves[1] = a /\ curves[2] = b BY <1>1
<1>3. PICK at : at = ToFirst(x) OBVIOUS
<1>4. at = [i \in 1..2 |-> IF i = 1 THEN x ELSE 0] /\ DOMAIN at = {1, 2} BY <1>3 DEF ToFirst
<1>5. at[1] = x /\ at[2] = 0 /\ at # <<>> BY <1>4
<1>6. CASE chunk = 0
  <2>1. Place(curves, 2, at, chunk) = at BY <1>6 DEF Place
  <2>2. x + chunk = x BY <1>6
  <2> QED BY <1>1, <1>3, <2>1, <2>2
<1>7. CASE chunk # 0
  <2>1. PICK gains : gains = Gains(curves, at, chunk, 2) OBVIOUS
  <2>2. PICK p, q, r \in Nat : /\ p = Out(a, x) /\ q = Out(a, x + chunk) /\ r = Out(b, chunk)
                               /\ q - p > r
    <3>1. x \in 0..n /\ x + chunk \in 0..n /\ chunk \in 1..n BY <1>7
    <3>2. Out(a, x) \in Nat /\ Out(a, x + chunk) \in Nat /\ Out(b, chunk) \in Nat
      BY <3>1, ConcaveBends
    <3>3. Out(a, x + chunk) - Out(a, x) > Out(b, chunk) BY <3>1 DEF FirstLeads
    <3> QED BY <3>2, <3>3
  <2>3. Usable(curves) = {1, 2} BY <1>2 DEF Usable, Concave
  <2>4. Cardinality(Opened(at)) < 2
    <3>1. PICK S : S = Opened(at) OBVIOUS
    <3>2. S = {} \/ S = {1} BY <1>4, <1>5, <3>1 DEF Opened
    <3>3. Cardinality(S) <= 1
      <4>1. CASE S = {} BY <4>1, FS_EmptySet
      <4>2. CASE S = {1} BY <4>2, FS_Singleton
      <4> QED BY <3>2, <4>1, <4>2
    <3>4. Cardinality(S) \in Nat
      <4>1. IsFiniteSet({}) /\ IsFiniteSet({1}) BY FS_EmptySet, FS_Singleton
      <4> QED BY <3>2, <4>1, FS_CardinalityType
    <3> QED BY <3>1, <3>3, <3>4
  <2>5. 0 + chunk = chunk /\ Out(b, 0) = 0 BY DEF Out
  <2>6. q # NoFill /\ r # NoFill BY DEF NoFill
  <2>7. gains = [i \in {1, 2} |-> Out(curves[i], at[i] + chunk) - Out(curves[i], at[i])]
    <3>1. \A v \in {1, 2} : Out(curves[v], at[v] + chunk) # NoFill
      BY <1>2, <1>5, <2>2, <2>5, <2>6
    <3>2. {v \in Usable(curves) : /\ at[v] > 0 \/ Cardinality(Opened(at)) < 2
                                  /\ Out(curves[v], at[v] + chunk) # NoFill} = {1, 2}
      BY <2>3, <2>4, <3>1
    <3> QED BY <2>1, <3>2, Zenon DEF Gains
  <2>8. DOMAIN gains = {1, 2} /\ gains[1] = q - p /\ gains[2] = r
    <3>1. gains[1] = Out(a, x + chunk) - Out(a, x) BY <1>2, <1>5, <2>7
    <3>2. gains[2] = Out(b, chunk) - 0 BY <1>2, <1>5, <2>5, <2>7
    <3> QED BY <2>2, <2>7, <3>1, <3>2
  <2>9. FirstBest(gains) = 1
    <3>1. IsFiniteSet({1, 2})
      <4>1. IsFiniteSet({1}) /\ {1, 2} = {1} \cup {2} BY FS_Singleton
      <4> QED BY <4>1, FS_AddElement
    <3>2. {1, 2} \subseteq Nat /\ {1, 2} # {} OBVIOUS
    <3>3. \A i \in {1, 2} : gains[i] \in Int BY <2>8
    <3>4. /\ FirstBest(gains) \in DOMAIN gains
          /\ \A j \in DOMAIN gains : gains[j] <= gains[FirstBest(gains)]
      BY <2>8, <3>1, <3>2, <3>3, FirstOfTheBest
    <3>5. PICK i \in {1, 2} : i = FirstBest(gains) /\ gains[1] <= gains[i] BY <2>8, <3>4
    <3>6. ~ (gains[1] <= gains[2]) BY <2>2, <2>8
    <3> QED BY <3>5, <3>6
  <2>10. Place(curves, 2, at, chunk) = [at EXCEPT ![1] = @ + chunk]
    <3>1. DOMAIN gains # {} BY <2>8
    <3>2. Place(curves, 2, at, chunk)
            = IF at = <<>> \/ chunk = 0 THEN at
              ELSE IF DOMAIN gains = {} THEN <<>>
              ELSE [at EXCEPT ![FirstBest(gains)] = @ + chunk]
      BY <2>1, Zenon DEF Place
    <3> QED BY <1>5, <1>7, <2>9, <3>1, <3>2
  <2>11. [at EXCEPT ![1] = @ + chunk] = ToFirst(x + chunk) BY <1>4 DEF ToFirst
  <2> QED BY <1>1, <1>3, <2>10, <2>11
<1> QED BY <1>6, <1>7

\* So every chunk is, and the second venue gets none.
LEMMA FirstTakesAll ==
    ASSUME NEW n \in Nat, NEW a, NEW b, Concave(a, n), Concave(b, n), FirstLeads(a, b, n),
           NEW parts, IsFiniteSet(parts), \A s \in SUBSET parts : s # {} => Max(s) \in s,
           NEW chunks \in [parts -> Nat], SumFunctionOnSet(chunks, parts) <= n
    PROVE  PlaceParts(<<a, b>>, 2, chunks, parts) = ToFirst(SumFunctionOnSet(chunks, parts))
<1>1. PICK curves : curves = <<a, b>> OBVIOUS
<1>2. DOMAIN curves = 1..2 BY <1>1
<1> DEFINE base == [i \in DOMAIN curves |-> 0]
           Step(h, s) == IF s = {} THEN base
                         ELSE Place(curves, 2, h[s \ {Max(s)}], chunks[Max(s)])
           Iter(h) == h = [s \in SUBSET parts |-> Step(h, s)]
           iter == CHOOSE h : Iter(h)
           g == [s \in SUBSET parts |-> ToFirst(SumFunctionOnSet(chunks, s))]
<1>3. PlaceParts(curves, 2, chunks, parts) = iter[parts] BY DEF PlaceParts
<1>4. base = ToFirst(0) BY <1>2 DEF ToFirst
<1>5. ASSUME NEW s \in SUBSET parts, s # {}
      PROVE  /\ Max(s) \in s /\ s \ {Max(s)} \in SUBSET parts
             /\ Place(curves, 2, g[s \ {Max(s)}], chunks[Max(s)]) = g[s]
  <2>1. PICK k \in s, t \in SUBSET parts : k = Max(s) /\ t = s \ {k} BY <1>5
  <2>2. PICK c \in Nat : c = chunks[k] OBVIOUS
  <2>3. IsFiniteSet(s) /\ IsFiniteSet(t) BY FS_Subset
  <2>4. PICK sum \in Nat : sum = SumFunctionOnSet(chunks, t)
    <3>1. \A x \in t : chunks[x] \in Nat OBVIOUS
    <3> QED BY <2>3, <3>1, SumType
  <2>5. SumFunctionOnSet(chunks, s) = c + sum
    <3>1. \A x \in s : chunks[x] \in Int OBVIOUS
    <3> QED BY <2>1, <2>2, <2>3, <2>4, <3>1, SumElement
  <2>6. sum + c <= n
    <3>1. PICK rest \in SUBSET parts : rest = parts \ s OBVIOUS
    <3>2. IsFiniteSet(rest) /\ s \cap rest = {} /\ s \cup rest = parts BY <3>1, FS_Subset
    <3>3. \A x \in rest : chunks[x] \in Nat OBVIOUS
    <3>4. SumFunctionOnSet(chunks, rest) \in Nat BY <3>2, <3>3, SumType
    <3>5. \A x \in s \cup rest : chunks[x] \in Int OBVIOUS
    <3>6. SumFunctionOnSet(chunks, s \cup rest)
            = SumFunctionOnSet(chunks, s) + SumFunctionOnSet(chunks, rest)
      BY <2>3, <3>2, <3>5, SumUnion
    <3>7. SumFunctionOnSet(chunks, parts) = (c + sum) + SumFunctionOnSet(chunks, rest)
      BY <2>5, <3>2, <3>6
    <3> QED BY <3>4, <3>7
  <2>7. Place(curves, 2, ToFirst(sum), c) = ToFirst(sum + c)
    BY <1>1, <2>6, FirstTakesTheChunk
  <2>8. sum + c = c + sum OBVIOUS
  <2>9. g[t] = ToFirst(sum) /\ g[s] = ToFirst(sum + c) BY <2>4, <2>5, <2>8
  <2> HIDE DEF g
  <2> QED BY <2>1, <2>2, <2>7, <2>9
<1>6. g[{}] = base BY <1>4, SumEmpty
<1>7. Iter(iter)
  <2>1. \A s \in SUBSET parts : g[s] = Step(g, s)
    <3> HIDE DEF g, base
    <3> QED BY <1>5, <1>6
  <2>2. g = [s \in SUBSET parts |-> g[s]] OBVIOUS
  <2> HIDE DEF g
  <2>3. Iter(g) BY <2>1, <2>2
  <2> QED BY <2>3
<1> HIDE DEF iter, g
<1>8. \A s \in SUBSET parts : iter[s] = Step(iter, s) BY <1>7
<1> DEFINE G == {s \in SUBSET parts : iter[s] = g[s]}
<1>9. {} \in G BY <1>6, <1>8
<1>10. ASSUME NEW s \in SUBSET parts, s # {}
       PROVE  \E k \in s : s \ {k} \in G => s \in G
  <2>1. PICK k \in s : k = Max(s) BY <1>5, <1>10
  <2> SUFFICES ASSUME s \ {k} \in G PROVE s \in G BY <2>1
  <2>2. iter[s \ {k}] = g[s \ {k}] OBVIOUS
  <2>3. iter[s] = Place(curves, 2, iter[s \ {k}], chunks[k]) BY <1>8, <1>10, <2>1
  <2>4. Place(curves, 2, g[s \ {k}], chunks[k]) = g[s] BY <1>5, <1>10, <2>1
  <2>5. iter[s] = g[s] BY <2>2, <2>3, <2>4
  <2> QED BY <2>5
<1> HIDE DEF G
<1>11. IsFiniteSet(parts) OBVIOUS
<1>12. SUBSET parts \subseteq G BY <1>9, <1>10, <1>11, PartByPart
<1>13. iter[parts] = g[parts]
  <2>1. parts \in G BY <1>12
  <2> QED BY <2>1 DEF G
<1> QED BY <1>1, <1>3, <1>13 DEF g

\* Two venues are in use after the allocation: what it returns is a division.
TwoInUse(curves, n, opts) ==
    /\ opts.max_legs = 2 /\ opts.granularity \in Nat \ {0} /\ opts.steps \in Nat
    /\ Cardinality(Opened(Allocate(curves, n, opts))) = 2

\* Then the first venue does not lead.
LEMMA InUseNoneLeads ==
    ASSUME NEW n \in Nat, NEW a, NEW b, Concave(a, n), Concave(b, n), NEW opts,
           TwoInUse(<<a, b>>, n, opts)
    PROVE  ~ FirstLeads(a, b, n)
<1> SUFFICES ASSUME FirstLeads(a, b, n) PROVE FALSE OBVIOUS
<1>1. PICK g \in Nat \ {0} : g = opts.granularity BY DEF TwoInUse
<1>2. PICK chunks \in [1..g -> Nat] :
        chunks = Chunks(n, g) /\ SumFunctionOnSet(chunks, 1..g) = n
  BY ChunksAreTheOrder
<1>3. PICK parts : parts = 1..g OBVIOUS
<1>4. IsFiniteSet(parts) BY <1>3, FS_Interval
<1>5. \A s \in SUBSET parts : s # {} => Max(s) \in s BY <1>3, LargestPart
<1>6. chunks \in [parts -> Nat] /\ SumFunctionOnSet(chunks, parts) <= n BY <1>2, <1>3
<1>7. PlaceParts(<<a, b>>, 2, chunks, parts) = ToFirst(SumFunctionOnSet(chunks, parts))
  BY <1>4, <1>5, <1>6, FirstTakesAll
<1>8. PlaceAll(<<a, b>>, 2, chunks) = PlaceParts(<<a, b>>, 2, chunks, 1..g)
  <2>1. DOMAIN chunks = 1..g OBVIOUS
  <2> QED BY <2>1 DEF PlaceAll, PlaceParts, FoldLeft, MapThenFoldSet
<1>9. Allocate(<<a, b>>, n, opts) = ToFirst(n)
  BY <1>1, <1>2, <1>3, <1>7, <1>8 DEF Allocate, TwoInUse
<1>10. PICK S : S = Opened(ToFirst(n)) OBVIOUS
<1>11. S = {} \/ S = {1} BY <1>10 DEF Opened, ToFirst
<1>12. Cardinality(S) # 2
  <2>1. CASE S = {} BY <2>1, FS_EmptySet
  <2>2. CASE S = {1}
    <3>1. Cardinality({1}) = 1 BY FS_Singleton
    <3> QED BY <2>2, <3>1
  <2> QED BY <1>11, <2>1, <2>2
<1> QED BY <1>9, <1>10, <1>12 DEF TwoInUse

\* One pair is refined once in a sweep.
LEMMA OnePairRefined ==
    ASSUME NEW curves, NEW steps, NEW s, NEW pairs, DOMAIN pairs = 1..1
    PROVE  RefineAll(curves, steps, s, pairs) = RefinePair(curves, steps, s, pairs[1])
<1>1. PICK parts : parts = 1..1 OBVIOUS
<1>2. parts = {1} BY <1>1
<1>3. RefineAll(curves, steps, s, pairs) = RefineParts(curves, steps, s, pairs, parts)
  BY <1>1 DEF RefineAll, RefineParts, FoldLeft, MapThenFoldSet
<1> DEFINE Step(h, t) == IF t = {} THEN s
                         ELSE RefinePair(curves, steps, h[t \ {Max(t)}], pairs[Max(t)])
           Iter(h) == h = [t \in SUBSET parts |-> Step(h, t)]
           iter == CHOOSE h : Iter(h)
           once == RefinePair(curves, steps, s, pairs[1])
           g == [t \in SUBSET parts |-> IF t = {} THEN s ELSE once]
<1>4. RefineParts(curves, steps, s, pairs, parts) = iter[parts] BY DEF RefineParts
<1>5. \A t \in SUBSET parts : t # {} => t = {1} /\ Max(t) = 1 /\ t \ {Max(t)} = {}
  <2> TAKE t \in SUBSET parts
  <2> SUFFICES ASSUME t # {} PROVE t = {1} /\ Max(t) = 1 /\ t \ {Max(t)} = {} OBVIOUS
  <2>1. t = {1} BY <1>2
  <2>2. Max(t) \in t
    <3>1. IsFiniteSet(t) /\ t \subseteq Int BY <2>1, FS_Singleton
    <3> QED BY <3>1, MaxIsElement
  <2> QED BY <2>1, <2>2
<1>6. {} \in SUBSET parts /\ parts \in SUBSET parts /\ parts # {} BY <1>2
<1>7. Iter(iter)
  <2>1. g[{}] = s BY <1>6
  <2>2. \A t \in SUBSET parts : g[t] = Step(g, t)
    <3> TAKE t \in SUBSET parts
    <3>1. CASE t = {} BY <3>1
    <3>2. CASE t # {}
      <4>1. g[t] = once BY <3>2
      <4> HIDE DEF g
      <4> QED BY <1>5, <2>1, <3>2, <4>1
    <3> QED BY <3>1, <3>2
  <2>3. g = [t \in SUBSET parts |-> g[t]] OBVIOUS
  <2> HIDE DEF g
  <2>4. Iter(g) BY <2>2, <2>3
  <2> QED BY <2>4
<1> HIDE DEF iter
<1>8. \A t \in SUBSET parts : iter[t] = Step(iter, t) BY <1>7
<1>9. iter[{}] = s BY <1>6, <1>8
<1>10. iter[parts] = RefinePair(curves, steps, iter[parts \ {Max(parts)}], pairs[Max(parts)])
  BY <1>6, <1>8
<1>11. iter[parts] = once BY <1>5, <1>6, <1>9, <1>10
<1> QED BY <1>3, <1>4, <1>11

\* Two legs make one pair.
LEMMA TwoLegsOnePair ==
    /\ DOMAIN PairOrder({1, 2}) = 1..1 /\ PairOrder({1, 2})[1] = <<1, 2>>
<1>1. Pairs({1, 2}) = {<<1, 2>>}
  <2>1. \A p \in Pairs({1, 2}) : p = <<1, 2>>
    <3> TAKE p \in Pairs({1, 2})
    <3>1. p = <<p[1], p[2]>> /\ p[1] \in {1, 2} /\ p[2] \in {1, 2} BY PairParts
    <3>2. p[1] < p[2] BY DEF Pairs
    <3>3. p[1] = 1 /\ p[2] = 2 BY <3>1, <3>2
    <3> QED BY <3>1, <3>3
  <2>2. <<1, 2>> \in Pairs({1, 2}) BY DEF Pairs
  <2> QED BY <2>1, <2>2
<1>2. Cardinality(Pairs({1, 2})) = 1 BY <1>1, FS_Singleton
<1>3. IsFiniteSet({1, 2})
  <2>1. IsFiniteSet({1}) /\ {1, 2} = {1} \cup {2} BY FS_Singleton
  <2> QED BY <2>1, FS_AddElement
<1>4. PairOrder({1, 2}) \in [1..Cardinality(Pairs({1, 2})) -> Pairs({1, 2})]
  BY <1>3, PairsAreListed
<1>5. PairOrder({1, 2}) \in [1..1 -> {<<1, 2>>}] BY <1>1, <1>2, <1>4
<1>6. 1 \in 1..1 OBVIOUS
<1> QED BY <1>5, <1>6

\* The two sums over two venues.
LEMMA SumOfTwo ==
    ASSUME NEW f, f[1] \in Int, f[2] \in Int
    PROVE  SumFunctionOnSet(f, 1..2) = f[1] + f[2]
<1>1. PICK S, T, R : S = 1..2 /\ T = {2} /\ R = {} OBVIOUS
<1>2. S = {1, 2} /\ S \ {1} = T /\ T \ {2} = R BY <1>1
<1>3. IsFiniteSet(T) /\ IsFiniteSet(S)
  <2>1. IsFiniteSet({2}) BY FS_Singleton
  <2>2. S = T \cup {1} BY <1>1, <1>2
  <2> QED BY <1>1, <2>1, <2>2, FS_AddElement
<1>4. \A x \in S : f[x] \in Int BY <1>2
<1>5. \A x \in S : SumFunctionOnSet(f, S) = f[x] + SumFunctionOnSet(f, S \ {x})
  BY <1>3, <1>4, SumElement
<1>6. \A x \in T : SumFunctionOnSet(f, T) = f[x] + SumFunctionOnSet(f, T \ {x})
  <2>1. \A x \in T : f[x] \in Int BY <1>1
  <2> QED BY <1>3, <2>1, SumElement
<1>7. SumFunctionOnSet(f, R) = 0 BY <1>1, SumEmpty
<1>8. SumFunctionOnSet(f, S) = f[1] + SumFunctionOnSet(f, T) BY <1>2, <1>5
<1>9. SumFunctionOnSet(f, T) = f[2] + SumFunctionOnSet(f, R) BY <1>1, <1>2, <1>6
<1> QED BY <1>1, <1>7, <1>8, <1>9

\* What a search for the largest worth m needs.
Searchable(a, b, n, f, m, steps) ==
    /\ n \in Nat /\ n > 1 /\ Concave(a, n) /\ Concave(b, n) /\ steps \in Nat
    /\ f = [x \in 0..n |-> Out(a, x) + Out(b, n - x)] /\ LargestOf(f, n, m)
    /\ f[n] <= f[n - 1]
    /\ \E width : Widths(width, n, steps)

TwoVenues(a, b, n, curves) ==
    /\ curves = <<a, b>> /\ DOMAIN curves = 1..2 /\ curves[1] = a /\ curves[2] = b
    /\ Venues(curves) /\ Usable(curves) = {1, 2}

\* Two curves are two venues.
LEMMA CurvesAreVenues ==
    ASSUME NEW n \in Nat, NEW a, NEW b, Concave(a, n), Concave(b, n)
    PROVE  TwoVenues(a, b, n, <<a, b>>)
<1>1. PICK curves : curves = <<a, b>> OBVIOUS
<1>2. DOMAIN curves = 1..2 /\ curves[1] = a /\ curves[2] = b /\ 1..2 = {1, 2} BY <1>1
<1>3. Usable(curves) = {1, 2} BY <1>2 DEF Usable, Concave
<1>4. \A x \in Nat : Out(a, x) \in Nat \cup {NoFill} /\ Out(b, x) \in Nat \cup {NoFill}
  BY ConcaveBends
<1>5. \A i \in DOMAIN curves, x \in Nat : Out(curves[i], x) \in Nat \cup {NoFill}
  BY <1>2, <1>4
<1>6. IsFiniteSet(DOMAIN curves)
  <2>1. IsFiniteSet({1}) /\ {1, 2} = {1} \cup {2} BY FS_Singleton
  <2>2. IsFiniteSet({1, 2}) BY <2>1, FS_AddElement
  <2> QED BY <1>2, <2>2
<1>7. Venues(curves) BY <1>2, <1>5, <1>6 DEF Venues
<1> QED BY <1>1, <1>2, <1>3, <1>7 DEF TwoVenues

\* A division is worth what it returns.
Weighs(s, f, n) ==
    /\ s.at[1] \in 0..n /\ s.at[2] = n - s.at[1] /\ s.out = f[s.at[1]]

LEMMA DivisionIsWorth ==
    ASSUME NEW n \in Nat, NEW a, NEW b, NEW curves, TwoVenues(a, b, n, curves),
           NEW f, f = [x \in 0..n |-> Out(a, x) + Out(b, n - x)],
           NEW legs, NEW s \in Divisions(curves, legs, n)
    PROVE  Weighs(s, f, n)
<1>1. PICK at : /\ at = s.at /\ at \in [1..2 -> Nat] /\ Given(curves, at) = n
                /\ s.out = Returned(curves, at)
                /\ \A i \in 1..2 : Out(curves[i], at[i]) # NoFill
  BY DEF Divisions, TwoVenues
<1>2. PICK x, y \in Nat : x = at[1] /\ y = at[2] BY <1>1
<1>3. x + y = n
  <2>1. SumFunctionOnSet(at, 1..2) = x + y
    <3>1. at[1] \in Int /\ at[2] \in Int BY <1>2
    <3> QED BY <1>2, <3>1, SumOfTwo
  <2> QED BY <1>1, <2>1 DEF Given, TwoVenues
<1>4. x \in 0..n /\ y = n - x BY <1>3
<1>5. PICK g : g = Returns(curves, at) OBVIOUS
<1>6. g[1] = Out(a, x) /\ g[2] = Out(b, y) BY <1>2, <1>5 DEF Returns, TwoVenues
<1>7. Out(a, x) \in Int /\ Out(b, y) \in Int BY DEF TwoVenues, Venues, NoFill
<1>8. SumFunctionOnSet(g, 1..2) = g[1] + g[2] BY <1>6, <1>7, SumOfTwo
<1>9. s.out = Out(a, x) + Out(b, y) BY <1>1, <1>5, <1>6, <1>8 DEF Returned, TwoVenues
<1> QED BY <1>1, <1>2, <1>4, <1>9 DEF Weighs

\* Refining the pair returns the largest worth.
LEMMA PairIsBest ==
    ASSUME NEW a, NEW b, NEW n, NEW f, NEW m, NEW steps, Searchable(a, b, n, f, m, steps),
           NEW curves, TwoVenues(a, b, n, curves), NEW legs, NEW s \in Divisions(curves, legs, n)
    PROVE  RefinePair(curves, steps, s, <<1, 2>>).out = m
<1>1. n \in Nat /\ n > 1 /\ Concave(a, n) /\ Concave(b, n) /\ steps \in Nat BY DEF Searchable
<1>2. Weighs(s, f, n) BY <1>1, DivisionIsWorth DEF Searchable
<1>3. PICK x \in 0..n, y \in 0..n : x = s.at[1] /\ y = s.at[2] /\ y = n - x /\ s.out = f[x]
  BY <1>1, <1>2 DEF Weighs
<1>4. x + y = n BY <1>1, <1>3
<1>5. Worths(a, b, n, f) BY <1>1, WorthsBend DEF Searchable
<1>6. PICK z \in 0..n : z = Boundary(a, b, n, steps) /\ f[z] = m
  <2>1. PICK width : Widths(width, n, steps) BY DEF Searchable
  <2>2. LargestOf(f, n, m) /\ f[n] <= f[n - 1] BY DEF Searchable
  <2>3. Boundary(a, b, n, steps) \in 0..n /\ f[Boundary(a, b, n, steps)] = m
    BY <1>1, <1>5, <2>1, <2>2, BoundaryIsBest
  <2> QED BY <2>3
<1>7. curves[1] = a /\ curves[2] = b BY DEF TwoVenues
<1>8. RefinePair(curves, steps, s, <<1, 2>>) = Move(curves, s, 1, 2, z)
  <2>1. <<1, 2>>[1] = 1 /\ <<1, 2>>[2] = 2 OBVIOUS
  <2>2. ~ (n <= 1) BY <1>1
  <2> QED BY <1>3, <1>4, <1>6, <1>7, <2>1, <2>2 DEF RefinePair
<1>9. PICK before \in Nat, after \in Nat : before = f[x] /\ after = f[z] BY <1>5 DEF Worths
<1>10. before = Out(a, x) + Out(b, y) BY <1>3, <1>9 DEF Searchable
<1>11. after = Worth(a, b, n, z) BY <1>5, <1>9 DEF Worths
<1>12. before <= m /\ m \in Nat /\ after = m BY <1>6, <1>9 DEF Searchable, LargestOf
<1>13. CASE after <= before
  <2>1. Move(curves, s, 1, 2, z) = s
    BY <1>3, <1>4, <1>7, <1>10, <1>11, <1>13 DEF Move
  <2> QED BY <1>3, <1>8, <1>9, <1>12, <1>13, <2>1
<1>14. CASE ~ (after <= before)
  <2>1. Move(curves, s, 1, 2, z).out = s.out - before + after
    BY <1>3, <1>4, <1>7, <1>10, <1>11, <1>14 DEF Move
  <2> QED BY <1>3, <1>8, <1>9, <1>12, <2>1
<1> QED BY <1>13, <1>14

\* An allocation over both venues is refined to the largest worth.
LEMMA RefinedIsBest ==
    ASSUME NEW a, NEW b, NEW n, NEW f, NEW m, NEW steps, Searchable(a, b, n, f, m, steps),
           NEW curves, TwoVenues(a, b, n, curves),
           NEW at, Allocation(curves, 2, at), Given(curves, at) = n, Opened(at) = {1, 2}
    PROVE  Refine(curves, at, steps).out = m /\ Weighs(Refine(curves, at, steps), f, n)
<1>1. n \in Nat /\ steps \in Nat BY DEF Searchable
<1>2. Venues(curves) BY DEF TwoVenues
<1>3. /\ at \in [DOMAIN curves -> Nat]
      /\ \A i \in DOMAIN curves : Out(curves[i], at[i]) # NoFill
  BY DEF Allocation
<1>4. /\ Refine(curves, at, steps) \in Divisions(curves, {1, 2}, n)
      /\ \E s \in Divisions(curves, {1, 2}, n) :
           Refine(curves, at, steps) = RefineAll(curves, steps, s, PairOrder({1, 2}))
  <2>1. /\ Refine(curves, at, steps) \in Divisions(curves, Opened(at), Given(curves, at))
        /\ \E s \in Divisions(curves, Opened(at), Given(curves, at)) :
             Refine(curves, at, steps) = RefineAll(curves, steps, s, PairOrder(Opened(at)))
    BY <1>1, <1>2, <1>3, RefineKeeps
  <2> QED BY <2>1
<1>5. PICK s \in Divisions(curves, {1, 2}, n) :
        Refine(curves, at, steps) = RefineAll(curves, steps, s, PairOrder({1, 2}))
  BY <1>4
<1>6. PICK pairs : pairs = PairOrder({1, 2}) /\ DOMAIN pairs = 1..1 /\ pairs[1] = <<1, 2>>
  BY TwoLegsOnePair
<1>7. Refine(curves, at, steps) = RefinePair(curves, steps, s, <<1, 2>>)
  BY <1>5, <1>6, OnePairRefined
<1>8. RefinePair(curves, steps, s, <<1, 2>>).out = m BY PairIsBest
<1>9. Weighs(Refine(curves, at, steps), f, n)
  BY <1>1, <1>4, DivisionIsWorth DEF Searchable
<1> QED BY <1>7, <1>8, <1>9

\* What is placed is worth the largest worth.
LEMMA PlacedIsBest ==
    ASSUME NEW a, NEW b, NEW n, NEW f, NEW m, NEW steps, Searchable(a, b, n, f, m, steps),
           NEW curves, TwoVenues(a, b, n, curves),
           NEW refined, refined.out = m, Weighs(refined, f, n), DOMAIN refined.at = 1..2
    PROVE  Placed(curves, n, BestSingle(curves, n), refined).out = m
<1>1. PICK best : best = BestSingle(curves, n) OBVIOUS
<1>2. n \in Nat /\ n > 1 /\ Concave(a, n) /\ Concave(b, n) BY DEF Searchable
<1>3. m \in Nat /\ \A x \in 0..n : f[x] <= m BY DEF Searchable, LargestOf
<1>4. Out(a, 0) = 0 /\ Out(b, 0) = 0 BY DEF Out
<1>5. f[0] = Out(b, n) /\ f[n] = Out(a, n) /\ Out(a, n) \in Nat /\ Out(b, n) \in Nat
  <2>1. 0 \in 0..n /\ n \in 0..n /\ n - 0 = n /\ n - n = 0 BY <1>2
  <2>2. Out(a, n) \in Nat /\ Out(b, n) \in Nat BY <1>2, <2>1, ConcaveBends
  <2>3. f[0] = Out(a, 0) + Out(b, n) /\ f[n] = Out(a, n) + Out(b, 0)
    BY <2>1 DEF Searchable
  <2> QED BY <1>4, <2>2, <2>3
<1>6. CASE best = NoVenue
  <2>1. CASE refined.out <= 0
    <3>1. Placed(curves, n, best, refined) = NoSplit BY <1>6, <2>1 DEF Placed
    <3>2. m = 0 BY <1>3, <2>1
    <3> QED BY <1>1, <3>1, <3>2 DEF NoSplit
  <2>2. CASE ~ (refined.out <= 0)
    <3>1. Placed(curves, n, best, refined) = SplitResult(refined.at, n, refined.out, 0)
      BY <1>6, <2>2 DEF Placed
    <3> QED BY <1>1, <3>1 DEF SplitResult
  <2> QED BY <2>1, <2>2
<1>7. CASE best # NoVenue
  <2>1. /\ best \in DOMAIN curves /\ Out(curves[best], n) \in Nat \ {0}
        /\ \A i \in Usable(curves) : Out(curves[i], n) <= Out(curves[best], n)
    BY <1>1, <1>2, <1>7, BestOfTheVenues DEF TwoVenues
  <2>2. PICK whole \in Nat : whole = Out(curves[best], n) BY <2>1
  <2>3. whole <= m
    <3>1. best = 1 \/ best = 2 BY <2>1 DEF TwoVenues
    <3>2. whole = f[n] \/ whole = f[0] BY <1>5, <2>2, <3>1 DEF TwoVenues
    <3> QED BY <1>2, <1>3, <3>2
  <2>4. f[n] <= whole /\ f[0] <= whole
    <3>1. 1 \in Usable(curves) /\ 2 \in Usable(curves) BY DEF TwoVenues
    <3>2. Out(curves[1], n) <= whole /\ Out(curves[2], n) <= whole BY <2>1, <2>2, <3>1
    <3> QED BY <1>5, <3>2 DEF TwoVenues
  <2>5. CASE Cardinality(Opened(refined.at)) <= 1 \/ refined.out <= whole
    <3>1. Placed(curves, n, best, refined) = SingleResult(curves, best, n)
      BY <1>7, <2>2, <2>5 DEF Placed
    <3>2. SingleResult(curves, best, n).out = whole BY <2>2 DEF SingleResult
    <3>3. m <= whole
      <4>1. CASE refined.out <= whole BY <4>1
      <4>2. CASE Cardinality(Opened(refined.at)) <= 1
        <5>1. PICK at : at = refined.at /\ DOMAIN at = 1..2 OBVIOUS
        <5>2. PICK x \in 0..n, y \in 0..n : x = at[1] /\ y = at[2] /\ y = n - x /\ m = f[x]
          BY <1>2, <5>1 DEF Weighs
        <5>3. ASSUME x > 0, y > 0 PROVE FALSE
          <6>1. Opened(at) = {1, 2}
            <7>1. DOMAIN at = {1, 2} /\ at[1] > 0 /\ at[2] > 0 BY <5>1, <5>2, <5>3
            <7> QED BY <7>1, Zenon DEF Opened
          <6>2. Cardinality({1, 2}) = 2
            <7>1. IsFiniteSet({1}) /\ Cardinality({1}) = 1 BY FS_Singleton
            <7>2. 2 \notin {1} /\ {1, 2} = {1} \cup {2} OBVIOUS
            <7>3. Cardinality({1} \cup {2}) = Cardinality({1}) + 1
              BY <7>1, <7>2, FS_AddElement
            <7> QED BY <7>1, <7>2, <7>3
          <6>3. Cardinality(Opened(refined.at)) = 2 BY <5>1, <6>1, <6>2
          <6> QED BY <4>2, <6>3
        <5>4. x = 0 \/ x = n BY <1>2, <5>2, <5>3
        <5> QED BY <2>4, <5>2, <5>4
      <4> QED BY <2>5, <4>1, <4>2
    <3>4. m = whole BY <1>3, <2>3, <3>3
    <3> QED BY <1>1, <3>1, <3>2, <3>4
  <2>6. CASE ~ (Cardinality(Opened(refined.at)) <= 1 \/ refined.out <= whole)
    <3>1. PICK gain : Placed(curves, n, best, refined)
                        = SplitResult(refined.at, n, refined.out, gain)
      BY <1>7, <2>2, <2>6 DEF Placed
    <3> QED BY <1>1, <3>1 DEF SplitResult
  <2> QED BY <2>5, <2>6
<1> QED BY <1>6, <1>7

\* What an order returns is the largest worth of its divisions.
ReturnsTheBest(a, b, n, opts) ==
    OptimizeSplit(<<a, b>>, n, opts).out = Max({Worth(a, b, n, x) : x \in 0..n})

\* An order over two concave curves that are both in use returns the largest
\* worth of its divisions.
LEMMA OptimizedIsBest ==
    ASSUME NEW a, NEW b, NEW n \in Nat, n > 1, Concave(a, n), Concave(b, n),
           NEW opts, TwoInUse(<<a, b>>, n, opts), \E width : Widths(width, n, opts.steps)
    PROVE  ReturnsTheBest(a, b, n, opts)
<1>1. PICK f : f = [x \in 0..n |-> Out(a, x) + Out(b, n - x)] OBVIOUS
<1>2. Worths(a, b, n, f) BY <1>1, WorthsBend
<1>3. PICK S : S = {Worth(a, b, n, x) : x \in 0..n} OBVIOUS
<1>4. PICK m : m = Max(S) /\ LargestOf(f, n, m)
  <2>1. S = {f[x] : x \in 0..n} BY <1>2, <1>3 DEF Worths
  <2>2. IsFiniteSet(S)
    <3>1. PICK I : I = 0..n OBVIOUS
    <3>2. IsFiniteSet(I) BY <3>1, FS_Interval
    <3>3. IsFiniteSet({f[x] : x \in I}) BY <3>2, FiniteImages
    <3> QED BY <2>1, <3>1, <3>3
  <2>3. S \subseteq Int /\ S # {} BY <2>1, <1>2 DEF Worths
  <2>4. Max(S) \in S /\ \A x \in S : x <= Max(S) BY <2>2, <2>3, MaxIsElement
  <2>5. PICK m : m = Max(S) OBVIOUS
  <2>6. m \in Nat /\ (\E x \in 0..n : f[x] = m) /\ \A x \in 0..n : f[x] <= m
    BY <1>2, <2>1, <2>4, <2>5 DEF Worths
  <2> QED BY <2>5, <2>6 DEF LargestOf
<1>5. PICK curves : curves = <<a, b>> /\ TwoVenues(a, b, n, curves) BY CurvesAreVenues
<1>6. f[n] <= f[n - 1]
  <2>1. ~ FirstLeads(a, b, n) BY InUseNoneLeads
  <2>2. n \in Nat \ {0} OBVIOUS
  <2>3. ~ (Out(a, n) - Out(a, n - 1) > Out(b, 1)) BY <2>1, <2>2, LastUnitLeads
  <2>4. PICK p, q, r \in Nat : p = Out(a, n) /\ q = Out(a, n - 1) /\ r = Out(b, 1)
    <3>1. n \in 0..n /\ n - 1 \in 0..n /\ 1 \in 0..n OBVIOUS
    <3> QED BY <3>1, ConcaveBends
  <2>5. f[n] = p /\ f[n - 1] = q + r
    <3>1. n \in 0..n /\ n - 1 \in 0..n /\ n - n = 0 /\ n - (n - 1) = 1 OBVIOUS
    <3>2. f[n] = Out(a, n) + Out(b, 0) /\ f[n - 1] = Out(a, n - 1) + Out(b, 1) BY <1>1, <3>1
    <3>3. Out(b, 0) = 0 BY DEF Out
    <3> QED BY <2>4, <3>2, <3>3
  <2> QED BY <2>3, <2>4, <2>5
<1>7. Searchable(a, b, n, f, m, opts.steps)
  BY <1>1, <1>4, <1>6 DEF Searchable, TwoInUse
<1>8. PICK at : at = Allocate(curves, n, opts) /\ Cardinality(Opened(at)) = 2
  BY <1>5 DEF TwoInUse
<1>9. at # <<>>
  <2> SUFFICES ASSUME at = <<>> PROVE FALSE OBVIOUS
  <2>1. Opened(at) = {} BY DEF Opened
  <2> QED BY <1>8, <2>1, FS_EmptySet
<1>10. Allocation(curves, 2, at) /\ Given(curves, at) = n
  <2>1. opts.max_legs \in Nat /\ opts.granularity \in Nat \ {0} /\ opts.max_legs = 2
    BY DEF TwoInUse
  <2>2. \/ at = <<>>
        \/ Allocation(curves, opts.max_legs, at) /\ Given(curves, at) = n
    BY <1>5, <1>8, <2>1, AllocatesTheOrder DEF TwoVenues
  <2> QED BY <1>9, <2>1, <2>2
<1>11. Opened(at) = {1, 2}
  <2>1. PICK O : O = Opened(at) OBVIOUS
  <2>2. at \in [1..2 -> Nat] BY <1>5, <1>10 DEF Allocation, TwoVenues
  <2>3. O \subseteq {1, 2} BY <2>1, <2>2 DEF Opened
  <2>4. O = {} \/ O = {1} \/ O = {2} \/ O = {1, 2} BY <2>3
  <2>5. Cardinality({}) = 0 /\ Cardinality({1}) = 1 /\ Cardinality({2}) = 1
    BY FS_EmptySet, FS_Singleton
  <2> QED BY <1>8, <2>1, <2>4, <2>5
<1>12. PICK refined : refined = Refine(curves, at, opts.steps) OBVIOUS
<1>13. refined.out = m /\ Weighs(refined, f, n)
  BY <1>5, <1>7, <1>10, <1>11, <1>12, RefinedIsBest
<1>14. DOMAIN refined.at = 1..2
  <2>1. opts.steps \in Nat BY DEF TwoInUse
  <2>2. refined \in Divisions(curves, Opened(at), Given(curves, at))
    BY <1>5, <1>10, <1>12, <2>1, RefineKeeps DEF Allocation, TwoVenues
  <2>3. refined.at \in [1..2 -> Nat] BY <1>5, <2>2 DEF Divisions, TwoVenues
  <2> QED BY <2>3
<1>15. Placed(curves, n, BestSingle(curves, n), refined).out = m
  BY <1>5, <1>7, <1>13, <1>14, PlacedIsBest
<1>16. OptimizeSplit(curves, n, opts) = Placed(curves, n, BestSingle(curves, n), refined)
  <2>1. ~ (n <= 0) /\ Usable(curves) # {} BY <1>5 DEF TwoVenues
  <2> QED BY <1>8, <1>9, <1>12, <2>1 DEF OptimizeSplit
<1> QED BY <1>3, <1>4, <1>5, <1>15, <1>16 DEF ReturnsTheBest

\* There are steps enough to narrow an interval of a length down.
LEMMA StepsNarrow == \E width : Widths(width, Length, RefineSteps)
<1> DEFINE Step(g, k) == IF k = 0 THEN Length ELSE Narrowed(g[k - 1])
           Iter(g) == g = [k \in 0..RefineSteps |-> Step(g, k)]
           width == CHOOSE g : Iter(g)
<1>1. RefineSteps \in Nat /\ Length \in Nat BY TermsAssumption, CurveQuestions
<1>2. width[RefineSteps] <= 1 BY StepsSuffice
<1>3. \A w \in Nat : Narrowed(w) \in Nat
  <2> TAKE w \in Nat
  <2>1. w \div 3 \in Nat /\ w = (w \div 3) * 3 + (w % 3) /\ w % 3 \in 0..2 BY Quotients
  <2>2. CASE w <= 1 BY <2>2 DEF Narrowed
  <2>3. CASE ~ (w <= 1) /\ w >= 3
    <3>1. Narrowed(w) = w - w \div 3 BY <2>3 DEF Narrowed
    <3>2. w - w \div 3 \in Nat BY <2>1
    <3> QED BY <3>1, <3>2
  <2>4. CASE ~ (w <= 1) /\ ~ (w >= 3)
    <3>1. Narrowed(w) = w - 1 BY <2>4 DEF Narrowed
    <3> QED BY <2>4, <3>1
  <2> QED BY <2>2, <2>3, <2>4
<1>4. PICK g : g \in [0..RefineSteps -> Nat] /\ Iter(g)
  <2> DEFINE F == [w \in Nat |-> Narrowed(w)]
  <2>1. F \in [Nat -> Nat] BY <1>3
  <2>2. \A w \in Nat : F[w] = Narrowed(w) OBVIOUS
  <2> HIDE DEF F
  <2>3. PICK g \in [0..RefineSteps -> Nat] : Repeats(g, Length, F, RefineSteps)
    BY <1>1, <2>1, RepeatsExist
  <2>4. \A k \in 0..RefineSteps : g[k] = Step(g, k)
    <3> TAKE k \in 0..RefineSteps
    <3>1. CASE k = 0 BY <2>3, <3>1 DEF Repeats
    <3>2. CASE k # 0
      <4>1. g[k - 1] \in Nat BY <1>1, <2>3, <3>2
      <4>2. g[k] = F[g[k - 1]] BY <2>3, <3>2 DEF Repeats
      <4> QED BY <2>2, <3>2, <4>1, <4>2
    <3> QED BY <3>1, <3>2
  <2>5. g = [k \in 0..RefineSteps |-> g[k]] OBVIOUS
  <2> QED BY <2>4, <2>5
<1>5. Iter(width) BY <1>4
<1> HIDE DEF width
<1>6. \A k \in 0..RefineSteps : width[k] = Step(width, k) BY <1>5
<1> DEFINE G == {k \in 0..RefineSteps : width[k] \in Nat}
<1>7. 0 \in G BY <1>1, <1>6
<1>8. \A k \in 1..RefineSteps : k - 1 \in G => k \in G
  <2> TAKE k \in 1..RefineSteps
  <2>1. width[k] = Narrowed(width[k - 1]) BY <1>1, <1>6
  <2> QED BY <1>1, <1>3, <2>1
<1> HIDE DEF G
<1>9. 0..RefineSteps \subseteq G BY <1>1, <1>7, <1>8, CountUp
<1>10. width \in [0..RefineSteps -> Nat]
  <2>1. DOMAIN width = 0..RefineSteps /\ width = [k \in DOMAIN width |-> width[k]] BY <1>5
  <2>2. \A k \in 0..RefineSteps : width[k] \in Nat BY <1>9 DEF G
  <2> QED BY <2>1, <2>2
<1>11. width[0] = Length /\ \A k \in 1..RefineSteps : width[k] = Narrowed(width[k - 1])
  BY <1>1, <1>6
<1> QED BY <1>2, <1>10, <1>11 DEF Widths

\* Over two concave curves that are both in use the search finds a division that
\* returns as much as any other, for curves and orders of any length that the
\* search has steps for.  (refineBoundary, "the search is sound")
THEOREM SearchIsOptimal == Spec => []SearchFindsTheBest
<1>1. Posed => SearchFindsTheBest
  <2> SUFFICES ASSUME Posed, question.op = "search" PROVE SearchFindsTheBest
    BY DEF SearchFindsTheBest
  <2>1. PICK a \in Curves, b \in Curves : question.curves = <<a, b>>
    BY DEF Posed, Asked
  <2>2. Concave(a, Length) /\ Concave(b, Length) /\ Length \in Nat /\ Length > 1
    BY CurveQuestions
  <2>3. PICK opts :
          opts = [granularity |-> Length \div 2, max_legs |-> 2, steps |-> RefineSteps]
    OBVIOUS
  <2>4. Length \div 2 \in Nat \ {0}
    <3>1. /\ Length \div 2 \in Nat /\ Length = (Length \div 2) * 2 + (Length % 2)
          /\ Length % 2 \in 0..1
      <4>1. PICK n \in Nat : n = Length BY <2>2
      <4>2. n \div 2 \in Nat /\ n = (n \div 2) * 2 + (n % 2) /\ n % 2 \in 0..1 BY Quotients
      <4> QED BY <4>1, <4>2
    <3> QED BY <2>2, <3>1
  <2>5. /\ opts.granularity \in Nat \ {0} /\ opts.max_legs = 2
        /\ opts.steps = RefineSteps /\ RefineSteps \in Nat
    BY <2>3, <2>4, TermsAssumption
  <2>6. \E width : Widths(width, Length, opts.steps) BY <2>5, StepsNarrow
  <2>7. ASSUME Cardinality(Opened(Allocate(<<a, b>>, Length, opts))) = 2
        PROVE  ReturnsTheBest(a, b, Length, opts)
    <3>1. TwoInUse(<<a, b>>, Length, opts) BY <2>5, <2>7 DEF TwoInUse
    <3> QED BY <2>2, <2>6, <3>1, OptimizedIsBest
  <2>8. question.curves[1] = a /\ question.curves[2] = b BY <2>1
  <2> QED BY <2>1, <2>3, <2>7, <2>8 DEF SearchFindsTheBest, ReturnsTheBest
<1> QED BY <1>1, PosedInvariant, PTL
=============================================================================
