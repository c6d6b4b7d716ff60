------------------------------- MODULE Rules -------------------------------
(***************************************************************************)
(* The pure rules of the system against reference definitions: the economic*)
(* rules of StockroomMath and the router's rules of SplitRoute and          *)
(* RouteTerms.  A state is one question; the invariants say what the answer *)
(* must be.  Each kind of question has its own bounded inputs.              *)
(***************************************************************************)
EXTENDS StockroomMath, RouteTerms

CONSTANTS
    Amounts, Micro, MaxSlip, Unit,                     \* questions about the crate
    Values, Confidences, Exponents, Ratios,            \* its oracle prices
    Mantissas, Shifts,                                 \* its display multipliers
    Pools,                                             \* the venues, by name
    Trades, Splits,                                    \* questions about them
    Curves, Length                                     \* concave curves of a length

ASSUME QuestionAssumption ==
    /\ Amounts \subseteq 0..U64MAX /\ Micro \in Nat /\ MaxSlip \in Nat /\ Unit \in Nat
    /\ Values \subseteq Nat /\ Confidences \subseteq Nat /\ Exponents \subseteq Int
    /\ Ratios \subseteq Nat /\ Mantissas \subseteq Nat /\ Shifts \subseteq Int

\* Of an amount a venue says what it returns, or that it does not fill it.
ASSUME SplitQuestions ==
    /\ \A p \in DOMAIN Pools : \A x \in DOMAIN Pools[p].out :
          Pools[p].out[x] \in Nat \cup {NoFill}
    /\ \A t \in Splits :
          /\ t.amount \in Nat /\ t.pools \in Seq(DOMAIN Pools)
          /\ t.opts.granularity \in Nat \ {0} /\ {t.opts.max_legs, t.opts.steps} \subseteq Nat

\* What a venue fills has an impact; a trade names its venues.
ASSUME TradeQuestions ==
    /\ \A p \in DOMAIN Pools :
          /\ \A x \in DOMAIN Pools[p].out : Pools[p].impact[x] \in Nat
          /\ Pools[p].ok \in BOOLEAN /\ Pools[p].via \in {"native", "external", "none"}
    /\ \A t \in Trades :
          /\ t.ask.side \in {"buy", "sell"} /\ {t.ask.amount, t.ask.max} \subseteq Nat
          /\ {t.pools, t.hops, t.legs} \subseteq Seq(DOMAIN Pools)

\* A curve that fills any part of n units, each for no more than the one before.
Concave(c, n) ==
    /\ c.available = TRUE /\ DOMAIN c.out = 1..n
    /\ \A x \in 1..n : c.out[x] \in Nat
    /\ \A x \in 1..(n - 1) : Out(c, x + 1) - Out(c, x) <= Out(c, x) - Out(c, x - 1)
ASSUME CurveQuestions ==
    Length \in Nat \ {0, 1} /\ \A c \in Curves : Concave(c, Length)

\* What a step of the search leaves of an interval, and that there are steps
\* enough to bring one of a length down to two neighbours.
Narrowed(width) ==
    IF width <= 1 THEN width ELSE width - (IF width >= 3 THEN width \div 3 ELSE 1)
ASSUME StepsSuffice ==
    LET width[k \in 0..RefineSteps] == IF k = 0 THEN Length ELSE Narrowed(width[k - 1])
    IN  width[RefineSteps] <= 1

VARIABLE question

Idle == [op |-> "idle"]
Init == question = Idle

AskBasis ==
    \E b, v, w1, w2 \in Amounts :
        question' = [op |-> "basis", basis |-> b, value |-> v, first |-> w1, second |-> w2]
AskLucky == \E s \in Amounts : question' = [op |-> "lucky", stake |-> s]
AskMinimum ==
    \E u, p \in Amounts, s \in 0..(MaxSlip + 1), l \in {NoLimit} \cup Amounts :
        question' = [op |-> "minimum", budget |-> u, price |-> p, slip |-> s, limit |-> l]
AskPrice ==
    \E v, w \in Values, c, d \in Confidences, e, f \in Exponents, n, m \in Ratios :
        question' = [op |-> "price", num |-> n, den |-> m,
                     stock |-> [value |-> v, confidence |-> c, exponent |-> e, publish_time |-> 0],
                     usdc  |-> [value |-> w, confidence |-> d, exponent |-> f, publish_time |-> 0]]
AskScaled ==
    \E u, p, l \in Amounts, s \in 0..MaxSlip, n \in Mantissas, e \in Shifts :
        question' = [op |-> "scaled", budget |-> u, price |-> p, slip |-> s, limit |-> l,
                     multiplier |-> [mantissa |-> n, shift |-> e]]

-----------------------------------------------------------------------------
(* Questions about routes, over venues named in Pools.                       *)

Market(q) ==
    [pools |-> [k \in DOMAIN q.pools |-> Pools[q.pools[k]]],
     hops  |-> [k \in DOMAIN q.hops |-> Pools[q.hops[k]]],
     legs  |-> [k \in DOMAIN q.legs |-> Pools[q.legs[k]]]]

\* A trade asks for a route in a market of named venues.
AskTrade ==
    \E t \in Trades :
        question' = [op |-> "trade", ask |-> t.ask, pools |-> t.pools, hops |-> t.hops, legs |-> t.legs]
\* A division of an order over some venues.
AskSplit ==
    \E t \in Splits :
        question' = [op |-> "split", amount |-> t.amount, pools |-> t.pools, opts |-> t.opts]
\* A search for the best boundary between two curves of a length.
AskSearch ==
    \E a, b \in Curves : question' = [op |-> "search", curves |-> <<a, b>>]

Answer == question # Idle /\ question' = Idle
Ask == /\ question = Idle
       /\ \/ AskBasis \/ AskLucky \/ AskMinimum \/ AskPrice \/ AskScaled
          \/ AskTrade \/ AskSplit \/ AskSearch

Spec == Init /\ [][Ask \/ Answer]_question

-----------------------------------------------------------------------------
\* Withdrawing at a loss releases basis in proportion, rounded for the owner:
\* two partial withdrawals never leave less basis than the value still
\* invested, so that value is not taxed as profit when it recovers, nor more
\* basis than one withdrawal of the sum would, plus one unit of rounding.
\* (remaining_basis, "recovered losses aren't later taxed as new profit")
BasisCoversRecovery ==
    question.op = "basis" /\ question.value <= question.basis
        /\ question.first + question.second <= question.value =>
        LET once  == RemainingBasis(question.basis, question.value, question.first)
            left  == question.value - question.first
            twice == RemainingBasis(once, left, question.second)
            sum   == RemainingBasis(question.basis, question.value,
                                    question.first + question.second)
        IN  /\ once >= left
            /\ twice >= left - question.second
            /\ twice \in {sum, sum + 1}
            /\ left = question.second /\ left > 0 => twice = 0

\* Over the 100 equally likely buckets the pool keeps five percent of the
\* stake plus what rounding leaves, and no bucket pays more than the second
\* stake the pool escrows, unless a payout is more than a u64 holds.  (lucky_payout, "fixed 95% theoretical RTP")
LuckyReturnIs95Percent ==
    question.op = "lucky" /\ question.stake > 0 =>
        LET paid[b \in Buckets] == LuckyPayout(question.stake, b)
            total == SumFunction(paid)
        IN  (\A b \in Buckets : paid[b] # Err) =>
            /\ total \in (95 * question.stake - 99)..(95 * question.stake)
            /\ question.stake % 4 = 0 => total = 95 * question.stake
            /\ \A b \in Buckets : paid[b] \in 0..(2 * question.stake)

\* A delivery that meets the minimum costs no more per unit than the oracle
\* price plus slippage and never more than the owner's limit; one unit less
\* would.  (minimum_stock)
MinimumEnforcesThePrice ==
    question.op = "minimum" =>
        LET got  == MinimumStock(question.budget, question.price, Unit, question.slip,
                                 MaxSlip, question.limit)
            cost == question.budget * Unit
            top  == CeilDiv(question.price * (BPS + question.slip), BPS)
        IN  got # Err =>
              /\ got * top >= cost
              /\ question.limit # NoLimit => got * question.limit >= cost
              /\ \/ (got - 1) * top < cost
                 \/ question.limit # NoLimit /\ (got - 1) * question.limit < cost

\* The oracle ratio is an upper bound of the true ratio for every stock and
\* dollar price within the published confidence, and at most one unit above
\* the worst of them.  (price_in_usdc)
PriceIsConservative ==
    question.op = "price" =>
        LET s == question.stock  u == question.usdc
            got == PriceInUsdc(s, u, question.num, question.den, Micro)
            up(x) == x * Power(10, -u.exponent) * Micro * question.num
            down(x) == x * Power(10, -s.exponent) * question.den
        IN  /\ u.value <= u.confidence => got = Err
            /\ got # Err =>
                 /\ \A x \in (s.value - s.confidence)..(s.value + s.confidence),
                       y \in (u.value - u.confidence)..(u.value + u.confidence) :
                          got * down(y) >= up(x)
                 /\ (got - 1) * down(u.value - u.confidence) < up(s.value + s.confidence)

\* A limit holds for what is displayed, however the multiplier rounds: what an
\* oracle fill delivers at least for a budget costs less than one base unit of
\* USDC more per stock unit than the limit times the multiplier, and what a
\* routed swap may cost, fee included, never more than that product.
\* (oracle::minimum, swap of position_swap.rs)
ScaledLimitsHold ==
    question.op = "scaled" =>
        LET m     == question.multiplier
            scale == Bit(MostOf(-m.shift, 0))
            exact == question.limit * m.mantissa * Bit(MostOf(m.shift, 0))
            cost  == question.budget * Unit * scale
            got   == OracleMinimum(question.budget, question.price, Unit, question.slip, MaxSlip,
                                   question.limit, m)
        IN  /\ got # Err => cost <= got * (exact + scale - 1)
            /\ \A received \in Amounts :
                  PaysAtMost(question.budget, received, Unit, question.limit, m)
                      => cost <= received * exact

-----------------------------------------------------------------------------
(* Routes.                                                                  *)

\* What a route's legs spend and return is what the answer says.
Sound(curves, amount, max_legs, got) ==
    /\ SumOver(got.legs, LAMBDA l : l.in) = amount
    /\ SumOver(got.legs, LAMBDA l : l.share) = Whole
    /\ got.out = SumOver(got.legs, LAMBDA l : Out(curves[l.venue], l.in))
    /\ Cardinality({got.legs[k].venue : k \in DOMAIN got.legs}) = Len(got.legs)
    /\ got.kind = "split" => Len(got.legs) <= max_legs
    /\ \A k \in DOMAIN got.legs :
          /\ got.legs[k].in > 0 /\ got.legs[k].share >= 0
          /\ Out(curves[got.legs[k].venue], got.legs[k].in) # NoFill

\* A split spends the order exactly, over distinct venues that fill their
\* part and no more of them than allowed; it is worth what its legs return and
\* never less than the best single venue; its shares add up to the whole.
\* An order a single venue fills is never left without a route.
\* (optimizeSplit, refineBoundary, finish)
SplitIsSound ==
    question.op = "split" =>
        LET curves == [k \in DOMAIN question.pools |-> Pools[question.pools[k]]]
            got    == OptimizeSplit(curves, question.amount, question.opts)
            best   == BestSingle(curves, question.amount)
        IN  /\ best # NoVenue =>
                  got.kind # "none" /\ got.out >= Out(curves[best], question.amount)
            /\ got.kind # "none" => Sound(curves, question.amount, question.opts.max_legs, got)

\* On concave curves the ternary search is sound: once both venues are in
\* use, no division of the order returns more.  (refineBoundary, "the sum of
\* two curves is concave and the search is sound")
SearchFindsTheBest ==
    question.op = "search" =>
        LET a == question.curves[1]  b == question.curves[2]
            opts == [granularity |-> Length \div 2, max_legs |-> 2, steps |-> RefineSteps]
        IN  Cardinality(Opened(Allocate(question.curves, Length, opts))) = 2 =>
                OptimizeSplit(question.curves, Length, opts).out
                    = Max({Worth(a, b, Length, x) : x \in 0..Length})

Chosen(q) == Select(q.ask, Market(q), DefaultLegs)

\* The plan charges the fee once and its legs' fees add up to it; what the
\* legs spend and the fee make up the order.
SpendsTheOrder(ask, route, plan) ==
    LET fees == LegFees(ask, route.legs)
    IN  /\ route.net = route.gross - (IF ask.side = "sell" THEN plan.fee ELSE 0)
        /\ ask.side = "buy" =>
              /\ SumIn(InputLegs(ask, route)) + plan.fee = ask.amount
              /\ route.kind = "split" => SumFunction(fees) = plan.fee
KeepsPromise(ask, route, plan) ==
    /\ Plannable(ask, route)
    /\ plan.net = Promise(ask, route)
    /\ plan.minimum >= route.gross - BpsOf(route.gross, Min({MaxSlippage, ask.max}))
    /\ plan.expected = route.gross
    /\ SpendsTheOrder(ask, route, plan)
WhenPlanned(ask, route, P(_, _, _)) ==
    Buildable(ask, route) /\ (\A k \in DOMAIN route.legs : FloorOf(route.legs[k]) > 0) =>
        P(ask, route, Plan(ask, route))

\* The plan of a selected route keeps what the answer promised: the planner
\* takes it, it spends the order and charges the fee once, its legs' fees add
\* up to it, its net minimum is the promised one and within the user's
\* ceiling.  (quote, planExecution, splitAcrossPools, composePath)
PlanKeepsThePromise ==
    question.op = "trade" => WhenPlanned(question.ask, Chosen(question), KeepsPromise)

AtMostThePreference(ask, chosen, nets) ==
    nets # {} =>
        /\ Obtainable(ask, chosen) # NoFill
        /\ ((Max(nets) - chosen.net) * Whole) \div Max(nets) <= NativePreference

\* The selected route can be executed whenever any route can, and pays at most
\* the native preference less than the best of them, Jupiter included.
\* (selectRoute, obtainableNet, quote)
SelectionNeverWorse ==
    question.op = "trade" =>
        LET ask   == question.ask
            m     == Market(question)
            split == SplitRouteOf(ask, m, DefaultLegs)
            path  == PathOf(ask, m, DefaultLegs)
            nets  == {NetOf(ask, q.out) : q \in {r \in Quotes(ask, m) :
                                               Capability(r, ask) # "QUOTE_ONLY"}}
                     \cup {r.net : r \in {s \in {split, path} : Buildable(ask, s)}}
        IN  AtMostThePreference(ask, Chosen(question), nets)

=============================================================================
