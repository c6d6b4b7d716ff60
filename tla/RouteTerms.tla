----------------------------- MODULE RouteTerms -----------------------------
(***************************************************************************)
(* What the router promises for one request and what it then plans: the     *)
(* ranked single quotes, the split over native pools, the two-hop path      *)
(* through an intermediate, the execution guard's floors, the selection     *)
(* between them and the plan (router-core, execution-guard, apps/router,       *)
(* tx-builder).                                                             *)
(*                                                                          *)
(* An ask is [side, amount, max], max the user's own slippage ceiling.  A   *)
(* market is [pools, hops, legs]: the venues that trade the pair itself,    *)
(* the USDC pools of the intermediate and the representation's pools with   *)
(* it.  A venue is a curve with impact[x] in basis points, ok (every guard  *)
(* check that is not about price) and via: native, external or none.        *)
(***************************************************************************)
EXTENDS SplitRoute

CONSTANTS
    FeeBps,             \* MARKET_FEE_BPS
    BaseSlippage, MaxSlippage, MaxImpact, HopMargin, HopMaxSlippage,  \* policy
    NativePreference,   \* NATIVE_PREFERENCE_BPS
    Granularity, RefineSteps, DefaultLegs   \* the split options

ASSUME TermsAssumption ==
    /\ FeeBps \in 0..(Whole - 1)
    /\ {BaseSlippage, MaxSlippage, MaxImpact, HopMargin, HopMaxSlippage} \subseteq Nat
    /\ MaxSlippage <= Whole /\ HopMaxSlippage <= Whole
    /\ {NativePreference, DefaultLegs, RefineSteps} \subseteq Nat
    /\ Granularity \in Nat \ {0}

BpsOf(amount, bps) == (amount * bps) \div Whole

\* Venues quote what will actually be swapped; a sell pays its fee on the output.
VenueAmount(ask) ==
    IF ask.side = "buy" THEN ask.amount - BpsOf(ask.amount, FeeBps) ELSE ask.amount
NetOf(ask, gross) == IF ask.side = "sell" THEN gross - BpsOf(gross, FeeBps) ELSE gross

Quote(venues, i, x, hop) ==
    [venue |-> i, in |-> x, out |-> Out(venues[i], x), impact |-> venues[i].impact[x],
     ok |-> venues[i].ok, via |-> venues[i].via, hop |-> hop]
SumOver(legs, F(_)) == SumFunction([k \in DOMAIN legs |-> F(legs[k])])
SumOut(legs) == SumOver(legs, LAMBDA q : q.out)
SumIn(legs) == SumOver(legs, LAMBDA q : q.in)

-----------------------------------------------------------------------------
(* The execution guard.                                                     *)

\* What the quote needs: half its impact on top of the base, or on the USDC
\* hop of a path its impact and a margin, capped.
Required(q) ==
    IF q.hop = "intermediate" THEN Min({q.impact + HopMargin, HopMaxSlippage})
    ELSE BaseSlippage + (q.impact + 1) \div 2
\* Refused rather than widened.
WithinCeiling(q, ask) == Required(q) <= Min({MaxSlippage, ask.max})
Approved(q, ask) == q.ok /\ q.impact <= MaxImpact /\ WithinCeiling(q, ask)
FloorOf(q) == q.out - BpsOf(q.out, Required(q))

Capability(q, ask) ==
    IF ~Approved(q, ask) \/ q.via = "none" THEN "QUOTE_ONLY"
    ELSE IF q.via = "native" THEN "HENAR_NATIVE" ELSE "EXTERNAL_EXECUTABLE"

-----------------------------------------------------------------------------
(* Single quotes, ranked.                                                   *)

Quotes(ask, m) ==
    {Quote(m.pools, i, VenueAmount(ask), "direct") :
        i \in {v \in Usable(m.pools) : Out(m.pools[v], VenueAmount(ask)) > 0}}

\* compareRanked: net output, then impact, then executability, then name.
Leading(ask, quotes) ==
    CHOOSE q \in quotes : \A r \in quotes \ {q} :
        LET nq == NetOf(ask, q.out)  nr == NetOf(ask, r.out)
        IN  \/ nq > nr
            \/ nq = nr /\ q.impact < r.impact
            \/ nq = nr /\ q.impact = r.impact /\ q.via # "none" /\ r.via = "none"
            \/ nq = nr /\ q.impact = r.impact /\ (q.via = "none" <=> r.via = "none")
               /\ q.venue < r.venue

Route(ask, kind, legs, gross) ==
    [kind |-> kind, legs |-> legs, gross |-> gross, net |-> NetOf(ask, gross)]
NoRoute == [kind |-> "none", legs |-> <<>>, gross |-> 0, net |-> 0]

\* selectRoute: a native quote within the preference of the best one a user
\* can reach, that one otherwise, and failing both an approved price nobody
\* can execute.
Near(ask, top, home) == ((top - NetOf(ask, home.out)) * Whole) \div top <= NativePreference
Reached(ask, top, natives) ==
    IF NetOf(ask, top.out) > 0 /\ natives # {}
          /\ Near(ask, NetOf(ask, top.out), Leading(ask, natives))
    THEN Leading(ask, natives) ELSE top
Picked(ask, approved) ==
    LET reach   == {q \in approved : Capability(q, ask) # "QUOTE_ONLY"}
        natives == {q \in approved : Capability(q, ask) = "HENAR_NATIVE"}
    IN  IF reach = {} THEN Leading(ask, approved)
        ELSE Reached(ask, Leading(ask, reach), natives)
SingleRoute(ask, pick) == Route(ask, "single", <<pick>>, pick.out)
SelectSingle(ask, m) ==
    LET approved == {q \in Quotes(ask, m) : Approved(q, ask)}
    IN  IF approved = {} THEN NoRoute ELSE SingleRoute(ask, Picked(ask, approved))

-----------------------------------------------------------------------------
(* The split over native pools.                                             *)

Opts(max_legs) ==
    [granularity |-> Granularity, max_legs |-> max_legs, steps |-> RefineSteps]

\* A gain below one basis point is not worth a leg; gain is in tenths.
Worthwhile(split) == split.kind = "split" /\ split.gain >= 10
QuotesOf(venues, split, hop) ==
    [k \in DOMAIN split.legs |-> Quote(venues, split.legs[k].venue, split.legs[k].in, hop)]
SplitOver(ask, pools, split) ==
    IF Worthwhile(split)
    THEN Route(ask, "split", QuotesOf(pools, split, "direct"),
               SumOut(QuotesOf(pools, split, "direct")))
    ELSE NoRoute
\* The venues whose quotes Henar can build, in their order.
NativeVenues(ask, m) == {q.venue : q \in {r \in Quotes(ask, m) : r.via = "native"}}
InTheirOrder(venues) == InOrder(venues, LAMBDA i, j : i < j)
SplitRouteOf(ask, m, max_legs) ==
    LET quoted == InTheirOrder(NativeVenues(ask, m))
        pools  == [k \in DOMAIN quoted |-> m.pools[quoted[k]]]
    IN  IF Len(quoted) < 2 THEN NoRoute
        ELSE SplitOver(ask, pools, OptimizeSplit(pools, VenueAmount(ask), Opts(max_legs)))

\* A buy's fee is apportioned over the legs, the last one takes the remainder.
\* Wrong on purpose: every leg truncates.
MutantLegFees(ask, legs) ==
    LET total == BpsOf(ask.amount, FeeBps)
    IN  [k \in DOMAIN legs |-> (total * legs[k].in) \div VenueAmount(ask)]
LegFees(ask, legs) ==
    LET total == BpsOf(ask.amount, FeeBps)
        cut[k \in DOMAIN legs] == (total * legs[k].in) \div VenueAmount(ask)
    IN  [k \in DOMAIN legs |->
            IF k < Len(legs) THEN cut[k]
            ELSE total - SumFunction([i \in 1..(k - 1) |-> cut[i]])]

-----------------------------------------------------------------------------
(* The path through an intermediate.                                        *)

\* A split over the representation's pools when it pays, the best one else.
LegsOver(m, x, split) ==
    LET best == BestSingle(m.legs, x)
    IN  IF Worthwhile(split) THEN QuotesOf(m.legs, split, "representation")
        ELSE IF best = NoVenue THEN <<>> ELSE <<Quote(m.legs, best, x, "representation")>>
LegQuotes(m, x, max_legs) == LegsOver(m, x, OptimizeSplit(m.legs, x, Opts(max_legs)))

LegsFit(ask, legs) ==
    legs # <<>> /\ \A k \in DOMAIN legs : legs[k].out > 0 /\ WithinCeiling(legs[k], ask)

\* The second hop is sized on the floor of the first, not on what it expects.
BuyLegs(ask, hop, legs) ==
    IF LegsFit(ask, legs) THEN Route(ask, "path", <<hop>> \o legs, SumOut(legs)) ELSE NoRoute
BuyPath(ask, m, max_legs) ==
    LET i   == BestSingle(m.hops, VenueAmount(ask))
        hop == Quote(m.hops, i, VenueAmount(ask), "intermediate")
    IN  IF i = NoVenue \/ FloorOf(hop) <= 0 THEN NoRoute
        ELSE BuyLegs(ask, hop, LegQuotes(m, FloorOf(hop), max_legs))

SellHop(ask, m, legs) ==
    LET floor == SumOver(legs, FloorOf)
        i     == BestSingle(m.hops, floor)
        hop   == Quote(m.hops, i, floor, "intermediate")
    IN  IF ~LegsFit(ask, legs) \/ floor <= 0 \/ i = NoVenue THEN NoRoute
        ELSE Route(ask, "path", Append(legs, hop), hop.out)
SellPath(ask, m, max_legs) == SellHop(ask, m, LegQuotes(m, VenueAmount(ask), max_legs))

PathOf(ask, m, max_legs) ==
    IF ask.side = "buy" THEN BuyPath(ask, m, max_legs) ELSE SellPath(ask, m, max_legs)

\* The legs whose output the user receives, and those that spend the input.
OutputLegs(ask, route) ==
    IF route.kind # "path" THEN route.legs
    ELSE IF ask.side = "buy" THEN Tail(route.legs) ELSE <<Last(route.legs)>>
InputLegs(ask, route) ==
    IF route.kind # "path" THEN route.legs
    ELSE IF ask.side = "buy" THEN <<Head(route.legs)>> ELSE Front(route.legs)
FloorsAgree(ask, route) ==
    IF ask.side = "buy" THEN FloorOf(Head(route.legs)) = SumIn(Tail(route.legs))
    ELSE SumOver(Front(route.legs), FloorOf) = Last(route.legs).in

-----------------------------------------------------------------------------
(* Selection.                                                               *)

AllApproved(ask, route) == \A k \in DOMAIN route.legs : Approved(route.legs[k], ask)
Executable(ask, route) ==
    route.kind = "path" /\ AllApproved(ask, route) /\ FloorsAgree(ask, route)
        /\ \A k \in DOMAIN route.legs : route.legs[k].via = "native"

\* What the user gets without the construction at hand.
\* Wrong on purpose: only a route Henar itself builds is an incumbent.
MutantObtainable(ask, route) ==
    IF route.kind = "none" THEN NoFill
    ELSE IF \A k \in DOMAIN route.legs : Capability(route.legs[k], ask) = "HENAR_NATIVE"
         THEN route.net ELSE NoFill
Obtainable(ask, route) ==
    IF route.kind = "none" THEN NoFill
    ELSE IF route.kind = "single" /\ Capability(route.legs[1], ask) = "QUOTE_ONLY"
         THEN NoFill ELSE route.net

Direct(ask, single, split) ==
    IF split.kind = "split" /\ AllApproved(ask, split) /\ split.net > Obtainable(ask, single)
    THEN split ELSE single
Preferred(ask, direct, path) ==
    IF Executable(ask, path) /\ path.net > Obtainable(ask, direct) THEN path ELSE direct
Select(ask, m, max_legs) ==
    Preferred(ask, Direct(ask, SelectSingle(ask, m), SplitRouteOf(ask, m, max_legs)),
              PathOf(ask, m, max_legs))

\* minNetUserOutput of the answer: the floors of the output legs, net of fee.
Promise(ask, route) == NetOf(ask, SumOver(OutputLegs(ask, route), FloorOf))

-----------------------------------------------------------------------------
(* The plan of a transaction                                                *)

Buildable(ask, route) ==
    route.kind # "none"
        /\ \A k \in DOMAIN route.legs : Capability(route.legs[k], ask) = "HENAR_NATIVE"

\* Everything planExecution refuses a route for.
Plannable(ask, route) ==
    /\ \A k \in DOMAIN route.legs : route.legs[k].in > 0 /\ FloorOf(route.legs[k]) > 0
    /\ SumIn(InputLegs(ask, route)) = VenueAmount(ask)
    /\ route.kind = "path" => FloorsAgree(ask, route)

\* fee is what the transaction transfers to the treasury.
Plan(ask, route) ==
    LET floors   == SumOver(OutputLegs(ask, route), FloorOf)
        expected == SumOut(OutputLegs(ask, route))
    IN  [minimum  |-> floors, expected |-> expected,
         fee      |-> BpsOf(IF ask.side = "buy" THEN ask.amount ELSE expected, FeeBps),
         net      |-> floors - (IF ask.side = "buy" THEN 0 ELSE BpsOf(floors, FeeBps))]
=============================================================================
