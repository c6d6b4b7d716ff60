------------------------------ MODULE MCRules ------------------------------
(***************************************************************************)
(* The questions that TLC asks: small venues, orders and curves.             *)
(***************************************************************************)
EXTENDS Rules

CONSTANTS
    Sizes,      \* order sizes; the largest bounds every curve
    Gain        \* largest marginal output of a concave curve

MCExponents == {-1, 0}
MCShifts == -3..1

\* A pool with a constant-product curve whose impact grows with the order.
Pool(reserve_in, reserve_out, fee, depth, via, ok) ==
    [available |-> TRUE, ok |-> ok, via |-> via,
     out    |-> ConstantProduct(reserve_in, reserve_out, fee, 1..Max(Sizes)),
     impact |-> [x \in 1..Max(Sizes) |-> x \div depth]]
MCPools ==
    [deep |-> Pool(90, 90, 2, 8, "native", TRUE), mid |-> Pool(60, 62, 4, 6, "native", TRUE),
     thin |-> Pool(12, 14, 0, 2, "native", TRUE), odd |-> Pool(45, 47, 1, 5, "native", TRUE),
     barred |-> Pool(90, 99, 0, 8, "native", FALSE),
     near |-> Pool(200, 165, 0, 20, "native", TRUE), swap |-> Pool(200, 170, 0, 20, "external", TRUE), best |-> Pool(200, 210, 0, 20, "external", TRUE),
     shown |-> Pool(200, 220, 0, 20, "none", TRUE),
     usdc |-> Pool(300, 290, 0, 9, "native", TRUE), small |-> Pool(25, 26, 0, 3, "native", TRUE),
     left |-> Pool(80, 95, 1, 8, "native", TRUE), right |-> Pool(40, 48, 0, 5, "native", TRUE)]

\* Markets with and without close rivals of both kinds and a path.
MCTrades ==
    {[ask |-> [side |-> s, amount |-> x, max |-> top], pools |-> p \o o, hops |-> h, legs |-> l] :
        s \in {"buy", "sell"}, x \in Sizes, top \in {8, MaxSlippage},
        p \in {<<>>, <<"near">>, <<"deep", "mid">>, <<"mid", "odd", "deep">>, <<"barred", "odd">>},
        o \in {<<>>, <<"swap">>, <<"best">>, <<"shown">>},
        h \in {<<>>, <<"usdc", "small">>}, l \in {<<"left">>, <<"left", "right">>}}

\* Orders over pools, with a small and a closed one.
MCSplits ==
    {[amount |-> x, pools |-> p, opts |-> [granularity |-> g, max_legs |-> n, steps |-> RefineSteps]] :
        x \in Sizes, g \in {3, 7}, n \in 1..3,
        p \in {<<"deep", "mid", "odd">>, <<"thin", "small", "deep">>, <<"mid", "thin", "odd">>,
                <<"thin", "small">>, <<"left", "right", "odd">>}}

\* Venues that fill any part of an order, each unit for at most the last.
MCCurves ==
    {[available |-> TRUE, out |-> [x \in 1..Length |-> SumFunction([i \in 1..x |-> d[i]])]] :
        d \in {c \in [1..Length -> 0..Gain] : \A i \in 1..(Length - 1) : c[i + 1] <= c[i]}}
=============================================================================
