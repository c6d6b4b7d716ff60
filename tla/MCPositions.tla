---------------------------- MODULE MCPositions ----------------------------
(***************************************************************************)
(* Small instances of Positions, of one owner and one position, and what the *)
(* documents say of an order's way out.                                     *)
(***************************************************************************)
EXTENDS Positions

CONSTANTS alice, k1, m1

MCStockLists == {<<[mint |-> "A", pack_eligible |-> TRUE]>>}
MCAllProducts == {AllProducts}
MCWallet == [o \in Keys |-> 20]

EarnTerms(destination) ==
    [kind |-> "Earn", destination |-> destination, auto_packs |-> TRUE, stock_index |-> 1,
     target_price |-> 0, steps |-> 0, interval |-> 0, ttl |-> 0, slippage_bps |-> 0]
OrderTerms(kind, steps) ==
    [EarnTerms("Stocks") EXCEPT !.kind = kind, !.steps = steps, !.interval = 1, !.ttl = 2,
                                !.target_price = 2, !.slippage_bps = 1]
MCEarnTerms == {EarnTerms("Packs")}
MCOrderTerms == {OrderTerms("Limit", 0), OrderTerms("Dca", 2)}
MCLimitTerms == {OrderTerms("Limit", 0)}
MCWhole == {[mantissa |-> 1, shift |-> 0]}
MCFraction == {[mantissa |-> 5, shift |-> -2]}
MCMultipliers == MCWhole \cup MCFraction
MCDcaTerms == {OrderTerms("Dca", 2)}

-----------------------------------------------------------------------------
\* docs/EARN-PACKS.md:11: "Owner withdrawal/cancellation redeems tracked
\* shares, settles fees, and pays available principal and claimable net yield".
OrdersCanBeCancelled ==
    \A k \in PositionIds :
        positions[k].status = "Active" /\ positions[k].kind # "Earn" => ENABLED Cancel(k)
=============================================================================
