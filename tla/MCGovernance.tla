---------------------------- MODULE MCGovernance ----------------------------
(***************************************************************************)
(* Two keys, two manifest versions, three submissions of which two share a  *)
(* mint, and limits on both sides of the sums the deposits can reach.       *)
(***************************************************************************)
EXTENDS Governance

CONSTANTS alice, bob, m1, m2

MCProductSets == {{}, {"Earn", "StockYield"}, {"Packs"}}
Stock(m, e) == [mint |-> m, pack_eligible |-> e]
MCStockLists == {<<Stock("A", TRUE)>>, <<Stock("B", FALSE)>>, <<Stock("B", TRUE), Stock("A", FALSE)>>}
=============================================================================
