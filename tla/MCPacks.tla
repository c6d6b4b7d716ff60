------------------------------ MODULE MCPacks ------------------------------
(***************************************************************************)
(* Small instances of Packs, and what an owner can always bring about.      *)
(***************************************************************************)
EXTENDS Packs, Functions, TLC

CONSTANTS alice, bob, b1, b2, m1, m2

Stock(m, e) == [mint |-> m, pack_eligible |-> e]
MCProductSets == {{"Packs"}, {"Packs", "Lucky"}}
MCOpenProducts == {{"Packs", "Lucky"}}
MCPlainProducts == {{"Packs"}}
MCStockLists == {<<Stock("A", TRUE), Stock("B", FALSE), Stock("C", TRUE)>>}
MCTwoLists == MCStockLists \cup {<<Stock("A", FALSE), Stock("B", TRUE)>>}
MCSymmetry == Permutations(ManifestIds) \cup Permutations(BatchIds)
MCOneStock == {<<Stock("A", FALSE), Stock("B", TRUE)>>}
MCAliceRich == [o \in Keys |-> IF o = alice THEN 2 * PackPrice ELSE 0]

-----------------------------------------------------------------------------
(* Progress: time passes, and somebody keeps submitting the instructions a  *)
(* pack can leave by.  Nobody has to settle, fulfil, unpause or fund.       *)

Exit(k) == RefundPack(k) \/ LuckyRefund(k) \/ Bank(k)
                \/ \E i \in 0..MaxStocks : LuckyResolve(k, i)

PatientSpec == Spec /\ WF_vars(Tick) /\ \A k \in Packs : WF_vars(Exit(k))

\* Under that fairness every opened pack ends as stock or as cash, though the
\* house pauses, drains the pool and never answers the draw.
EveryPackEnds ==
    \A k \in Packs : Live(k) ~> packs[k].status \in {"Settled", "Refunded"}
=============================================================================
