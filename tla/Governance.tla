----------------------------- MODULE Governance -----------------------------
(***************************************************************************)
(* The configuration account on its own: an admin that pauses, reconfigures *)
(* access, hands over and publishes manifests, interleaved with users whose *)
(* deposits and purchases are admitted.                                     *)
(***************************************************************************)
EXTENDS StockroomConfig

CONSTANTS Deposits     \* amounts of one deposit or purchase

ASSUME DepositAssumption == Deposits \subseteq Nat

\* The products the admitting instructions ask for: create_position and
\* deposit_more through position_products, buy_batch directly.
AdmittedProducts == {{"Earn"}, {"Earn", "StockYield"}, {"Limit"}, {"Dca"}, {"Packs"}}

AdmitDeposit(owner, amount, products) ==
    /\ Admit(owner, amount, products)
    /\ UNCHANGED manifests

Next ==
    \/ AdminStep
    \/ \E owner \in Keys, amount \in Deposits, products \in AdmittedProducts :
          AdmitDeposit(owner, amount, products)

Spec == ConfigInit /\ [][Next]_configVars
=============================================================================
