---------------------------- MODULE PackPromise ----------------------------
(***************************************************************************)
(* What a pack promises its owner, without accounts, clocks, solvers or     *)
(* administrators.  A pack is worth its price, or its stake if it is played *)
(* for; a draw may replace that worth by an entry of the payout table, at   *)
(* most twice; and the worth is handed over once, as stock or as cash.      *)
(***************************************************************************)
EXTENDS StockroomMath

CONSTANTS
    Packs,    \* the packs
    Outcomes, \* the payout buckets a draw may fall in
    Price,    \* what a plain pack is worth until it is settled or returned
    Stake     \* what a pack that is played for starts with

VARIABLES
    phase,    \* "none", "rolling", "drawn", "delivered" or "returned"
    owed,     \* what the owner would take away if no further draw happened
    rolls     \* payout draws asked for so far

vars == <<phase, owed, rolls>>

Init ==
    /\ phase = [k \in Packs |-> "none"]
    /\ owed = [k \in Packs |-> 0]
    /\ rolls = [k \in Packs |-> 0]

Become(k, p, worth, n) ==
    /\ phase' = [phase EXCEPT ![k] = p]
    /\ owed' = [owed EXCEPT ![k] = worth]
    /\ rolls' = [rolls EXCEPT ![k] = n]

Issue(k) ==
    /\ phase[k] = "none"
    /\ Become(k, "rolling", Price, 0) \/ Become(k, "rolling", Stake, 1)

\* The stock of a plain pack is drawn; its worth is not at stake.
Select(k) ==
    /\ phase[k] = "rolling" /\ rolls[k] = 0
    /\ Become(k, "drawn", owed[k], 0)

Draw(k, bucket) ==
    /\ phase[k] = "rolling" /\ rolls[k] > 0
    /\ Become(k, "drawn", LuckyPayout(owed[k], bucket), rolls[k])

RollAgain(k) ==
    /\ phase[k] = "drawn" /\ rolls[k] = 1
    /\ Become(k, "rolling", owed[k], 2)

Deliver(k) ==
    /\ phase[k] = "drawn"
    /\ Become(k, "delivered", 0, rolls[k])

Return(k) ==
    /\ phase[k] \in {"rolling", "drawn"}
    /\ Become(k, "returned", 0, rolls[k])

Next ==
    \E k \in Packs :
        \/ Issue(k) \/ Select(k) \/ RollAgain(k) \/ Deliver(k) \/ Return(k)
        \/ \E bucket \in Outcomes : Draw(k, bucket)

Spec == Init /\ [][Next]_vars
=============================================================================
