----------------------------- MODULE PacksProofs -----------------------------
(***************************************************************************)
(* Packs, for every number of keys, batches, packs, prices, fees, timeouts  *)
(* and administrators: the inductive invariant Inv, and from it the type     *)
(* invariant, the backing of every batch and every pack, the single fee and  *)
(* the bound of a Lucky pack.                                                *)
(*                                                                           *)
(* Inv is a conjunction of parts over disjoint accounts, so that the proof   *)
(* of an instruction only speaks of the accounts it writes: BatchesInv of    *)
(* batches and their cash, PacksInv of packs and their cash, BalancesInv of  *)
(* everything else; OpenedInOrder alone relates batches and packs.           *)
(***************************************************************************)
EXTENDS Packs, ConfigProofs

-----------------------------------------------------------------------------
(* The inductive invariant                                                  *)

\* A batch account with c USDC: a batch that does not exist is blank, one that
\* does has an owner and the fee of its source, and c is its packs' price.
\* remaining + next_open never grows, so every index it opens is a pack's.
BatchGood(r, c) ==
    /\ r \in BatchRecord
    /\ r.remaining + r.next_open <= MaxCount
    /\ r.source = "None" => r = NoBatch
    /\ r.source # "None" => r.owner \in Keys
    /\ r.unit_fee = IF r.source = "Purchased" THEN UnitFee ELSE 0
    /\ c = r.remaining * PackPrice

\* The same of a pack account with c USDC; the four conjuncts of a live pack
\* are an owner, Liability, FeeChargedOnce and LuckyAtMostFourStakes.
PackLive(p) == p.status \in {"Pending", "Selected", "LuckyReady"}
PackGood(p, c) ==
    /\ p \in PackRecord
    /\ IF PackLive(p)
       THEN /\ p.owner \in Keys
            /\ p.lucky <=> p.round > 0
            /\ IF p.lucky
               THEN /\ p.unit_fee = 0
                    /\ p.stake <= p.round * NewStake
                    /\ p.budget <= 2 * p.stake
                    /\ c = IF p.status = "Pending" THEN 2 * p.stake ELSE p.budget
               ELSE /\ p.budget + p.unit_fee = PackPrice
                    /\ c = PackPrice
       ELSE c = 0

BatchesInv ==
    /\ batches \in [BatchIds -> BatchRecord]
    /\ batch_cash \in [BatchIds -> Nat]
    /\ \A b \in BatchIds : BatchGood(batches[b], batch_cash[b])

PacksInv ==
    /\ packs \in [Packs -> PackRecord]
    /\ pack_cash \in [Packs -> Nat]
    /\ \A k \in Packs : PackGood(packs[k], pack_cash[k])

\* Pack accounts come into being in order: from next_open on there is none.
OpenedInOrder ==
    \A b \in BatchIds : \A i \in 0..(MaxCount - 1) :
        i >= batches[b].next_open => packs[<<b, i>>].status = "Absent"

BalancesInv ==
    /\ request \in [Packs -> RequestRecord]
    /\ pool \in [enabled : BOOLEAN, max_stake : Nat]
    /\ execution \in [enabled : BOOLEAN, max_budget : Nat]
    /\ claimable \in [Keys -> Nat]
    /\ wallet \in [Keys -> Nat]
    /\ pool_cash \in Nat /\ treasury \in Nat /\ market \in Nat /\ vault \in Nat

Inv == ConfigInv /\ BatchesInv /\ PacksInv /\ OpenedInOrder /\ BalancesInv

-----------------------------------------------------------------------------
(* Arithmetic                                                               *)

\* The fee of a pack is defined and at most its price.
LEMMA UnitFeeBound == UnitFee \in Nat /\ UnitFee <= PackPrice
<1>1. /\ PackPrice \in Nat /\ PackFeeBps \in Nat /\ PackFeeBps <= BPS
      /\ BPS \in Nat /\ BPS > 0 /\ U64MAX \in Nat /\ PackPrice <= U64MAX
  BY PackAssumption, BPSAssumption, U64Assumption
<1>2. PackPrice * PackFeeBps <= PackPrice * BPS /\ PackPrice * PackFeeBps \in Nat
  BY <1>1
<1> DEFINE q == (PackPrice * PackFeeBps) \div BPS
<1>3. q \in Nat /\ q <= PackPrice
  <2>1. \A n \in Nat : n <= PackPrice * BPS => n \div BPS \in Nat /\ n \div BPS <= PackPrice
    BY <1>1, Z3
  <2> QED BY <1>2, <2>1
<1>4. UnitFee = q
  <2>1. BPS # 0 /\ ~(q > U64MAX) /\ ~(PackFeeBps > BPS)
    BY <1>1, <1>3
  <2> QED BY <2>1 DEF UnitFee, FeeOf, MulDiv
<1> QED BY <1>3, <1>4

\* A draw pays a natural number and never more than both stakes.
LEMMA PayoutBound ==
  ASSUME NEW stake \in Nat, NEW bucket \in Buckets, LuckyPayout(stake, bucket) # Err
  PROVE  LuckyPayout(stake, bucket) \in Nat /\ LuckyPayout(stake, bucket) <= 2 * stake
<1>1. Quarters(bucket) \in {1, 2, 4, 6, 8}
  BY DEF Quarters, Buckets
<1>2. LuckyPayout(stake, bucket) = (stake * Quarters(bucket)) \div 4
  BY DEF LuckyPayout, Buckets
<1> QED BY <1>1, <1>2

\* What is left in a live pack is a natural number: the stake of a new Lucky
\* pack, and the budget of a plain one.
LEMMA NewStakeNat == NewStake \in Nat /\ NewStake + UnitFee = PackPrice
BY UnitFeeBound, PackAssumption DEF NewStake

-----------------------------------------------------------------------------
(* Writing one account                                                      *)

\* Replacing batch b, and its cash, by good ones keeps every batch good.
LEMMA WriteBatch ==
  ASSUME BatchesInv, NEW b \in BatchIds, NEW r, NEW c, BatchGood(r, c),
         batches' = [batches EXCEPT ![b] = r],
         batch_cash' = [batch_cash EXCEPT ![b] = c]
  PROVE  BatchesInv'
<1>1. r \in BatchRecord /\ c \in Nat
  <2>1. r \in BatchRecord /\ r.remaining \in Nat /\ c = r.remaining * PackPrice
    BY DEF BatchGood, BatchRecord
  <2> QED BY <2>1, PackAssumption
<1>2. \A a \in BatchIds : BatchGood(batches'[a], batch_cash'[a])
  BY DEF BatchesInv
<1> QED BY <1>1, <1>2 DEF BatchesInv

\* Replacing pack k, and its cash, by good ones keeps every pack good.
LEMMA WritePack ==
  ASSUME PacksInv, NEW k \in Packs, NEW p, NEW c \in Nat, PackGood(p, c),
         packs' = [packs EXCEPT ![k] = p],
         pack_cash' = [pack_cash EXCEPT ![k] = c]
  PROVE  PacksInv'
<1>1. p \in PackRecord
  BY DEF PackGood
<1>2. \A j \in Packs : PackGood(packs'[j], pack_cash'[j])
  BY DEF PacksInv
<1> QED BY <1>1, <1>2 DEF PacksInv

\* An opened pack changes; no batch opens another.
LEMMA WriteOpened ==
  ASSUME PacksInv, OpenedInOrder, NEW k \in Packs, NEW p, packs[k].status # "Absent",
         packs' = [packs EXCEPT ![k] = p],
         \A b \in BatchIds : batches'[b].next_open = batches[b].next_open
  PROVE  OpenedInOrder'
BY DEF PacksInv, OpenedInOrder, Packs

-----------------------------------------------------------------------------
(* Batch instructions                                                       *)

\* A new batch of count packs of one source is good with the price of each.
LEMMA NewBatchGood ==
  ASSUME NEW owner \in Keys, NEW m \in ManifestIds, NEW count \in 1..MaxCount,
         NEW source \in {"Purchased", "Earned"}, NEW fee,
         fee = IF source = "Purchased" THEN UnitFee ELSE 0
  PROVE  BatchGood(NewBatch(owner, m, count, fee, source), count * PackPrice)
BY UnitFeeBound, PackAssumption DEF BatchGood, NewBatch, BatchRecord, Sources, NoBatch

LEMMA BuyInv ==
  ASSUME Inv, NEW b \in BatchIds, NEW owner \in Keys, NEW count \in 1..MaxCount,
         Buy(b, owner, count)
  PROVE  Inv'
<1> DEFINE total == count * PackPrice
           m     == config.active_manifest
<1>1. total \in Nat
  BY PackAssumption
<1>2. m \in ManifestIds
  BY DEF Inv, ConfigInv, ConfigTypeOK, ConfigRecord, Buy
<1>3. batches[b] = NoBatch /\ batch_cash[b] = 0
  BY PackAssumption DEF Inv, BatchesInv, BatchGood, Buy, NoBatch
<1>4. /\ batches' = [batches EXCEPT ![b] = NewBatch(owner, m, count, UnitFee, "Purchased")]
      /\ batch_cash' = [batch_cash EXCEPT ![b] = total]
  <2>1. batch_cash[b] + total = total
    BY <1>1, <1>3
  <2>2. batch_cash' = [batch_cash EXCEPT ![b] = batch_cash[b] + total]
    BY DEF Buy
  <2> QED BY <2>1, <2>2 DEF Buy
<1>5. ConfigInv'
  BY <1>1, AdmitInv DEF Buy, Inv
<1>6. BatchesInv'
  <2>1. BatchGood(NewBatch(owner, m, count, UnitFee, "Purchased"), total)
    BY <1>2, NewBatchGood
  <2> QED BY <2>1, <1>4, WriteBatch DEF Inv
<1>7. PacksInv'
  BY DEF Buy, Inv, PacksInv
<1>8. OpenedInOrder'
  BY <1>3, <1>4 DEF Buy, Inv, BatchesInv, OpenedInOrder, NewBatch, NoBatch
<1>9. BalancesInv'
  BY <1>1 DEF Buy, Inv, BalancesInv
<1> QED BY <1>5, <1>6, <1>7, <1>8, <1>9 DEF Inv

LEMMA FromYieldInv ==
  ASSUME Inv, NEW b \in BatchIds, NEW owner \in Keys, FromYield(b, owner)
  PROVE  Inv'
<1> DEFINE split == PackAllocation(claimable[owner], PackPrice)
           total == split.count * PackPrice
           m     == config.active_manifest
<1>1. split.count \in 1..MaxCount /\ split.remainder \in Nat /\ total \in Nat
  <2>1. claimable[owner] \in Nat /\ PackPrice \in Nat \ {0}
    BY PackAssumption DEF Inv, BalancesInv
  <2>2. split.count \in 1..MaxCount
    BY DEF FromYield
  <2>3. claimable[owner] % PackPrice \in Nat
    BY <2>1
  <2> QED BY <2>1, <2>2, <2>3, PackAssumption DEF PackAllocation
<1>2. m \in ManifestIds
  BY DEF Inv, ConfigInv, ConfigTypeOK, ConfigRecord, FromYield
<1>3. batches[b] = NoBatch /\ batch_cash[b] = 0
  BY PackAssumption DEF Inv, BatchesInv, BatchGood, FromYield, NoBatch
<1>4. /\ batches' = [batches EXCEPT ![b] = NewBatch(owner, m, split.count, 0, "Earned")]
      /\ batch_cash' = [batch_cash EXCEPT ![b] = total]
      /\ claimable' = [claimable EXCEPT ![owner] = split.remainder]
  <2>1. batch_cash[b] + total = total
    BY <1>1, <1>3
  <2>2. batch_cash' = [batch_cash EXCEPT ![b] = batch_cash[b] + total]
    BY DEF FromYield
  <2> QED BY <2>1, <2>2 DEF FromYield
<1> HIDE DEF split
<1>5. ConfigInv'
  BY ConfigFrame DEF FromYield, Inv
<1>6. BatchesInv'
  <2>1. BatchGood(NewBatch(owner, m, split.count, 0, "Earned"), total)
    BY <1>1, <1>2, NewBatchGood
  <2> QED BY <2>1, <1>4, WriteBatch DEF Inv
<1>7. PacksInv'
  BY DEF FromYield, Inv, PacksInv
<1>8. OpenedInOrder'
  BY <1>3, <1>4 DEF FromYield, Inv, BatchesInv, OpenedInOrder, NewBatch, NoBatch
<1>9. BalancesInv'
  BY <1>1, <1>4 DEF FromYield, Inv, BalancesInv
<1> QED BY <1>5, <1>6, <1>7, <1>8, <1>9 DEF Inv

\* Taking n packs out of a batch, with their price, keeps it good, opened or not.
LEMMA FewerGood ==
  ASSUME NEW r, NEW c, BatchGood(r, c), NEW n \in 1..r.remaining
  PROVE  /\ n * PackPrice \in Nat
         /\ c - n * PackPrice \in Nat
         /\ BatchGood([r EXCEPT !.remaining = @ - n], c - n * PackPrice)
         /\ n = 1 => BatchGood([r EXCEPT !.remaining = @ - 1, !.next_open = @ + 1], c - PackPrice)
<1>1. /\ r \in BatchRecord /\ c = r.remaining * PackPrice
      /\ r.remaining \in Nat /\ n \in Nat /\ n <= r.remaining
      /\ PackPrice \in Nat /\ MaxCount \in Nat
  BY PackAssumption DEF BatchGood, BatchRecord
<1>2. c - n * PackPrice = (r.remaining - n) * PackPrice
  BY <1>1
<1>3. n * PackPrice \in Nat /\ (r.remaining - n) * PackPrice \in Nat
  BY <1>1
<1>4. r.source # "None"
  BY <1>1 DEF BatchGood, NoBatch
<1>5. BatchGood([r EXCEPT !.remaining = @ - n], c - n * PackPrice)
  BY <1>1, <1>2, <1>4 DEF BatchGood, BatchRecord
<1>6. n = 1 => BatchGood([r EXCEPT !.remaining = @ - 1, !.next_open = @ + 1], c - PackPrice)
  <2> SUFFICES ASSUME n = 1
               PROVE  BatchGood([r EXCEPT !.remaining = @ - 1, !.next_open = @ + 1], c - PackPrice)
    OBVIOUS
  <2> DEFINE q == [r EXCEPT !.remaining = @ - 1, !.next_open = @ + 1]
  <2>1. c - PackPrice = (r.remaining - 1) * PackPrice
    BY <1>1
  <2>2. /\ r.next_open \in Nat /\ r.remaining >= 1 /\ r.remaining + r.next_open <= MaxCount
    BY <1>1 DEF BatchGood, BatchRecord
  <2>3. /\ q.remaining = r.remaining - 1 /\ q.next_open = r.next_open + 1
        /\ q.source = r.source /\ q.owner = r.owner /\ q.unit_fee = r.unit_fee
    BY <1>1 DEF BatchRecord
  <2>4. q \in BatchRecord
    <3>1. r.remaining - 1 \in 0..MaxCount /\ r.next_open + 1 \in 0..MaxCount
      BY <1>1, <2>2
    <3> QED BY <1>1, <3>1 DEF BatchRecord
  <2> HIDE DEF q
  <2>5. BatchGood(q, c - PackPrice)
    BY <1>1, <1>4, <2>1, <2>2, <2>3, <2>4 DEF BatchGood
  <2> QED BY <2>5 DEF q
<1> QED BY <1>2, <1>3, <1>5, <1>6

LEMMA GiftInv ==
  ASSUME Inv, NEW b \in BatchIds, NEW gift \in BatchIds, NEW recipient \in Keys,
         NEW count \in 1..MaxCount, Gift(b, gift, recipient, count)
  PROVE  Inv'
<1> DEFINE total == count * PackPrice
           given == NewBatch(recipient, batches[b].manifest, count, batches[b].unit_fee,
                             batches[b].source)
           left  == [batches[b] EXCEPT !.remaining = @ - count]
<1>1. /\ BatchGood(batches[b], batch_cash[b])
      /\ batches[b] \in BatchRecord
      /\ count \in 1..batches[b].remaining
      /\ batches[b].source \in {"Purchased", "Earned"}
  BY DEF Inv, BatchesInv, Gift, BatchRecord, Sources
<1>2. /\ total \in Nat /\ batch_cash[b] - total \in Nat
      /\ BatchGood(left, batch_cash[b] - total)
  BY <1>1, FewerGood
<1>3. BatchGood(given, total)
  BY <1>1, PackAssumption DEF BatchGood, NewBatch, BatchRecord, Sources, NoBatch
<1>4. gift # b /\ batches[gift] = NoBatch /\ batch_cash[gift] = 0
  BY PackAssumption DEF Inv, BatchesInv, BatchGood, Gift, NoBatch
<1>5. batches' = [batches EXCEPT ![b].remaining = @ - count, ![gift] = given]
  BY DEF Gift
<1>6. batch_cash' = [batch_cash EXCEPT ![b] = batch_cash[b] - total, ![gift] = total]
  <2>1. batch_cash[gift] + total = total
    BY <1>2, <1>4
  <2>2. batch_cash' = [batch_cash EXCEPT ![b] = @ - total, ![gift] = @ + total]
    BY DEF Gift
  <2> QED BY <2>1, <2>2, <1>4 DEF Inv, BatchesInv
<1> HIDE DEF total, given
<1>7. /\ batches'[b] = left /\ batches'[gift] = given
      /\ \A a \in BatchIds \ {b, gift} : batches'[a] = batches[a]
  BY <1>4, <1>5 DEF Inv, BatchesInv
<1>8. BatchesInv'
  <2>1. left \in BatchRecord /\ given \in BatchRecord
    BY <1>2, <1>3 DEF BatchGood
  <2>2. batches' \in [BatchIds -> BatchRecord]
    BY <2>1, <1>5, <1>7 DEF Inv, BatchesInv
  <2>3. batch_cash' \in [BatchIds -> Nat]
    BY <1>2, <1>6 DEF Inv, BatchesInv
  <2>4. ASSUME NEW a \in BatchIds PROVE BatchGood(batches'[a], batch_cash'[a])
    <3>1. batch_cash'[b] = batch_cash[b] - total /\ batch_cash'[gift] = total
      BY <1>4, <1>6 DEF Inv, BatchesInv
    <3>2. CASE a = b
      BY <3>1, <3>2, <1>2, <1>7
    <3>3. CASE a = gift
      BY <3>1, <3>3, <1>3, <1>7
    <3>4. CASE a \notin {b, gift}
      BY <3>4, <1>6, <1>7 DEF Inv, BatchesInv
    <3> QED BY <3>2, <3>3, <3>4
  <2> QED BY <2>2, <2>3, <2>4 DEF BatchesInv
<1>9. ConfigInv'
  BY ConfigFrame DEF Gift, Inv
<1>10. PacksInv'
  BY DEF Gift, Inv, PacksInv
<1>11. OpenedInOrder'
  <2>1. \A a \in BatchIds : batches'[a].next_open = batches[a].next_open
    BY <1>1, <1>4, <1>7 DEF given, NewBatch, NoBatch, BatchRecord
  <2> QED BY <2>1 DEF Gift, Inv, OpenedInOrder
<1>12. BalancesInv'
  BY DEF Gift, Inv, BalancesInv
<1> QED BY <1>8, <1>9, <1>10, <1>11, <1>12 DEF Inv

LEMMA RefundBatchInv ==
  ASSUME Inv, NEW b \in BatchIds, NEW count \in 1..MaxCount, RefundBatch(b, count)
  PROVE  Inv'
<1> DEFINE total == count * PackPrice
           left  == [batches[b] EXCEPT !.remaining = @ - count]
<1>1. BatchGood(batches[b], batch_cash[b]) /\ count \in 1..batches[b].remaining
  BY DEF Inv, BatchesInv, RefundBatch
<1>2. total \in Nat /\ BatchGood(left, batch_cash[b] - total)
  BY <1>1, FewerGood
<1>3. /\ batches' = [batches EXCEPT ![b] = left]
      /\ batch_cash' = [batch_cash EXCEPT ![b] = batch_cash[b] - total]
  BY DEF RefundBatch
<1>4. BatchesInv'
  BY <1>2, <1>3, WriteBatch DEF Inv
<1>5. ConfigInv'
  BY ConfigFrame DEF RefundBatch, Inv
<1>6. PacksInv'
  BY DEF RefundBatch, Inv, PacksInv
<1>7. OpenedInOrder'
  BY <1>3 DEF RefundBatch, Inv, BatchesInv, BatchRecord, OpenedInOrder
<1>8. BalancesInv'
  <2>1. batches[b].owner \in Keys
    BY <1>1 DEF BatchGood, NoBatch
  <2> QED BY <1>2, <2>1 DEF RefundBatch, Inv, BalancesInv
<1> QED BY <1>4, <1>5, <1>6, <1>7, <1>8 DEF Inv

-----------------------------------------------------------------------------
(* Opening a pack                                                           *)

\* What opening needs and does, whichever way: the next pack is absent and its
\* account empty, the batch stays good, and the order of openings is kept.
LEMMA OpenNext ==
  ASSUME Inv, NEW b \in BatchIds, CanOpen(b), TakeFromBatch(b),
         NEW p, p \in PackRecord,
         packs' = [packs EXCEPT ![<<b, batches[b].next_open>>] = p]
  PROVE  /\ <<b, batches[b].next_open>> \in Packs
         /\ pack_cash[<<b, batches[b].next_open>>] = 0
         /\ batches[b].owner \in Keys /\ batches[b].source \in {"Purchased", "Earned"}
         /\ batches[b].manifest \in ManifestIds \cup {NoManifest}
         /\ batches[b].unit_fee = IF batches[b].source = "Purchased" THEN UnitFee ELSE 0
         /\ BatchesInv'
         /\ OpenedInOrder'
<1> DEFINE n == batches[b].next_open
           k == <<b, n>>
           left == [batches[b] EXCEPT !.remaining = @ - 1, !.next_open = @ + 1]
<1>1. /\ BatchGood(batches[b], batch_cash[b])
      /\ batches[b] \in BatchRecord
      /\ 1 \in 1..batches[b].remaining
  BY DEF Inv, BatchesInv, CanOpen, BatchRecord
<1>2. /\ n \in Nat /\ batches[b].remaining \in Nat /\ n <= MaxCount - 1
      /\ MaxCount \in Nat
  BY <1>1, PackAssumption DEF BatchGood, BatchRecord
<1>3. n \in 0..(MaxCount - 1) /\ k \in Packs
  BY <1>2 DEF Packs
<1>4. packs[k].status = "Absent"
  BY <1>2, <1>3 DEF Inv, OpenedInOrder
<1>5. pack_cash[k] = 0
  BY <1>3, <1>4 DEF Inv, PacksInv, PackGood, PackLive
<1>6. batches[b].source \in {"Purchased", "Earned"} /\ batches[b].owner \in Keys
  BY <1>1 DEF BatchGood, BatchRecord, Sources, NoBatch
<1>7. BatchesInv'
  <2>1. 1 * PackPrice = PackPrice
    BY PackAssumption
  <2>2. BatchGood(left, batch_cash[b] - PackPrice)
    BY <1>1, FewerGood
  <2>3. batches' = [batches EXCEPT ![b] = left]
    BY DEF TakeFromBatch
  <2>4. batch_cash' = [batch_cash EXCEPT ![b] = batch_cash[b] - PackPrice]
    BY DEF TakeFromBatch
  <2> HIDE DEF left
  <2> QED BY <2>2, <2>3, <2>4, WriteBatch DEF Inv
<1>8. OpenedInOrder'
  <2> SUFFICES ASSUME NEW a \in BatchIds, NEW i \in 0..(MaxCount - 1),
                      i >= batches'[a].next_open
               PROVE  packs'[<<a, i>>].status = "Absent"
    BY DEF OpenedInOrder
  <2>1. batches'[b].next_open = n + 1
    BY <1>1 DEF TakeFromBatch, Inv, BatchesInv, BatchRecord
  <2>2. a # b => batches'[a] = batches[a]
    BY DEF TakeFromBatch, Inv, BatchesInv
  <2>3. <<a, i>> \in Packs
    BY DEF Packs
  <2>4. <<a, i>> # k
    BY <2>1, <1>2
  <2>5. packs'[<<a, i>>] = packs[<<a, i>>]
    BY <2>3, <2>4 DEF Inv, PacksInv
  <2>6. i >= batches[a].next_open
    BY <2>1, <2>2, <1>2
  <2> QED BY <2>5, <2>6 DEF Inv, OpenedInOrder
<1> QED BY <1>1, <1>3, <1>5, <1>6, <1>7, <1>8 DEF BatchGood, BatchRecord

LEMMA FreshRequestType == FreshRequest \in RequestRecord
BY DEF FreshRequest, NoRequest, RequestRecord, Buckets

\* A new pack is good with the cash its kind is opened with.
LEMMA OpenedGood ==
  ASSUME Inv, NEW b \in BatchIds, NEW lucky \in BOOLEAN,
         batches[b].owner \in Keys, batches[b].manifest \in ManifestIds \cup {NoManifest},
         batches[b].unit_fee \in {0, UnitFee}, lucky => batches[b].unit_fee = UnitFee
  PROVE  /\ Opened(b, lucky) \in PackRecord
         /\ PackGood(Opened(b, lucky), IF lucky THEN 2 * NewStake ELSE PackPrice)
<1> DEFINE fee == batches[b].unit_fee
<1>1. /\ fee \in Nat /\ PackPrice - fee \in Nat /\ PackPrice \in Nat
      /\ NewStake \in Nat /\ (lucky => PackPrice - fee = NewStake)
  BY UnitFeeBound, NewStakeNat, PackAssumption DEF NewStake
<1>2. Opened(b, lucky) \in PackRecord
  BY <1>1, PackAssumption DEF Opened, PackRecord, Statuses
<1>3. PackGood(Opened(b, lucky), IF lucky THEN 2 * NewStake ELSE PackPrice)
  BY <1>1, <1>2 DEF PackGood, PackLive, Opened
<1> QED BY <1>2, <1>3

LEMMA OpenPackInv ==
  ASSUME Inv, NEW b \in BatchIds, OpenPack(b)
  PROVE  Inv'
<1> DEFINE k == <<b, batches[b].next_open>>
           p == Opened(b, FALSE)
<1>1. /\ BatchGood(batches[b], batch_cash[b])
      /\ batches[b] \in BatchRecord /\ batches[b].source # "None"
  BY DEF Inv, BatchesInv, OpenPack, CanOpen, BatchGood, NoBatch
<1>2. p \in PackRecord /\ PackGood(p, PackPrice)
  BY <1>1, OpenedGood DEF BatchGood, BatchRecord
<1>3. packs' = [packs EXCEPT ![k] = p]
  BY DEF OpenPack
<1>4. k \in Packs /\ pack_cash[k] = 0 /\ BatchesInv' /\ OpenedInOrder'
  BY <1>2, <1>3, OpenNext DEF OpenPack
<1>5. PacksInv'
  <2>1. pack_cash[k] + PackPrice = PackPrice /\ PackPrice \in Nat
    BY <1>4, PackAssumption
  <2>2. pack_cash' = [pack_cash EXCEPT ![k] = pack_cash[k] + PackPrice]
    BY DEF OpenPack
  <2>3. pack_cash' = [pack_cash EXCEPT ![k] = PackPrice]
    BY <2>1, <2>2
  <2> HIDE DEF p, k
  <2> QED BY <1>2, <1>3, <1>4, <2>1, <2>3, WritePack DEF Inv
<1>6. ConfigInv'
  BY ConfigFrame DEF OpenPack, Inv
<1>7. BalancesInv'
  BY FreshRequestType DEF OpenPack, Inv, BalancesInv
<1> QED BY <1>4, <1>5, <1>6, <1>7 DEF Inv

LEMMA LuckyOpenInv ==
  ASSUME Inv, NEW b \in BatchIds, LuckyOpen(b)
  PROVE  Inv'
<1> DEFINE k == <<b, batches[b].next_open>>
           p == Opened(b, TRUE)
           fee == batches[b].unit_fee
           stake == PackPrice - fee
<1>1. /\ BatchGood(batches[b], batch_cash[b])
      /\ batches[b] \in BatchRecord /\ batches[b].source = "Purchased"
  BY DEF Inv, BatchesInv, LuckyOpen
<1>2. fee = UnitFee /\ fee \in Nat /\ stake = NewStake /\ stake \in Nat
  BY <1>1, UnitFeeBound, NewStakeNat DEF BatchGood, NewStake
<1>3. p \in PackRecord /\ PackGood(p, 2 * NewStake)
  BY <1>1, <1>2, OpenedGood DEF BatchGood, BatchRecord
<1>4. packs' = [packs EXCEPT ![k] = p]
  BY DEF LuckyOpen
<1>5. k \in Packs /\ pack_cash[k] = 0 /\ BatchesInv' /\ OpenedInOrder'
  BY <1>3, <1>4, OpenNext DEF LuckyOpen
<1>6. PacksInv'
  <2>1. /\ pack_cash[k] + (PackPrice + stake) - fee = 2 * NewStake
        /\ 2 * NewStake \in Nat
    BY <1>2, <1>5, PackAssumption
  <2>2. pack_cash' = [pack_cash EXCEPT ![k] = pack_cash[k] + (PackPrice + stake) - fee]
    BY DEF LuckyOpen
  <2>3. pack_cash' = [pack_cash EXCEPT ![k] = 2 * NewStake]
    BY <2>1, <2>2
  <2> HIDE DEF p, k
  <2> QED BY <1>3, <1>4, <1>5, <2>1, <2>3, WritePack DEF Inv
<1>7. ConfigInv'
  BY ConfigFrame DEF LuckyOpen, Inv
<1>8. BalancesInv'
  <2>1. treasury' \in Nat
    BY <1>2 DEF LuckyOpen, Inv, BalancesInv
  <2>2. pool_cash' \in Nat
    BY <1>2 DEF LuckyOpen, FundRoll, Inv, BalancesInv
  <2> QED BY <2>1, <2>2, FreshRequestType DEF LuckyOpen, Inv, BalancesInv
<1> QED BY <1>5, <1>6, <1>7, <1>8 DEF Inv

-----------------------------------------------------------------------------
(* Pack instructions                                                        *)

\* An instruction that writes one opened pack and its cash, and no batch and no
\* configuration, keeps all but BalancesInv when what it writes is good.
LEMMA PackStepInv ==
  ASSUME Inv, NEW k \in Packs, packs[k].status # "Absent",
         NEW p, NEW c \in Nat, PackGood(p, c),
         packs' = [packs EXCEPT ![k] = p],
         pack_cash' = [pack_cash EXCEPT ![k] = c],
         UNCHANGED <<configVars, batches, batch_cash>>,
         BalancesInv'
  PROVE  Inv'
<1>1. PacksInv'
  BY WritePack DEF Inv
<1>2. OpenedInOrder'
  BY WriteOpened DEF Inv
<1>3. BatchesInv'
  BY DEF Inv, BatchesInv
<1>4. ConfigInv'
  BY ConfigFrame DEF Inv
<1> QED BY <1>1, <1>2, <1>3, <1>4 DEF Inv

LEMMA ResolvePackInv ==
  ASSUME Inv, NEW k \in Packs, NEW i \in 1..MaxStocks, ResolvePack(k, i)
  PROVE  Inv'
<1> DEFINE p == [packs[k] EXCEPT !.stock_index = i, !.status = "Selected"]
<1>1. PackGood(packs[k], pack_cash[k]) /\ pack_cash[k] \in Nat /\ packs[k] \in PackRecord
  BY DEF Inv, PacksInv
<1>2. PackGood(p, pack_cash[k])
  <2>1. i \in Nat
    BY ManifestAssumption
  <2>2. p \in PackRecord
    BY <1>1, <2>1 DEF PackRecord, Statuses
  <2>3. packs[k].status = "Pending" /\ ~packs[k].lucky
    BY DEF ResolvePack
  <2> QED BY <1>1, <2>2, <2>3 DEF PackGood, PackLive, PackRecord
<1>3. packs' = [packs EXCEPT ![k] = p]
  BY DEF ResolvePack
<1>4. pack_cash' = [pack_cash EXCEPT ![k] = pack_cash[k]]
  BY DEF ResolvePack, cash, Inv, PacksInv
<1>5. BalancesInv'
  BY DEF ResolvePack, cash, Inv, BalancesInv
<1>6. packs[k].status # "Absent" /\ UNCHANGED <<configVars, batches, batch_cash>>
  BY DEF ResolvePack, cash
<1> HIDE DEF p
<1> QED BY <1>1, <1>2, <1>3, <1>4, <1>5, <1>6, PackStepInv

LEMMA PayForStockInv ==
  ASSUME Inv, NEW k \in Packs, Settleable(k), PayForStock(k)
  PROVE  Inv'
<1> DEFINE p == [packs[k] EXCEPT !.status = "Settled"]
           c == pack_cash[k] - (packs[k].budget + packs[k].unit_fee)
<1>1. /\ PackGood(packs[k], pack_cash[k]) /\ pack_cash[k] \in Nat /\ packs[k] \in PackRecord
      /\ packs[k].status = "Selected"
  BY DEF Inv, PacksInv, Settleable
<1>2. packs[k].budget \in Nat /\ packs[k].unit_fee \in Nat
  BY <1>1 DEF PackRecord
<1>3. c = 0
  BY <1>1, <1>2 DEF PackGood, PackLive
<1>4. PackGood(p, 0)
  BY <1>1 DEF PackGood, PackLive, PackRecord, Statuses
<1>5. packs' = [packs EXCEPT ![k] = p]
  BY DEF PayForStock
<1>6. pack_cash' = [pack_cash EXCEPT ![k] = 0]
  <2>1. pack_cash' = [pack_cash EXCEPT ![k] = c]
    BY DEF PayForStock
  <2> QED BY <2>1, <1>3
<1>7. BalancesInv'
  BY <1>2 DEF PayForStock, Inv, BalancesInv
<1>8. packs[k].status # "Absent" /\ UNCHANGED <<configVars, batches, batch_cash>>
  BY <1>1 DEF PayForStock
<1> HIDE DEF p
<1> QED BY <1>4, <1>5, <1>6, <1>7, <1>8, PackStepInv

LEMMA RefundPackInv ==
  ASSUME Inv, NEW k \in Packs, RefundPack(k)
  PROVE  Inv'
<1> DEFINE p == [packs[k] EXCEPT !.status = "Refunded"]
<1>1. /\ PackGood(packs[k], pack_cash[k]) /\ pack_cash[k] \in Nat /\ packs[k] \in PackRecord
      /\ packs[k].status \in {"Pending", "Selected"} /\ ~packs[k].lucky
  BY DEF Inv, PacksInv, RefundPack
<1>2. pack_cash[k] - PackPrice = 0 /\ packs[k].owner \in Keys /\ PackPrice \in Nat
  BY <1>1, PackAssumption DEF PackGood, PackLive
<1>3. PackGood(p, 0)
  BY <1>1 DEF PackGood, PackLive, PackRecord, Statuses
<1>4. packs' = [packs EXCEPT ![k] = p]
  BY DEF RefundPack
<1>5. pack_cash' = [pack_cash EXCEPT ![k] = 0]
  <2>1. pack_cash' = [pack_cash EXCEPT ![k] = pack_cash[k] - PackPrice]
    BY DEF RefundPack
  <2> QED BY <2>1, <1>2
<1>6. BalancesInv'
  BY <1>2 DEF RefundPack, Inv, BalancesInv
<1>7. packs[k].status # "Absent" /\ UNCHANGED <<configVars, batches, batch_cash>>
  BY <1>1 DEF RefundPack
<1> HIDE DEF p
<1> QED BY <1>3, <1>4, <1>5, <1>6, <1>7, PackStepInv

-----------------------------------------------------------------------------
(* Lucky instructions                                                       *)

LEMMA LuckyResolveInv ==
  ASSUME Inv, NEW k \in Packs, NEW i \in 0..MaxStocks, LuckyResolve(k, i)
  PROVE  Inv'
<1> DEFINE reward == LuckyPayout(packs[k].stake, request[k].bucket)
           back   == 2 * packs[k].stake - reward
           p == [packs[k] EXCEPT !.status = "LuckyReady", !.budget = reward, !.stock_index = i]
<1>1. /\ PackGood(packs[k], pack_cash[k]) /\ pack_cash[k] \in Nat /\ packs[k] \in PackRecord
      /\ packs[k].status = "Pending" /\ packs[k].lucky
      /\ packs[k].stake \in Nat /\ packs[k].round \in 0..2
  BY DEF Inv, PacksInv, LuckyResolve, Resolvable, PackRecord
<1>2. reward \in Nat /\ reward <= 2 * packs[k].stake
  <2>1. request[k].bucket \in Buckets
    BY DEF Inv, BalancesInv, RequestRecord
  <2>2. reward # Err
    BY DEF LuckyResolve
  <2> QED BY <1>1, <2>1, <2>2, PayoutBound
<1> HIDE DEF reward
<1>3. pack_cash[k] - back = reward /\ back \in Nat
  BY <1>1, <1>2 DEF PackGood, PackLive
<1>4. PackGood(p, reward)
  <2>1. i \in Nat
    BY ManifestAssumption
  <2>2. p \in PackRecord
    BY <1>1, <1>2, <2>1 DEF PackRecord, Statuses
  <2> QED BY <1>1, <1>2, <2>2 DEF PackGood, PackLive, PackRecord
<1>5. packs' = [packs EXCEPT ![k] = p]
  BY DEF LuckyResolve, reward
<1>6. pack_cash' = [pack_cash EXCEPT ![k] = reward]
  <2>1. pack_cash' = [pack_cash EXCEPT ![k] = pack_cash[k] - back]
    BY DEF LuckyResolve, reward
  <2> QED BY <2>1, <1>3
<1>7. BalancesInv'
  <2>1. pool_cash' = pool_cash + back
    BY DEF LuckyResolve, reward
  <2> QED BY <1>3, <2>1 DEF LuckyResolve, Inv, BalancesInv
<1>8. packs[k].status # "Absent" /\ UNCHANGED <<configVars, batches, batch_cash>>
  BY <1>1 DEF LuckyResolve
<1> HIDE DEF p
<1> QED BY <1>2, <1>4, <1>5, <1>6, <1>7, <1>8, PackStepInv

LEMMA BankInv ==
  ASSUME Inv, NEW k \in Packs, Bank(k)
  PROVE  Inv'
<1> DEFINE p == [packs[k] EXCEPT !.status = "Selected", !.ttl = PackTimeout]
<1>1. /\ PackGood(packs[k], pack_cash[k]) /\ pack_cash[k] \in Nat /\ packs[k] \in PackRecord
      /\ packs[k].status = "LuckyReady" /\ packs[k].lucky
  BY DEF Inv, PacksInv, Bank
<1>2. PackGood(p, pack_cash[k])
  <2>1. p \in PackRecord
    BY <1>1, PackAssumption DEF PackRecord, Statuses
  <2> QED BY <1>1, <2>1 DEF PackGood, PackLive, PackRecord
<1>3. packs' = [packs EXCEPT ![k] = p]
  BY DEF Bank
<1>4. pack_cash' = [pack_cash EXCEPT ![k] = pack_cash[k]]
  BY DEF Bank, cash, Inv, PacksInv
<1>5. BalancesInv'
  BY DEF Bank, cash, Inv, BalancesInv
<1>6. packs[k].status # "Absent" /\ UNCHANGED <<configVars, batches, batch_cash>>
  BY <1>1 DEF Bank, cash
<1> HIDE DEF p
<1> QED BY <1>1, <1>2, <1>3, <1>4, <1>5, <1>6, PackStepInv

LEMMA RolloverInv ==
  ASSUME Inv, NEW k \in Packs, Rollover(k)
  PROVE  Inv'
<1> DEFINE stake == packs[k].budget
           p == [packs[k] EXCEPT !.stake = stake, !.round = 2, !.status = "Pending",
                                 !.ttl = PackTimeout]
<1>1. /\ PackGood(packs[k], pack_cash[k]) /\ pack_cash[k] \in Nat /\ packs[k] \in PackRecord
      /\ packs[k].status = "LuckyReady" /\ packs[k].lucky /\ packs[k].round = 1
      /\ stake \in Nat /\ packs[k].stake \in Nat
  BY DEF Inv, PacksInv, Rollover, Rollable, PackRecord
<1>2. stake <= 2 * NewStake /\ pack_cash[k] + stake = 2 * stake
  BY <1>1, NewStakeNat DEF PackGood, PackLive
<1>3. PackGood(p, 2 * stake)
  <2>1. p \in PackRecord
    <3>1. PackTimeout \in Nat /\ 2 \in 0..2 /\ "Pending" \in Statuses
      BY PackAssumption DEF Statuses
    <3> HIDE DEF stake
    <3> QED BY <1>1, <3>1 DEF PackRecord
  <2> QED BY <1>1, <1>2, <2>1 DEF PackGood, PackLive, PackRecord
<1>4. packs' = [packs EXCEPT ![k] = p]
  BY DEF Rollover
<1>5. pack_cash' = [pack_cash EXCEPT ![k] = 2 * stake] /\ 2 * stake \in Nat
  <2>1. pack_cash' = [pack_cash EXCEPT ![k] = pack_cash[k] + stake]
    BY DEF Rollover
  <2>2. 2 * stake \in Nat
    BY <1>1
  <2> HIDE DEF stake
  <2> QED BY <2>1, <2>2, <1>2
<1>6. BalancesInv'
  <2>1. pool_cash' \in Nat
    BY <1>1 DEF Rollover, FundRoll, Inv, BalancesInv
  <2> QED BY <2>1, FreshRequestType DEF Rollover, Inv, BalancesInv
<1>7. packs[k].status # "Absent" /\ UNCHANGED <<configVars, batches, batch_cash>>
  BY <1>1 DEF Rollover
<1> HIDE DEF p
<1> QED BY <1>3, <1>4, <1>5, <1>6, <1>7, PackStepInv

LEMMA LuckyRefundInv ==
  ASSUME Inv, NEW k \in Packs, LuckyRefund(k)
  PROVE  Inv'
<1> DEFINE undone == Undone(k)
           amount == IF packs[k].status = "Pending" THEN packs[k].stake ELSE packs[k].budget
           p == [packs[k] EXCEPT !.status = "Refunded"]
<1>1. /\ PackGood(packs[k], pack_cash[k]) /\ pack_cash[k] \in Nat /\ packs[k] \in PackRecord
      /\ packs[k].status \in {"Pending", "Selected"} /\ packs[k].lucky
      /\ packs[k].stake \in Nat /\ packs[k].budget \in Nat
  BY DEF Inv, PacksInv, LuckyRefund, PackRecord
<1>2. /\ pack_cash[k] - (undone + amount) = 0 /\ packs[k].owner \in Keys
      /\ undone \in Nat /\ amount \in Nat
  BY <1>1 DEF PackGood, PackLive, Undone
<1>3. PackGood(p, 0)
  BY <1>1 DEF PackGood, PackLive, PackRecord, Statuses
<1>4. packs' = [packs EXCEPT ![k] = p]
  BY DEF LuckyRefund
<1>5. pack_cash' = [pack_cash EXCEPT ![k] = 0]
  <2>1. pack_cash' = [pack_cash EXCEPT ![k] = pack_cash[k] - (undone + amount)]
    BY DEF LuckyRefund
  <2> QED BY <2>1, <1>2
<1>6. BalancesInv'
  <2>1. /\ pool_cash' = pool_cash + undone
        /\ wallet' = [wallet EXCEPT ![packs[k].owner] = @ + amount]
    BY DEF LuckyRefund
  <2> HIDE DEF undone, amount
  <2> QED BY <1>2, <2>1 DEF LuckyRefund, Inv, BalancesInv
<1>7. packs[k].status # "Absent" /\ UNCHANGED <<configVars, batches, batch_cash>>
  BY <1>1 DEF LuckyRefund
<1> HIDE DEF p
<1> QED BY <1>3, <1>4, <1>5, <1>6, <1>7, PackStepInv

-----------------------------------------------------------------------------
(* Steps that move no batch and no pack's cash                              *)

\* Administration, pool funding, harvests and randomness write neither batches
\* nor packs, so only their own types are at stake.
LEMMA ElsewhereInv ==
  ASSUME Inv, ConfigInv', BalancesInv', UNCHANGED <<batches, packs, batch_cash, pack_cash>>
  PROVE  Inv'
BY DEF Inv, BatchesInv, PacksInv, OpenedInOrder

LEMMA HouseStepInv ==
  ASSUME Inv, HouseStep
  PROVE  Inv'
<1>1. CASE AdminStep /\ UNCHANGED <<accounts, cash>>
  <2>1. ConfigInv'
    BY <1>1, AdminStepInv DEF Inv
  <2> QED BY <1>1, <2>1, ElsewhereInv DEF accounts, cash, Inv, BalancesInv
<1>2. ASSUME NEW enabled \in BOOLEAN, NEW max \in BudgetChoices, ConfigureExecution(enabled, max)
      PROVE  Inv'
  BY <1>2, CashAssumption, ConfigFrame, ElsewhereInv DEF ConfigureExecution, cash, Inv, BalancesInv
<1>3. ASSUME NEW enabled \in BOOLEAN, NEW max \in StakeChoices, ConfigureLucky(enabled, max)
      PROVE  Inv'
  BY <1>3, CashAssumption, ConfigFrame, ElsewhereInv DEF ConfigureLucky, cash, Inv, BalancesInv
<1>4. ASSUME NEW amount \in PoolMoves, WithdrawReserve(amount) \/ FundPool(amount)
      PROVE  Inv'
  <2>1. amount \in Nat
    BY CashAssumption
  <2>2. BalancesInv'
    BY <1>4, <2>1 DEF WithdrawReserve, FundPool, accounts, Inv, BalancesInv
  <2> QED BY <1>4, <2>2, ConfigFrame, ElsewhereInv DEF WithdrawReserve, FundPool, accounts, Inv
<1> QED BY <1>1, <1>2, <1>3, <1>4 DEF HouseStep

LEMMA EnvironmentStepInv ==
  ASSUME Inv, EnvironmentStep
  PROVE  Inv'
<1>1. ASSUME NEW owner \in Keys, NEW amount \in YieldSteps, AccrueYield(owner, amount)
      PROVE  Inv'
  <2>1. amount \in Nat
    BY CashAssumption
  <2>2. BalancesInv'
    BY <1>1, <2>1 DEF AccrueYield, accounts, Inv, BalancesInv
  <2> QED BY <1>1, <2>2, ConfigFrame, ElsewhereInv DEF AccrueYield, accounts, Inv
<1>2. ASSUME NEW k \in Packs, NEW bucket \in DrawBuckets, NEW pick \in DrawPicks,
             Fulfil(k, bucket, pick)
      PROVE  Inv'
  <2>1. [state |-> "fulfilled", bucket |-> bucket, pick |-> pick] \in RequestRecord
    BY DrawAssumption DEF RequestRecord
  <2>2. BalancesInv'
    BY <1>2, <2>1 DEF Fulfil, cash, Inv, BalancesInv
  <2> QED BY <1>2, <2>2, ConfigFrame, ElsewhereInv DEF Fulfil, cash, Inv
<1>3. ASSUME Tick PROVE Inv'
  <2>1. ASSUME NEW k \in Packs
        PROVE  /\ packs'[k] \in PackRecord
               /\ PackGood(packs'[k], pack_cash[k])
               /\ packs'[k].status = packs[k].status
    <3>1. packs'[k] = [packs[k] EXCEPT !.ttl = MostOf(packs[k].ttl - 1, 0)]
      BY <1>3 DEF Tick
    <3>2. packs[k] \in PackRecord /\ PackGood(packs[k], pack_cash[k])
      BY DEF Inv, PacksInv
    <3>3. MostOf(packs[k].ttl - 1, 0) \in Nat
      BY <3>2 DEF PackRecord, MostOf
    <3>4. packs'[k] \in PackRecord
      BY <3>1, <3>2, <3>3 DEF PackRecord
    <3> QED BY <3>1, <3>2, <3>4 DEF PackGood, PackLive, PackRecord
  <2>2. PacksInv'
    <3>1. packs' = [k \in Packs |-> packs'[k]] /\ pack_cash' = pack_cash
      BY <1>3 DEF Tick, cash
    <3> QED BY <2>1, <3>1 DEF Inv, PacksInv
  <2>3. OpenedInOrder'
    BY <1>3, <2>1 DEF Tick, Inv, OpenedInOrder, Packs
  <2>4. BatchesInv' /\ BalancesInv' /\ ConfigInv'
    BY <1>3, ConfigFrame DEF Tick, cash, Inv, BatchesInv, BalancesInv
  <2> QED BY <2>2, <2>3, <2>4 DEF Inv
<1> QED BY <1>1, <1>2, <1>3 DEF EnvironmentStep

-----------------------------------------------------------------------------
(* The invariant and what follows from it                                   *)

LEMMA InitInv == Init => Inv
<1> SUFFICES ASSUME Init PROVE Inv
  OBVIOUS
<1>1. ConfigInv
  BY ConfigInitInv DEF Init
<1>2. BatchesInv
  <2>1. NoBatch \in BatchRecord /\ 0 * PackPrice = 0
    BY PackAssumption DEF NoBatch, BatchRecord, Sources
  <2>2. BatchGood(NoBatch, 0)
    BY <2>1, PackAssumption DEF BatchGood, NoBatch
  <2> QED BY <2>1, <2>2 DEF Init, BatchesInv
<1>3. PacksInv
  <2>1. NoPack \in PackRecord /\ PackGood(NoPack, 0)
    BY DEF NoPack, PackRecord, Statuses, PackGood, PackLive
  <2> QED BY <2>1 DEF Init, PacksInv
<1>4. OpenedInOrder
  BY DEF Init, OpenedInOrder, Packs, NoPack
<1>5. BalancesInv
  BY PackAssumption, CashAssumption DEF Init, BalancesInv, NoRequest, RequestRecord, Buckets
<1> QED BY <1>1, <1>2, <1>3, <1>4, <1>5 DEF Inv

LEMMA NextInv == Inv /\ [Next]_vars => Inv'
<1> SUFFICES ASSUME Inv, [Next]_vars PROVE Inv'
  OBVIOUS
<1>1. CASE BatchStep
  BY <1>1, BuyInv, FromYieldInv, GiftInv, RefundBatchInv, OpenPackInv, LuckyOpenInv DEF BatchStep
<1>2. CASE PackStep
  <2>1. ASSUME NEW k \in Packs, SettlePack(k) \/ \E age \in 0..MaxAge : SwapPack(k, age)
        PROVE  Inv'
    BY <2>1, PayForStockInv DEF SettlePack, SwapPack
  <2> QED BY <1>2, <2>1, ResolvePackInv, RefundPackInv, LuckyResolveInv, BankInv, RolloverInv,
             LuckyRefundInv DEF PackStep
<1>3. CASE HouseStep
  BY <1>3, HouseStepInv
<1>4. CASE EnvironmentStep
  BY <1>4, EnvironmentStepInv
<1>5. CASE UNCHANGED vars
  BY <1>5, ConfigFrame, ElsewhereInv DEF vars, accounts, cash, Inv, BalancesInv
<1> QED BY <1>1, <1>2, <1>3, <1>4, <1>5 DEF Next

\* The invariant holds of every state the instructions reach.
THEOREM PacksInvariant == Spec => []Inv
BY InitInv, NextInv, PTL DEF Spec

\* Every account and balance keeps the range of its Rust type; no debit of any
\* instruction goes below zero.
THEOREM PacksTypeOK == Spec => []TypeOK
<1>1. Inv => TypeOK
  BY DEF Inv, ConfigInv, BatchesInv, PacksInv, BalancesInv, TypeOK
<1> QED BY <1>1, PacksInvariant, PTL

\* Unopened packs are backed by their price, whatever was bought, given away,
\* returned or opened.  (packs.rs)
THEOREM BatchesAreBacked == Spec => []BatchEscrow
<1>1. Inv => BatchEscrow
  BY DEF Inv, BatchesInv, BatchGood, BatchEscrow
<1> QED BY <1>1, PacksInvariant, PTL

\* A pack's account always holds exactly its largest liability: the escrow of
\* lucky.rs is never short and never strands money.
THEOREM PacksAreBacked == Spec => []PackEscrow
<1>1. Inv => PackEscrow
  BY DEF Inv, PacksInv, PackGood, PackLive, PackEscrow, Liability, Live
<1> QED BY <1>1, PacksInvariant, PTL

\* The fee of a pack is charged once, at its settlement or when it is first
\* played, and never on what was paid out of yield.
THEOREM FeesAreChargedOnce == Spec => []FeeChargedOnce
<1>1. Inv => FeeChargedOnce
  BY DEF Inv, PacksInv, PackGood, PackLive, FeeChargedOnce, Live
<1> QED BY <1>1, PacksInvariant, PTL

\* No sequence of draws and rollovers is worth more than four stakes.
THEOREM LuckyIsBounded == Spec => []LuckyAtMostFourStakes
<1>1. Inv => LuckyAtMostFourStakes
  BY DEF Inv, PacksInv, PackGood, PackLive, LuckyAtMostFourStakes, Live
<1> QED BY <1>1, PacksInvariant, PTL

-----------------------------------------------------------------------------
(* The draw: what a pack was drawn from stays what it was                   *)

\* The manifest of a batch or a pack is sealed from its purchase on, and an
\* index, once drawn, is eligible in it; a second roll keeps the first's.
PinnedTo(m) == m \in ManifestIds /\ manifests[m].sealed
Drawn(p) ==
    p.status \in {"Selected", "LuckyReady", "Settled"} \/ (p.status = "Pending" /\ p.round = 2)
PackPinned(p) ==
    /\ p.status # "Absent" => PinnedTo(p.manifest)
    /\ Drawn(p) => p.stock_index \in Eligible(p.manifest)
PinInv ==
    /\ \A b \in BatchIds : batches[b].source # "None" => PinnedTo(batches[b].manifest)
    /\ \A k \in Packs : PackPinned(packs[k])

\* Nothing sealed changes, so what is pinned before a step is pinned after it.
LEMMA PinFrame ==
  ASSUME \A m \in ManifestIds : manifests[m].sealed => manifests'[m] = manifests[m],
         \A b \in BatchIds : batches'[b].source # "None" => PinnedTo(batches'[b].manifest),
         \A k \in Packs : PackPinned(packs'[k])
  PROVE  PinInv'
<1>1. ASSUME NEW m, PinnedTo(m) PROVE PinnedTo(m)' /\ Eligible(m)' = Eligible(m)
  BY <1>1 DEF PinnedTo, Eligible
<1>2. ASSUME NEW k \in Packs PROVE PackPinned(packs[k])'
  <2>1. PackPinned(packs'[k]) OBVIOUS
  <2>2. Drawn(packs'[k]) => packs'[k].status # "Absent" BY DEF Drawn
  <2> QED BY <1>1, <2>1, <2>2 DEF PackPinned, Drawn
<1> QED BY <1>1, <1>2 DEF PinInv

\* An instruction that writes pack k alone keeps the others pinned.
LEMMA PinPack ==
  ASSUME Inv, PinInv, NEW k \in Packs, NEW p, PackPinned(p),
         packs' = [packs EXCEPT ![k] = p],
         UNCHANGED manifests,
         \A b \in BatchIds : /\ batches'[b].manifest = batches[b].manifest
                             /\ batches'[b].source = batches[b].source
  PROVE  PinInv'
<1>1. \A b \in BatchIds : batches'[b].source # "None" => PinnedTo(batches'[b].manifest)
  BY DEF PinInv
<1>2. \A j \in Packs : PackPinned(packs'[j])
  BY DEF PinInv, Inv, PacksInv
<1> QED BY <1>1, <1>2, PinFrame

\* The steps of a pack: a draw takes an eligible entry, and the rest keep it.
LEMMA PackStepPins ==
  ASSUME Inv, PinInv, PackStep
  PROVE  PinInv'
<1> USE DEF configVars
<1>0. ASSUME NEW k \in Packs
      PROVE  /\ packs[k] \in PackRecord /\ PackPinned(packs[k])
             /\ packs[k].round = 2 /\ packs[k].status = "Pending" => packs[k].lucky
             /\ packs[k].lucky /\ packs[k].status = "Pending" /\ packs[k].round # 1
                   => packs[k].round = 2
  BY DEF Inv, PacksInv, PinInv, PackGood, PackLive, PackRecord
<1>1. ASSUME NEW k \in Packs, NEW i \in 1..MaxStocks, ResolvePack(k, i) PROVE PinInv'
  <2> DEFINE p == [packs[k] EXCEPT !.stock_index = i, !.status = "Selected"]
  <2>1. PackPinned(p)
    BY <1>0, <1>1 DEF ResolvePack, Sampled, PackPinned, PackRecord
  <2> QED BY <1>1, <2>1, PinPack DEF ResolvePack
<1>2. ASSUME NEW k \in Packs, Settleable(k), PayForStock(k) PROVE PinInv'
  <2> DEFINE p == [packs[k] EXCEPT !.status = "Settled"]
  <2>1. PackPinned(p)
    BY <1>0, <1>2 DEF Settleable, PackPinned, Drawn, PackRecord
  <2> QED BY <1>2, <2>1, PinPack DEF PayForStock
<1>3. ASSUME NEW k \in Packs, RefundPack(k) \/ LuckyRefund(k) PROVE PinInv'
  <2> DEFINE p == [packs[k] EXCEPT !.status = "Refunded"]
  <2>1. PackPinned(p)
    BY <1>0, <1>3 DEF RefundPack, LuckyRefund, PackPinned, Drawn, PackRecord
  <2> QED BY <1>3, <2>1, PinPack DEF RefundPack, LuckyRefund
<1>4. ASSUME NEW k \in Packs, NEW i \in 0..MaxStocks, LuckyResolve(k, i) PROVE PinInv'
  <2> DEFINE reward == LuckyPayout(packs[k].stake, request[k].bucket)
             p == [packs[k] EXCEPT !.status = "LuckyReady", !.budget = reward, !.stock_index = i]
  <2>1. PackPinned(p)
    <3>1. i \in Eligible(packs[k].manifest)
      BY <1>0, <1>4 DEF LuckyResolve, Resolvable, Sampled, PackPinned, Drawn
    <3> QED BY <1>0, <1>4, <3>1 DEF LuckyResolve, Resolvable, PackPinned, PackRecord
  <2>2. packs' = [packs EXCEPT ![k] = p]
    BY <1>4 DEF LuckyResolve
  <2> HIDE DEF p
  <2> QED BY <1>4, <2>1, <2>2, PinPack DEF LuckyResolve
<1>5. ASSUME NEW k \in Packs, Bank(k) PROVE PinInv'
  <2> DEFINE p == [packs[k] EXCEPT !.status = "Selected", !.ttl = PackTimeout]
  <2>1. PackPinned(p)
    BY <1>0, <1>5 DEF Bank, PackPinned, Drawn, PackRecord
  <2> QED BY <1>5, <2>1, PinPack DEF Bank
<1>6. ASSUME NEW k \in Packs, Rollover(k) PROVE PinInv'
  <2> DEFINE p == [packs[k] EXCEPT !.stake = packs[k].budget, !.round = 2,
                                   !.status = "Pending", !.ttl = PackTimeout]
  <2>1. PackPinned(p)
    BY <1>0, <1>6 DEF Rollover, Rollable, PackPinned, Drawn, PackRecord
  <2>2. packs' = [packs EXCEPT ![k] = p]
    BY <1>6 DEF Rollover
  <2> HIDE DEF p
  <2> QED BY <1>6, <2>1, <2>2, PinPack DEF Rollover
<1> QED BY <1>1, <1>2, <1>3, <1>4, <1>5, <1>6 DEF PackStep, SettlePack, SwapPack

\* The steps of a batch: what is bought is pinned to the active manifest, what
\* is given away or opened to that of the batch it comes from.
LEMMA BatchStepPins ==
  ASSUME Inv, PinInv, BatchStep
  PROVE  PinInv'
<1> USE DEF configVars
<1>0. /\ batches \in [BatchIds -> BatchRecord]
      /\ \A b \in BatchIds : batches[b].remaining \in Nat
                             /\ (batches[b].remaining > 0 => batches[b].source # "None")
  BY DEF Inv, BatchesInv, BatchGood, NoBatch, BatchRecord
<1>1. config.active_manifest # NoManifest => PinnedTo(config.active_manifest)
  BY DEF Inv, ConfigInv, ConfigTypeOK, ConfigRecord, ActiveManifestSealed, PinnedTo
<1>2. ASSUME NEW b \in BatchIds, NEW r, r.manifest = config.active_manifest,
             config.active_manifest # NoManifest,
             batches' = [batches EXCEPT ![b] = r], UNCHANGED <<manifests, packs>>
      PROVE  PinInv'
  <2>1. \A a \in BatchIds : batches'[a].source # "None" => PinnedTo(batches'[a].manifest)
    BY <1>0, <1>1, <1>2 DEF PinInv
  <2> QED BY <1>2, <2>1, PinFrame DEF PinInv
<1>3. ASSUME NEW b \in BatchIds, NEW owner, NEW count, Buy(b, owner, count) PROVE PinInv'
  BY <1>2, <1>3 DEF Buy, NewBatch
<1>4. ASSUME NEW b \in BatchIds, NEW owner, FromYield(b, owner) PROVE PinInv'
  BY <1>2, <1>4 DEF FromYield, NewBatch
<1>5. ASSUME NEW b \in BatchIds, NEW gift \in BatchIds, NEW recipient, NEW count,
             Gift(b, gift, recipient, count)
      PROVE  PinInv'
  <2>1. \A a \in BatchIds : batches'[a].source # "None" => PinnedTo(batches'[a].manifest)
    BY <1>0, <1>5 DEF Gift, NewBatch, PinInv, BatchRecord
  <2> QED BY <1>5, <2>1, PinFrame DEF Gift, PinInv
<1>6. ASSUME NEW b \in BatchIds, NEW count, RefundBatch(b, count) PROVE PinInv'
  <2>1. \A a \in BatchIds : batches'[a].source # "None" => PinnedTo(batches'[a].manifest)
    BY <1>0, <1>6 DEF RefundBatch, PinInv, BatchRecord
  <2> QED BY <1>6, <2>1, PinFrame DEF RefundBatch, PinInv
<1>7. ASSUME NEW b \in BatchIds, NEW lucky \in BOOLEAN, CanOpen(b), TakeFromBatch(b),
             packs' = [packs EXCEPT ![<<b, batches[b].next_open>>] = Opened(b, lucky)],
             UNCHANGED manifests
      PROVE  PinInv'
  <2>1. batches[b].source # "None" /\ PinnedTo(batches[b].manifest)
    BY <1>0, <1>7 DEF CanOpen, PinInv
  <2>2. PackPinned(Opened(b, lucky))
    BY <2>1 DEF PackPinned, Drawn, Opened
  <2>3. <<b, batches[b].next_open>> \in Packs
    <3>1. BatchGood(batches[b], batch_cash[b]) /\ batches[b] \in BatchRecord
      BY DEF Inv, BatchesInv
    <3>2. batches[b].next_open \in 0..(MaxCount - 1)
      BY <3>1, <1>7, PackAssumption DEF CanOpen, BatchGood, BatchRecord
    <3> QED BY <3>2 DEF Packs
  <2>4. \A a \in BatchIds : /\ batches'[a].manifest = batches[a].manifest
                            /\ batches'[a].source = batches[a].source
    BY <1>0, <1>7 DEF TakeFromBatch, BatchRecord
  <2> QED BY <1>7, <2>2, <2>3, <2>4, PinPack
<1>8. ASSUME NEW b \in BatchIds, OpenPack(b) \/ LuckyOpen(b) PROVE PinInv'
  BY <1>7, <1>8 DEF OpenPack, LuckyOpen
<1> QED BY <1>3, <1>4, <1>5, <1>6, <1>8 DEF BatchStep

LEMMA NextPins == Inv /\ PinInv /\ [Next]_vars => PinInv'
<1> SUFFICES ASSUME Inv, PinInv, [Next]_vars PROVE PinInv'
  OBVIOUS
<1>1. CASE BatchStep
  BY <1>1, BatchStepPins
<1>2. CASE PackStep
  BY <1>2, PackStepPins
<1>3. CASE HouseStep
  <2>1. UNCHANGED <<batches, packs>>
    BY <1>3 DEF HouseStep, ConfigureExecution, ConfigureLucky, WithdrawReserve, FundPool, accounts
  <2>2. \A m \in ManifestIds : manifests[m].sealed => manifests'[m] = manifests[m]
    BY <1>3, AdminStepFrozen DEF HouseStep, ConfigureExecution, ConfigureLucky, WithdrawReserve,
       FundPool, configVars, Inv
  <2> QED BY <2>1, <2>2, PinFrame DEF PinInv
<1>4. CASE EnvironmentStep
  <2>1. UNCHANGED <<batches, manifests>>
    BY <1>4 DEF EnvironmentStep, AccrueYield, Fulfil, Tick, accounts, configVars
  <2>2. ASSUME NEW k \in Packs PROVE PackPinned(packs'[k])
    <3>1. packs[k] \in PackRecord /\ PackPinned(packs[k])
      BY DEF Inv, PacksInv, PinInv
    <3>2. CASE Tick
      <4>1. packs'[k] = [packs[k] EXCEPT !.ttl = MostOf(packs[k].ttl - 1, 0)]
        BY <3>2 DEF Tick
      <4> QED BY <3>1, <4>1 DEF PackPinned, Drawn, PackRecord
    <3>3. CASE ~Tick
      BY <1>4, <3>1, <3>3 DEF EnvironmentStep, AccrueYield, Fulfil, accounts
    <3> QED BY <3>2, <3>3
  <2> QED BY <2>1, <2>2, PinFrame DEF PinInv
<1>5. CASE UNCHANGED vars
  BY <1>5, PinFrame DEF vars, accounts, configVars, PinInv
<1> QED BY <1>1, <1>2, <1>3, <1>4, <1>5 DEF Next

\* The stock drawn for a pack is an eligible entry of the sealed manifest it
\* was bought under, whatever the administrator creates, extends or activates
\* between the purchase, the draw, the second roll and the settlement.
THEOREM DrawsAreEligible == Spec => []DrawnStockEligible
<1>1. Init => PinInv
  BY DEF Init, PinInv, PackPinned, Drawn, NoBatch, NoPack
<1>2. PinInv => DrawnStockEligible
  BY DEF PinInv, PackPinned, PinnedTo, Drawn, DrawnStockEligible
<1> QED BY <1>1, <1>2, PacksInvariant, NextPins, PTL DEF Spec

-----------------------------------------------------------------------------
(* The promise: every step is a step of PackPromise or a stutter            *)

\* The pack opened next does not exist yet.
LEMMA NextIsAbsent ==
  ASSUME Inv, NEW b \in BatchIds, CanOpen(b)
  PROVE  /\ <<b, batches[b].next_open>> \in Packs
         /\ packs[<<b, batches[b].next_open>>].status = "Absent"
         /\ batches[b].next_open \in 0..(MaxCount - 1)
<1>1. BatchGood(batches[b], batch_cash[b]) /\ batches[b] \in BatchRecord
  BY DEF Inv, BatchesInv
<1>2. batches[b].next_open \in 0..(MaxCount - 1)
  BY <1>1, PackAssumption DEF CanOpen, BatchGood, BatchRecord
<1> QED BY <1>2 DEF Packs, Inv, OpenedInOrder

\* An opening asks for fresh randomness, and so does a rollover; an answered
\* request is only consumed by the resolution that takes it.
DrawStep ==
    \A k \in Packs :
        /\ packs[k].status # "Pending" /\ packs'[k].status = "Pending"
              => request'[k].state = "requested"
        /\ packs[k].lucky /\ packs[k].status = "Pending" /\ request[k].state = "fulfilled"
              => /\ request'[k] = request[k]
                 /\ packs'[k].status \in {"Pending", "LuckyReady"}
                 /\ packs'[k].status = "LuckyReady" =>
                       packs'[k].budget = LuckyPayout(packs[k].stake, request[k].bucket)

LEMMA NextDraws == Inv /\ [Next]_vars => DrawStep
<1> SUFFICES ASSUME Inv, [Next]_vars PROVE DrawStep
  OBVIOUS
<1>0. /\ packs \in [Packs -> PackRecord] /\ request \in [Packs -> RequestRecord]
  BY DEF Inv, PacksInv, BalancesInv
<1>1. ASSUME UNCHANGED <<packs, request>> PROVE DrawStep
  BY <1>1 DEF DrawStep
<1>2. ASSUME NEW b \in BatchIds, CanOpen(b),
             NEW p, packs' = [packs EXCEPT ![<<b, batches[b].next_open>>] = p],
             request' = [request EXCEPT ![<<b, batches[b].next_open>>] = FreshRequest]
      PROVE  DrawStep
  <2>1. /\ <<b, batches[b].next_open>> \in Packs
        /\ packs[<<b, batches[b].next_open>>].status = "Absent"
    BY <1>2, NextIsAbsent
  <2>2. FreshRequest.state = "requested"
    BY DEF FreshRequest, NoRequest
  <2> QED BY <1>0, <1>2, <2>1, <2>2 DEF DrawStep
<1>3. ASSUME NEW k \in Packs, NEW p, packs' = [packs EXCEPT ![k] = p], UNCHANGED request,
             p.status # "Pending",
             packs[k].lucky /\ packs[k].status = "Pending" /\ request[k].state = "fulfilled" =>
                 /\ p.status = "LuckyReady"
                 /\ p.budget = LuckyPayout(packs[k].stake, request[k].bucket)
      PROVE  DrawStep
  BY <1>0, <1>3 DEF DrawStep
<1>4. CASE BatchStep
  <2>1. ASSUME NEW b \in BatchIds, OpenPack(b) PROVE DrawStep
    BY <1>2, <2>1 DEF OpenPack
  <2>2. ASSUME NEW b \in BatchIds, LuckyOpen(b) PROVE DrawStep
    BY <1>2, <2>2 DEF LuckyOpen
  <2>3. ASSUME NEW b \in BatchIds, NEW o, NEW n, Buy(b, o, n) \/ FromYield(b, o) PROVE DrawStep
    BY <1>1, <2>3 DEF Buy, FromYield
  <2>4. ASSUME NEW b \in BatchIds, NEW g, NEW o, NEW n, Gift(b, g, o, n) \/ RefundBatch(b, n)
        PROVE  DrawStep
    BY <1>1, <2>4 DEF Gift, RefundBatch
  <2> QED BY <1>4, <2>1, <2>2, <2>3, <2>4 DEF BatchStep
<1>5. CASE PackStep
  <2>1. ASSUME NEW k \in Packs, NEW i, ResolvePack(k, i) PROVE DrawStep
    <3>1. packs' = [packs EXCEPT ![k] = [packs[k] EXCEPT !.stock_index = i, !.status = "Selected"]]
      BY <2>1 DEF ResolvePack
    <3>2. [packs[k] EXCEPT !.stock_index = i, !.status = "Selected"].status = "Selected"
      BY <1>0 DEF PackRecord
    <3> QED BY <1>3, <2>1, <3>1, <3>2 DEF ResolvePack
  <2>2. ASSUME NEW k \in Packs, Settleable(k), PayForStock(k) PROVE DrawStep
    <3>1. [packs[k] EXCEPT !.status = "Settled"].status = "Settled"
      BY <1>0 DEF PackRecord
    <3> QED BY <1>3, <2>2, <3>1 DEF Settleable, PayForStock
  <2>3. ASSUME NEW k \in Packs, RefundPack(k) \/ LuckyRefund(k) PROVE DrawStep
    <3>1. [packs[k] EXCEPT !.status = "Refunded"].status = "Refunded"
      BY <1>0 DEF PackRecord
    <3> QED BY <1>3, <2>3, <3>1 DEF RefundPack, LuckyRefund, Refundable
  <2>4. ASSUME NEW k \in Packs, NEW i, LuckyResolve(k, i) PROVE DrawStep
    <3> DEFINE reward == LuckyPayout(packs[k].stake, request[k].bucket)
               p == [packs[k] EXCEPT !.status = "LuckyReady", !.budget = reward, !.stock_index = i]
    <3>1. p.status = "LuckyReady" /\ p.budget = reward
      BY <1>0 DEF PackRecord
    <3>2. packs' = [packs EXCEPT ![k] = p] /\ UNCHANGED request
      BY <2>4 DEF LuckyResolve
    <3> HIDE DEF p
    <3> QED BY <1>3, <3>1, <3>2
  <2>5. ASSUME NEW k \in Packs, Bank(k) PROVE DrawStep
    <3>1. [packs[k] EXCEPT !.status = "Selected", !.ttl = PackTimeout].status = "Selected"
      BY <1>0 DEF PackRecord
    <3> QED BY <1>3, <2>5, <3>1 DEF Bank
  <2>6. ASSUME NEW k \in Packs, Rollover(k) PROVE DrawStep
    <3>1. packs[k].status = "LuckyReady" /\ request' = [request EXCEPT ![k] = FreshRequest]
      BY <2>6 DEF Rollover, Rollable
    <3>2. \A j \in Packs \ {k} : packs'[j] = packs[j] /\ request'[j] = request[j]
      BY <1>0, <2>6, <3>1 DEF Rollover
    <3>3. request'[k].state = "requested"
      BY <1>0, <3>1 DEF FreshRequest, NoRequest
    <3> QED BY <3>1, <3>2, <3>3 DEF DrawStep
  <2> QED BY <1>5, <2>1, <2>2, <2>3, <2>4, <2>5, <2>6 DEF PackStep, SettlePack, SwapPack
<1>6. CASE HouseStep
  BY <1>1, <1>6 DEF HouseStep, ConfigureExecution, ConfigureLucky, WithdrawReserve, FundPool,
     accounts
<1>7. CASE EnvironmentStep
  <2>1. CASE Tick
    <3>1. \A k \in Packs : packs'[k] = [packs[k] EXCEPT !.ttl = MostOf(packs[k].ttl - 1, 0)]
      BY <2>1 DEF Tick
    <3>2. \A k \in Packs : packs'[k].status = packs[k].status
      BY <1>0, <3>1 DEF PackRecord
    <3> QED BY <2>1, <3>2 DEF Tick, DrawStep
  <2>2. ASSUME NEW k \in Packs, NEW bucket, NEW pick, Fulfil(k, bucket, pick) PROVE DrawStep
    <3>1. /\ request[k].state = "requested" /\ UNCHANGED packs
          /\ \A j \in Packs \ {k} : request'[j] = request[j]
      BY <1>0, <2>2 DEF Fulfil
    <3> QED BY <3>1 DEF DrawStep
  <2>3. ASSUME NEW owner, NEW amount, AccrueYield(owner, amount) PROVE DrawStep
    BY <1>1, <2>3 DEF AccrueYield, accounts
  <2> QED BY <1>7, <2>1, <2>2, <2>3 DEF EnvironmentStep
<1>8. CASE UNCHANGED vars
  BY <1>1, <1>8 DEF vars, accounts
<1> QED BY <1>4, <1>5, <1>6, <1>7, <1>8 DEF Next

\* A roll opens against an unanswered request, and once it is answered the
\* pack can only take that answer, in whatever order the owner, the cranks,
\* the clock and the authorities act.  (lucky.rs, no cherry-picked refunds)
THEOREM DrawsAreFinal == Spec => DrawsAreBlindAndFinal
<1>1. Inv /\ [Next]_vars => [DrawStep]_vars
  BY NextDraws
<1> QED BY <1>1, PacksInvariant, PTL DEF Spec, DrawsAreBlindAndFinal, DrawStep

\* What the promise shows of a pack account, as operators of the account.
PhaseOf(p) ==
    IF p.status = "Absent" THEN "none"
    ELSE IF p.status = "Pending" THEN "rolling"
    ELSE IF p.status \in {"Selected", "LuckyReady"} THEN "drawn"
    ELSE IF p.status = "Settled" THEN "delivered" ELSE "returned"
OwedOf(p) ==
    IF ~PackLive(p) THEN 0
    ELSE IF ~p.lucky THEN PackPrice
    ELSE IF p.status = "Pending" THEN p.stake ELSE p.budget

LEMMA Shown ==
  ASSUME Inv
  PROVE  \A k \in Packs : Phase(k) = PhaseOf(packs[k]) /\ Owed(k) = OwedOf(packs[k])
<1>1. \A k \in Packs : packs[k].status \in Statuses
  BY DEF Inv, PacksInv, PackRecord
<1> QED BY <1>1 DEF Phase, PhaseOf, Owed, OwedOf, Live, PackLive, Statuses

LEMMA ShownNext ==
  ASSUME Inv'
  PROVE  \A k \in Packs : Phase(k)' = PhaseOf(packs'[k]) /\ Owed(k)' = OwedOf(packs'[k])
<1>1. \A k \in Packs : packs'[k].status \in Statuses
  BY DEF Inv, PacksInv, PackRecord
<1> QED BY <1>1 DEF Phase, PhaseOf, Owed, OwedOf, Live, PackLive, Statuses

\* Two functions that differ in one place.
LEMMA OnePlaceApart ==
  \A S, f, g, v : \A k \in S :
      /\ f = [j \in S |-> f[j]] /\ g = [j \in S |-> g[j]]
      /\ f[k] = v /\ \A j \in S \ {k} : f[j] = g[j]
      => f = [g EXCEPT ![k] = v]
OBVIOUS

\* Writing one pack is one step of its promise, to what the new record shows.
LEMMA PromiseOf ==
  ASSUME Inv, Inv', NEW k \in Packs, NEW p, packs' = [packs EXCEPT ![k] = p]
  PROVE  Promise!Become(k, PhaseOf(p), OwedOf(p), p.round)
<1>1. packs'[k] = p /\ \A j \in Packs \ {k} : packs'[j] = packs[j]
  BY DEF Inv, PacksInv
<1>2. [j \in Packs |-> Phase(j)] = [j \in Packs |-> PhaseOf(packs[j])]
  BY Shown
<1>3. [j \in Packs |-> Phase(j)]' = [j \in Packs |-> PhaseOf(packs'[j])]
  BY ShownNext
<1>4. [j \in Packs |-> Owed(j)] = [j \in Packs |-> OwedOf(packs[j])]
  BY Shown
<1>5. [j \in Packs |-> Owed(j)]' = [j \in Packs |-> OwedOf(packs'[j])]
  BY ShownNext
<1> DEFINE phase0 == [j \in Packs |-> PhaseOf(packs[j])]
           phase1 == [j \in Packs |-> PhaseOf(packs'[j])]
           owed0  == [j \in Packs |-> OwedOf(packs[j])]
           owed1  == [j \in Packs |-> OwedOf(packs'[j])]
           rolls0 == [j \in Packs |-> packs[j].round]
           rolls1 == [j \in Packs |-> packs'[j].round]
<1>6. /\ phase1[k] = PhaseOf(p) /\ \A j \in Packs \ {k} : phase1[j] = phase0[j]
      /\ owed1[k] = OwedOf(p)   /\ \A j \in Packs \ {k} : owed1[j] = owed0[j]
      /\ rolls1[k] = p.round    /\ \A j \in Packs \ {k} : rolls1[j] = rolls0[j]
  BY <1>1
<1>7. /\ phase1 = [j \in Packs |-> phase1[j]] /\ phase0 = [j \in Packs |-> phase0[j]]
      /\ owed1 = [j \in Packs |-> owed1[j]]   /\ owed0 = [j \in Packs |-> owed0[j]]
      /\ rolls1 = [j \in Packs |-> rolls1[j]] /\ rolls0 = [j \in Packs |-> rolls0[j]]
  OBVIOUS
<1>8. [j \in Packs |-> packs[j].round] = rolls0 /\ [j \in Packs |-> packs[j].round]' = rolls1
  OBVIOUS
<1> HIDE DEF phase0, phase1, owed0, owed1, rolls0, rolls1
<1>9. phase1 = [phase0 EXCEPT ![k] = PhaseOf(p)]
  BY <1>6, <1>7, OnePlaceApart
<1>10. owed1 = [owed0 EXCEPT ![k] = OwedOf(p)]
  BY <1>6, <1>7, OnePlaceApart
<1>11. rolls1 = [rolls0 EXCEPT ![k] = p.round]
  BY <1>6, <1>7, OnePlaceApart
<1> QED
  BY <1>2, <1>3, <1>4, <1>5, <1>8, <1>9, <1>10, <1>11
  DEF Promise!Become, phase0, phase1, owed0, owed1

\* A step that changes no phase, worth or round is a stutter of the promise.
LEMMA PromiseStutter ==
  ASSUME Inv, Inv',
         \A k \in Packs : /\ PhaseOf(packs'[k]) = PhaseOf(packs[k])
                          /\ OwedOf(packs'[k]) = OwedOf(packs[k])
                          /\ packs'[k].round = packs[k].round
  PROVE  UNCHANGED Promise!vars
<1>1. [j \in Packs |-> Phase(j)]' = [j \in Packs |-> Phase(j)]
  BY Shown, ShownNext
<1>2. [j \in Packs |-> Owed(j)]' = [j \in Packs |-> Owed(j)]
  BY Shown, ShownNext
<1>3. [j \in Packs |-> packs[j].round]' = [j \in Packs |-> packs[j].round]
  OBVIOUS
<1> QED BY <1>1, <1>2, <1>3 DEF Promise!vars

\* Every answer the authorities gave is an outcome of the table.
AnswersInv == \A k \in Packs : request[k].state = "fulfilled" => request[k].bucket \in DrawBuckets

LEMMA NextAnswers == Inv /\ AnswersInv /\ [Next]_vars => AnswersInv'
<1> SUFFICES ASSUME Inv, AnswersInv, [Next]_vars PROVE AnswersInv'
  OBVIOUS
<1>0. request \in [Packs -> RequestRecord] /\ FreshRequest.state = "requested"
  BY DEF Inv, BalancesInv, FreshRequest, NoRequest
<1>1. ASSUME NEW k, request' = [request EXCEPT ![k] = FreshRequest] PROVE AnswersInv'
  BY <1>0, <1>1 DEF AnswersInv
<1>2. ASSUME UNCHANGED request PROVE AnswersInv'
  BY <1>2 DEF AnswersInv
<1>3. CASE BatchStep
  <2>1. ASSUME NEW b \in BatchIds, OpenPack(b) \/ LuckyOpen(b) PROVE AnswersInv'
    BY <1>1, <2>1 DEF OpenPack, LuckyOpen
  <2>2. ASSUME NEW b, NEW o, NEW n, Buy(b, o, n) \/ FromYield(b, o) PROVE AnswersInv'
    BY <1>2, <2>2 DEF Buy, FromYield
  <2>3. ASSUME NEW b, NEW g, NEW o, NEW n, Gift(b, g, o, n) \/ RefundBatch(b, n)
        PROVE  AnswersInv'
    BY <1>2, <2>3 DEF Gift, RefundBatch
  <2> QED BY <1>3, <2>1, <2>2, <2>3 DEF BatchStep
<1>4. CASE PackStep
  BY ZenonT(60), <1>1, <1>2, <1>4 DEF PackStep, ResolvePack, SettlePack, SwapPack, PayForStock, RefundPack,
     LuckyResolve, Bank, Rollover, LuckyRefund
<1>5. CASE HouseStep
  BY <1>2, <1>5 DEF HouseStep, ConfigureExecution, ConfigureLucky, WithdrawReserve, FundPool,
     accounts
<1>6. CASE EnvironmentStep
  <2>1. ASSUME NEW k \in Packs, NEW bucket \in DrawBuckets, NEW pick, Fulfil(k, bucket, pick)
        PROVE  AnswersInv'
    BY <1>0, <2>1 DEF Fulfil, AnswersInv
  <2> QED BY <1>2, <1>6, <2>1 DEF EnvironmentStep, AccrueYield, Tick, accounts
<1>7. CASE UNCHANGED vars
  BY <1>2, <1>7 DEF vars, accounts
<1> QED BY <1>3, <1>4, <1>5, <1>6, <1>7 DEF Next

LEMMA PackStepPromised ==
  ASSUME Inv, Inv', AnswersInv, PackStep
  PROVE  [Promise!Next]_(Promise!vars)
<1>0. ASSUME NEW k \in Packs
      PROVE  /\ packs[k] \in PackRecord /\ PackGood(packs[k], pack_cash[k])
             /\ request[k].bucket \in Buckets
  BY DEF Inv, PacksInv, BalancesInv, RequestRecord
<1>1. ASSUME NEW k \in Packs, NEW i, ResolvePack(k, i) PROVE Promise!Next
  <2> DEFINE p == [packs[k] EXCEPT !.stock_index = i, !.status = "Selected"]
  <2>1. /\ p.status = "Selected" /\ p.lucky = packs[k].lucky /\ p.round = 0 /\ packs[k].round = 0
        /\ packs[k].status = "Pending" /\ ~packs[k].lucky
    BY <1>0, <1>1 DEF ResolvePack, PackGood, PackLive, PackRecord
  <2>2. packs' = [packs EXCEPT ![k] = p]
    BY <1>1 DEF ResolvePack
  <2> HIDE DEF p
  <2>3. Promise!Become(k, PhaseOf(p), OwedOf(p), p.round)
    BY <2>2, PromiseOf DEF Promise!Become
  <2>4. PhaseOf(p) = "drawn" /\ OwedOf(p) = Owed(k) /\ Phase(k) = "rolling"
    BY <2>1, Shown DEF PhaseOf, OwedOf, PackLive
  <2>5. Promise!Select(k)
    BY <2>1, <2>3, <2>4 DEF Promise!Select, Promise!Become
  <2> QED BY <2>5 DEF Promise!Next
<1>2. ASSUME NEW k \in Packs, Settleable(k), PayForStock(k) PROVE Promise!Next
  <2> DEFINE p == [packs[k] EXCEPT !.status = "Settled"]
  <2>1. p.status = "Settled" /\ p.round = packs[k].round /\ packs[k].status = "Selected"
    BY <1>0, <1>2 DEF Settleable, PackRecord
  <2>2. packs' = [packs EXCEPT ![k] = p]
    BY <1>2 DEF PayForStock
  <2> HIDE DEF p
  <2>3. Promise!Become(k, PhaseOf(p), OwedOf(p), p.round)
    BY <2>2, PromiseOf DEF Promise!Become
  <2>4. PhaseOf(p) = "delivered" /\ OwedOf(p) = 0 /\ Phase(k) = "drawn"
    BY <2>1, Shown DEF PhaseOf, OwedOf, PackLive
  <2>5. Promise!Deliver(k)
    BY <2>1, <2>3, <2>4 DEF Promise!Deliver, Promise!Become
  <2> QED BY <2>5 DEF Promise!Next
<1>3. ASSUME NEW k \in Packs, RefundPack(k) \/ LuckyRefund(k) PROVE Promise!Next
  <2> DEFINE p == [packs[k] EXCEPT !.status = "Refunded"]
  <2>1. /\ p.status = "Refunded" /\ p.round = packs[k].round
        /\ packs[k].status \in {"Pending", "Selected"}
    BY <1>0, <1>3 DEF RefundPack, LuckyRefund, PackRecord
  <2>2. packs' = [packs EXCEPT ![k] = p]
    BY <1>3 DEF RefundPack, LuckyRefund
  <2> HIDE DEF p
  <2>3. Promise!Become(k, PhaseOf(p), OwedOf(p), p.round)
    BY <2>2, PromiseOf DEF Promise!Become
  <2>4. PhaseOf(p) = "returned" /\ OwedOf(p) = 0 /\ Phase(k) \in {"rolling", "drawn"}
    BY <2>1, Shown DEF PhaseOf, OwedOf, PackLive
  <2>5. Promise!Return(k)
    BY <2>1, <2>3, <2>4 DEF Promise!Return, Promise!Become
  <2> QED BY <2>5 DEF Promise!Next
<1>4. ASSUME NEW k \in Packs, NEW i, LuckyResolve(k, i) PROVE Promise!Next
  <2> DEFINE reward == LuckyPayout(packs[k].stake, request[k].bucket)
             p == [packs[k] EXCEPT !.status = "LuckyReady", !.budget = reward, !.stock_index = i]
  <2>1. /\ p.status = "LuckyReady" /\ p.budget = reward /\ p.round = packs[k].round
        /\ p.lucky = packs[k].lucky /\ packs[k].lucky /\ packs[k].status = "Pending"
        /\ packs[k].round > 0 /\ request[k].bucket \in DrawBuckets
    BY <1>0, <1>4 DEF LuckyResolve, Resolvable, PackRecord, PackGood, PackLive, AnswersInv
  <2>2. packs' = [packs EXCEPT ![k] = p]
    BY <1>4 DEF LuckyResolve
  <2> HIDE DEF p
  <2>3. Promise!Become(k, PhaseOf(p), OwedOf(p), p.round)
    BY <2>2, PromiseOf DEF Promise!Become
  <2>4. PhaseOf(p) = "drawn" /\ OwedOf(p) = reward /\ Phase(k) = "rolling" /\ Owed(k) = packs[k].stake
    BY <2>1, Shown DEF PhaseOf, OwedOf, PackLive
  <2>5. reward = Promise!LuckyPayout(packs[k].stake, request[k].bucket)
    BY DEF LuckyPayout, Quarters, Err, Promise!LuckyPayout, Promise!Quarters, Promise!Err
  <2> HIDE DEF reward
  <2>6. Promise!Draw(k, request[k].bucket)
    BY <2>1, <2>3, <2>4, <2>5 DEF Promise!Draw, Promise!Become
  <2> QED BY <2>1, <2>6 DEF Promise!Next
<1>5. ASSUME NEW k \in Packs, Bank(k) PROVE UNCHANGED Promise!vars
  <2> DEFINE p == [packs[k] EXCEPT !.status = "Selected", !.ttl = PackTimeout]
  <2>1. /\ p.status = "Selected" /\ p.budget = packs[k].budget /\ p.round = packs[k].round
        /\ p.lucky = packs[k].lucky /\ packs[k].status = "LuckyReady"
    BY <1>0, <1>5 DEF Bank, PackRecord
  <2>2. packs' = [packs EXCEPT ![k] = p]
    BY <1>5 DEF Bank
  <2> HIDE DEF p
  <2>3. packs'[k] = p /\ \A j \in Packs \ {k} : packs'[j] = packs[j]
    BY <2>2 DEF Inv, PacksInv
  <2>4. \A j \in Packs : /\ PhaseOf(packs'[j]) = PhaseOf(packs[j])
                         /\ OwedOf(packs'[j]) = OwedOf(packs[j])
                         /\ packs'[j].round = packs[j].round
    BY <2>1, <2>3 DEF PhaseOf, OwedOf, PackLive
  <2> QED BY <2>4, PromiseStutter
<1>6. ASSUME NEW k \in Packs, Rollover(k) PROVE Promise!Next
  <2> DEFINE p == [packs[k] EXCEPT !.stake = packs[k].budget, !.round = 2,
                                   !.status = "Pending", !.ttl = PackTimeout]
  <2>1. /\ p.status = "Pending" /\ p.stake = packs[k].budget /\ p.round = 2
        /\ p.lucky = packs[k].lucky /\ packs[k].lucky
        /\ packs[k].status = "LuckyReady" /\ packs[k].round = 1
    BY <1>0, <1>6 DEF Rollover, Rollable, PackRecord
  <2>2. packs' = [packs EXCEPT ![k] = p]
    BY <1>6 DEF Rollover
  <2> HIDE DEF p
  <2>3. Promise!Become(k, PhaseOf(p), OwedOf(p), p.round)
    BY <2>2, PromiseOf DEF Promise!Become
  <2>4. PhaseOf(p) = "rolling" /\ OwedOf(p) = Owed(k) /\ Phase(k) = "drawn"
    BY <2>1, Shown DEF PhaseOf, OwedOf, PackLive
  <2>5. Promise!RollAgain(k)
    BY <2>1, <2>3, <2>4 DEF Promise!RollAgain, Promise!Become
  <2> QED BY <2>5 DEF Promise!Next
<1> QED BY <1>1, <1>2, <1>3, <1>4, <1>5, <1>6 DEF PackStep, SettlePack, SwapPack

LEMMA BatchStepPromised ==
  ASSUME Inv, Inv', BatchStep
  PROVE  [Promise!Next]_(Promise!vars)
<1>1. ASSUME UNCHANGED packs PROVE UNCHANGED Promise!vars
  BY <1>1, PromiseStutter
<1>2. ASSUME NEW b \in BatchIds, NEW lucky \in BOOLEAN, CanOpen(b),
             lucky => batches[b].source = "Purchased",
             packs' = [packs EXCEPT ![<<b, batches[b].next_open>>] = Opened(b, lucky)]
      PROVE  Promise!Next
  <2> DEFINE p == Opened(b, lucky)
  <2>1. PICK k \in Packs : k = <<b, batches[b].next_open>> /\ packs[k].status = "Absent"
    BY <1>2, NextIsAbsent
  <2>2. BatchGood(batches[b], batch_cash[b])
    BY DEF Inv, BatchesInv
  <2>3. /\ p.status = "Pending" /\ p.lucky = lucky /\ p.round = IF lucky THEN 1 ELSE 0
        /\ lucky => p.stake = NewStake
    BY <1>2, <2>2 DEF Opened, BatchGood, NewStake
  <2>4. packs' = [packs EXCEPT ![k] = p]
    BY <1>2, <2>1
  <2> HIDE DEF p
  <2>5. Promise!Become(k, PhaseOf(p), OwedOf(p), p.round)
    BY <2>1, <2>4, PromiseOf DEF Promise!Become
  <2>6. /\ PhaseOf(p) = "rolling" /\ OwedOf(p) = IF lucky THEN NewStake ELSE PackPrice
        /\ Phase(k) = "none"
    BY <2>1, <2>3, Shown DEF PhaseOf, OwedOf, PackLive
  <2>7. Promise!Issue(k)
    BY <2>1, <2>3, <2>5, <2>6 DEF Promise!Issue, Promise!Become
  <2> QED BY <2>1, <2>7 DEF Promise!Next
<1>3. ASSUME NEW b \in BatchIds, OpenPack(b) PROVE Promise!Next
  <2>1. CanOpen(b) /\ packs' = [packs EXCEPT ![<<b, batches[b].next_open>>] = Opened(b, FALSE)]
    BY <1>3 DEF OpenPack
  <2> QED BY <1>2, <2>1
<1>4. ASSUME NEW b \in BatchIds, LuckyOpen(b) PROVE Promise!Next
  <2>1. /\ CanOpen(b) /\ batches[b].source = "Purchased"
        /\ packs' = [packs EXCEPT ![<<b, batches[b].next_open>>] = Opened(b, TRUE)]
    BY <1>4 DEF LuckyOpen
  <2> QED BY <1>2, <2>1
<1>5. ASSUME NEW b, NEW o, NEW n, Buy(b, o, n) \/ FromYield(b, o) PROVE UNCHANGED packs
  BY <1>5 DEF Buy, FromYield
<1>6. ASSUME NEW b, NEW g, NEW o, NEW n, Gift(b, g, o, n) \/ RefundBatch(b, n)
      PROVE  UNCHANGED packs
  BY <1>6 DEF Gift, RefundBatch
<1> QED BY <1>1, <1>3, <1>4, <1>5, <1>6 DEF BatchStep

LEMMA NextPromised ==
  Inv /\ Inv' /\ AnswersInv /\ [Next]_vars => [Promise!Next]_(Promise!vars)
<1> SUFFICES ASSUME Inv, Inv', AnswersInv, [Next]_vars PROVE [Promise!Next]_(Promise!vars)
  OBVIOUS
<1>1. ASSUME UNCHANGED packs PROVE UNCHANGED Promise!vars
  BY <1>1, PromiseStutter
<1>2. CASE BatchStep
  BY <1>2, BatchStepPromised
<1>3. CASE PackStep
  BY <1>3, PackStepPromised
<1>4. CASE HouseStep
  <2>1. UNCHANGED packs
    BY <1>4 DEF HouseStep, ConfigureExecution, ConfigureLucky, WithdrawReserve, FundPool, accounts
  <2> QED BY <1>1, <2>1
<1>5. CASE EnvironmentStep
  <2>1. CASE Tick
    <3>1. ASSUME NEW k \in Packs
          PROVE  /\ packs'[k].status = packs[k].status /\ packs'[k].lucky = packs[k].lucky
                 /\ packs'[k].stake = packs[k].stake /\ packs'[k].budget = packs[k].budget
                 /\ packs'[k].round = packs[k].round
      <4>1. packs[k] \in PackRecord
        BY DEF Inv, PacksInv
      <4> QED BY <2>1, <4>1 DEF Tick, PackRecord
    <3> QED BY <3>1, PromiseStutter DEF PhaseOf, OwedOf, PackLive
  <2>2. CASE ~Tick
    <3>1. UNCHANGED packs
      BY <1>5, <2>2 DEF EnvironmentStep, AccrueYield, Fulfil, accounts
    <3> QED BY <1>1, <3>1
  <2> QED BY <2>1, <2>2
<1>6. CASE UNCHANGED vars
  BY <1>1, <1>6 DEF vars, accounts
<1> QED BY <1>2, <1>3, <1>4, <1>5, <1>6 DEF Next

\* The instructions of packs.rs, lucky.rs and randomness.rs implement the
\* promise: whatever the crank, the house and the clock do, what an owner may
\* take away changes only by a draw of the published table, at most twice, and
\* leaves exactly once.
THEOREM PacksKeepThePromise == Spec => PromiseKept
<1>1. Init => Promise!Init
  <2> SUFFICES ASSUME Init PROVE Promise!Init
    OBVIOUS
  <2>1. \A k \in Packs : Phase(k) = "none" /\ Owed(k) = 0 /\ packs[k].round = 0
    <3>1. \A k \in Packs : packs[k] = NoPack
      BY DEF Init
    <3>2. Inv
      BY InitInv
    <3> QED BY <3>1, <3>2, Shown DEF NoPack, PhaseOf, OwedOf, PackLive
  <2> QED BY <2>1 DEF Promise!Init
<1>2. Init => AnswersInv
  BY DEF Init, AnswersInv, NoRequest
<1> QED BY <1>1, <1>2, PacksInvariant, NextAnswers, NextPromised, PTL
        DEF Spec, PromiseKept, Promise!Spec
=============================================================================
