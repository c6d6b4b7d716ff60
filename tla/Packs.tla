------------------------------- MODULE Packs -------------------------------
(***************************************************************************)
(* Stock packs: batches bought with USDC or with harvested yield, gifts and *)
(* refunds of unopened packs, the opening of a pack against a verifiable    *)
(* random draw, settlement in stock by a solver or a routed swap, timeout   *)
(* refunds, and the Lucky rounds that play a pack's stake against the       *)
(* house pool.  One action is one instruction: Solana runs it atomically    *)
(* and rolls it back on any error, so an instruction that fails is a step   *)
(* that does not happen.                                                    *)
(*                                                                          *)
(* An expiry timestamp is kept as the time left until it, floored at zero:  *)
(* now < expires_at is ttl > 0.                                             *)
(***************************************************************************)
EXTENDS StockroomConfig, StockroomMath

CONSTANTS
    BatchIds,       \* PDAs of batches, each created at most once
    MaxCount,       \* bound: packs in one batch
    PackPrice,      \* PACK_USDC
    PackFeeBps,     \* config.pack_fee_bps
    PackTimeout,    \* config.pack_timeout, in ticks
    QuoteAge,       \* oldest quote swap_pack takes, in ticks
    MaxAge,         \* bound: oldest quote offered
    BudgetChoices,  \* execution limits an admin may set
    StakeChoices,   \* stake limits an admin may set
    PoolMoves,      \* amounts the house pays into or takes from the pool
    YieldSteps,     \* amounts of net yield one harvest credits
    DrawBuckets,    \* bound: the outcomes of the 100 buckets that occur
    DrawPicks,      \* bound: the stock samples that occur
    WalletCash,     \* USDC each key starts with
    HouseCash,      \* USDC the treasury starts with
    VaultCash       \* USDC of yield the vault can still pay

Packs == BatchIds \X (0..(MaxCount - 1))
UnitFee == FeeOf(PackPrice, PackFeeBps)
NewStake == PackPrice - UnitFee

ASSUME PackAssumption ==
    /\ MaxCount \in Nat \ {0}
    /\ PackPrice \in Nat \ {0}
    /\ PackPrice <= U64MAX
    /\ PackFeeBps \in Nat /\ PackFeeBps <= BPS
    /\ PackTimeout \in Nat \ {0}
    /\ QuoteAge \in Nat /\ MaxAge \in Nat
ASSUME CashAssumption ==
    /\ BudgetChoices \subseteq Nat \ {0}
    /\ StakeChoices \subseteq {n \in Nat : n >= PackPrice}
    /\ PoolMoves \subseteq Nat \ {0}
    /\ YieldSteps \subseteq Nat \ {0}
    /\ WalletCash \in [Keys -> Nat]
    /\ HouseCash \in Nat /\ VaultCash \in Nat
ASSUME DrawAssumption == DrawBuckets \subseteq Buckets /\ DrawPicks \subseteq Nat

VARIABLES
    batches,      \* PackBatch accounts
    packs,        \* Pack accounts
    request,      \* the ORAO request a pack's force binds it to
    pool,         \* LuckyPool account
    execution,    \* PackExecution account
    claimable,    \* net yield of the owner's Earn position that feeds packs
    batch_cash, pack_cash, pool_cash, wallet,    \* USDC token accounts
    treasury,     \* USDC of config.treasury
    market,       \* USDC paid out for stock, to a solver or a venue
    vault         \* USDC the vault has not paid yet

accounts == <<batches, packs, request, pool, execution>>
cash == <<claimable, batch_cash, pack_cash, pool_cash, wallet, treasury, market, vault>>
vars == <<configVars, accounts, cash>>

Sources == {"None", "Purchased", "Earned"}
Statuses == {"Absent", "Pending", "Selected", "Settled", "Refunded", "LuckyReady"}

BatchRecord ==
    [source : Sources, owner : Keys \cup {NoKey}, manifest : ManifestIds \cup {NoManifest},
     remaining : 0..MaxCount, next_open : 0..MaxCount, unit_fee : Nat]
PackRecord ==
    [status : Statuses, owner : Keys \cup {NoKey}, manifest : ManifestIds \cup {NoManifest},
     unit_fee : Nat, stock_index : Nat, ttl : Nat, lucky : BOOLEAN, round : 0..2,
     stake : Nat, budget : Nat]
RequestRecord ==
    [state : {"absent", "requested", "fulfilled"}, bucket : Buckets, pick : Nat]

NoBatch == [source |-> "None", owner |-> NoKey, manifest |-> NoManifest,
            remaining |-> 0, next_open |-> 0, unit_fee |-> 0]
NoPack == [status |-> "Absent", owner |-> NoKey, manifest |-> NoManifest, unit_fee |-> 0,
           stock_index |-> 0, ttl |-> 0, lucky |-> FALSE, round |-> 0, stake |-> 0, budget |-> 0]
NoRequest == [state |-> "absent", bucket |-> 0, pick |-> 0]
FreshRequest == [NoRequest EXCEPT !.state = "requested"]

\* Every account and token balance stays in the range its Rust type gives it.
TypeOK ==
    /\ ConfigTypeOK
    /\ batches \in [BatchIds -> BatchRecord]
    /\ packs \in [Packs -> PackRecord]
    /\ request \in [Packs -> RequestRecord]
    /\ pool \in [enabled : BOOLEAN, max_stake : Nat]
    /\ execution \in [enabled : BOOLEAN, max_budget : Nat]
    /\ claimable \in [Keys -> Nat]
    /\ batch_cash \in [BatchIds -> Nat]
    /\ pack_cash \in [Packs -> Nat]
    /\ wallet \in [Keys -> Nat]
    /\ pool_cash \in Nat /\ treasury \in Nat /\ market \in Nat /\ vault \in Nat

Init ==
    /\ ConfigInit
    /\ batches = [b \in BatchIds |-> NoBatch]
    /\ packs = [k \in Packs |-> NoPack]
    /\ request = [k \in Packs |-> NoRequest]
    /\ pool = [enabled |-> FALSE, max_stake |-> 2 * PackPrice]
    /\ execution = [enabled |-> FALSE, max_budget |-> 0]
    /\ claimable = [o \in Keys |-> 0]
    /\ batch_cash = [b \in BatchIds |-> 0]
    /\ pack_cash = [k \in Packs |-> 0]
    /\ pool_cash = 0
    /\ wallet = WalletCash
    /\ treasury = HouseCash
    /\ market = 0
    /\ vault = VaultCash

Eligible(m) == {i \in 1..Len(manifests[m].stocks) : manifests[m].stocks[i].pack_eligible}

-----------------------------------------------------------------------------
(* Batches                                                                  *)

NewBatch(owner, m, count, fee, source) ==
    [source |-> source, owner |-> owner, manifest |-> m, remaining |-> count,
     next_open |-> 0, unit_fee |-> fee]

Buy(b, owner, count) ==
    LET total == count * PackPrice
        m     == config.active_manifest
    IN  /\ batches[b].source = "None"
        /\ m # NoManifest
        /\ Eligible(m) # {}
        /\ count > 0
        /\ Admit(owner, total, {"Packs"})
        /\ wallet[owner] >= total
        /\ wallet' = [wallet EXCEPT ![owner] = @ - total]
        /\ batch_cash' = [batch_cash EXCEPT ![b] = @ + total]
        /\ batches' = [batches EXCEPT ![b] = NewBatch(owner, m, count, UnitFee, "Purchased")]
        /\ UNCHANGED <<manifests, packs, request, pool, execution, claimable, pack_cash,
                       pool_cash, treasury, market, vault>>

\* Yield goes to packs whole: the fee of a harvest was already charged.
\* The position's Earn/Packs/auto_packs guard is the owner's choice here.
FromYield(b, owner) ==
    LET split == PackAllocation(claimable[owner], PackPrice)
        total == split.count * PackPrice
        m     == config.active_manifest
    IN  /\ batches[b].source = "None"
        /\ m # NoManifest
        /\ Eligible(m) # {}
        /\ CheckProduct({"Packs"})
        /\ split.count \in 1..MaxCount
        /\ claimable' = [claimable EXCEPT ![owner] = split.remainder]
        /\ batch_cash' = [batch_cash EXCEPT ![b] = @ + total]
        /\ batches' = [batches EXCEPT ![b] = NewBatch(owner, m, split.count, 0, "Earned")]
        /\ UNCHANGED <<configVars, packs, request, pool, execution, pack_cash, pool_cash,
                       wallet, treasury, market, vault>>

\* Wrong on purpose: the gift is recorded without moving its cash.
MutantGift(b, gift, recipient, count) ==
    /\ batches[b].source # "None"
    /\ batches[gift].source = "None"
    /\ recipient # batches[b].owner
    /\ count \in 1..batches[b].remaining
    /\ batches' = [batches EXCEPT
            ![b].remaining = @ - count,
            ![gift] = NewBatch(recipient, batches[b].manifest, count, batches[b].unit_fee,
                               batches[b].source)]
    /\ UNCHANGED <<configVars, packs, request, pool, execution, cash>>

Gift(b, gift, recipient, count) ==
    LET total == count * PackPrice
    IN  /\ batches[b].source # "None"
        /\ batches[gift].source = "None"
        /\ CheckPilot(recipient)
        /\ recipient # batches[b].owner
        /\ count \in 1..batches[b].remaining
        /\ batch_cash[b] >= total
        /\ batches' = [batches EXCEPT
                ![b].remaining = @ - count,
                ![gift] = NewBatch(recipient, batches[b].manifest, count, batches[b].unit_fee,
                                   batches[b].source)]
        /\ batch_cash' = [batch_cash EXCEPT ![b] = @ - total, ![gift] = @ + total]
        /\ UNCHANGED <<configVars, packs, request, pool, execution, claimable, pack_cash,
                       pool_cash, wallet, treasury, market, vault>>

RefundBatch(b, count) ==
    LET total == count * PackPrice
    IN  /\ count \in 1..batches[b].remaining
        /\ batch_cash[b] >= total
        /\ batches' = [batches EXCEPT ![b].remaining = @ - count]
        /\ batch_cash' = [batch_cash EXCEPT ![b] = @ - total]
        /\ wallet' = [wallet EXCEPT ![batches[b].owner] = @ + total]
        /\ UNCHANGED <<configVars, packs, request, pool, execution, claimable, pack_cash,
                       pool_cash, treasury, market, vault>>

-----------------------------------------------------------------------------
(* Opening, drawing, settling and refunding a pack                          *)

\* Pack account k = <<batch, index>> of the next unopened pack.
CanOpen(b) ==
    /\ CheckProduct({"Packs"})
    /\ CheckPilot(batches[b].owner)
    /\ batches[b].remaining > 0
    /\ batch_cash[b] >= PackPrice

\* Wrong on purpose: the stake of a Lucky pack still includes the fee.
MutantOpened(b, lucky) ==
    [status |-> "Pending", owner |-> batches[b].owner, manifest |-> batches[b].manifest,
     unit_fee |-> IF lucky THEN 0 ELSE batches[b].unit_fee,
     stock_index |-> 0, ttl |-> PackTimeout, lucky |-> lucky,
     round |-> IF lucky THEN 1 ELSE 0,
     stake |-> IF lucky THEN PackPrice ELSE 0,
     budget |-> PackPrice - batches[b].unit_fee]

Opened(b, lucky) ==
    [status |-> "Pending", owner |-> batches[b].owner, manifest |-> batches[b].manifest,
     unit_fee |-> IF lucky THEN 0 ELSE batches[b].unit_fee,
     stock_index |-> 0, ttl |-> PackTimeout, lucky |-> lucky,
     round |-> IF lucky THEN 1 ELSE 0,
     stake |-> IF lucky THEN PackPrice - batches[b].unit_fee ELSE 0,
     budget |-> PackPrice - batches[b].unit_fee]

TakeFromBatch(b) ==
    /\ batches' = [batches EXCEPT ![b].remaining = @ - 1, ![b].next_open = @ + 1]
    /\ batch_cash' = [batch_cash EXCEPT ![b] = @ - PackPrice]

OpenPack(b) ==
    LET k == <<b, batches[b].next_open>>
    IN  /\ CanOpen(b)
        /\ TakeFromBatch(b)
        /\ packs' = [packs EXCEPT ![k] = Opened(b, FALSE)]
        /\ request' = [request EXCEPT ![k] = FreshRequest]
        /\ pack_cash' = [pack_cash EXCEPT ![k] = @ + PackPrice]
        /\ UNCHANGED <<configVars, pool, execution, claimable, pool_cash, wallet, treasury,
                       market, vault>>

\* Wrong on purpose: draws from the manifest in force when the pack is resolved.
MutantSampled(k, i) ==
    LET stocks == Eligible(config.active_manifest)
    IN  /\ i \in stocks
        /\ Cardinality({j \in stocks : j < i}) = request[k].pick % Cardinality(stocks)

\* The sampled entry among the eligible ones of the pinned manifest.
Sampled(k, i) ==
    LET stocks == Eligible(packs[k].manifest)
    IN  /\ i \in stocks
        /\ Cardinality({j \in stocks : j < i}) = request[k].pick % Cardinality(stocks)

ResolvePack(k, i) ==
    /\ ~packs[k].lucky /\ packs[k].status = "Pending" /\ packs[k].ttl > 0
    /\ request[k].state = "fulfilled"
    /\ Sampled(k, i)
    /\ packs' = [packs EXCEPT ![k].stock_index = i, ![k].status = "Selected"]
    /\ UNCHANGED <<configVars, batches, request, pool, execution, cash>>

\* Stock is delivered to the owner at no less than the oracle minimum; the
\* solver takes the budget and the treasury the fee.
PayForStock(k) ==
    LET p == packs[k]
    IN  /\ pack_cash[k] >= p.budget + p.unit_fee
        /\ pack_cash' = [pack_cash EXCEPT ![k] = @ - (p.budget + p.unit_fee)]
        /\ market' = market + p.budget
        /\ treasury' = treasury + p.unit_fee
        /\ packs' = [packs EXCEPT ![k].status = "Settled"]
        /\ UNCHANGED <<configVars, batches, request, pool, execution, claimable, batch_cash,
                       pool_cash, wallet, vault>>

\* Neither the oracle minimum nor a route exists for a budget of nothing.
Settleable(k) ==
    /\ CheckProduct({"Packs"})
    /\ execution.enabled /\ packs[k].budget <= execution.max_budget
    /\ packs[k].status = "Selected" /\ packs[k].ttl > 0 /\ packs[k].budget > 0

SettlePack(k) == Settleable(k) /\ PayForStock(k)

SwapPack(k, age) ==
    /\ Settleable(k)
    /\ age <= QuoteAge
    /\ PayForStock(k)

RefundPack(k) ==
    /\ ~packs[k].lucky /\ packs[k].status \in {"Pending", "Selected"} /\ packs[k].ttl = 0
    /\ pack_cash[k] >= PackPrice
    /\ pack_cash' = [pack_cash EXCEPT ![k] = @ - PackPrice]
    /\ wallet' = [wallet EXCEPT ![packs[k].owner] = @ + PackPrice]
    /\ packs' = [packs EXCEPT ![k].status = "Refunded"]
    /\ UNCHANGED <<configVars, batches, request, pool, execution, claimable, batch_cash,
                   pool_cash, treasury, market, vault>>

-----------------------------------------------------------------------------
(* Lucky: the pool matches the stake, the draw splits both, one rollover    *)

\* The pool's half of a roll leaves the pool before the draw is requested.
FundRoll(k, stake) ==
    /\ pool.enabled /\ stake <= pool.max_stake /\ pool_cash >= stake
    /\ pool_cash' = pool_cash - stake

LuckyOpen(b) ==
    LET k     == <<b, batches[b].next_open>>
        fee   == batches[b].unit_fee
        stake == PackPrice - fee
    IN  /\ CheckProduct({"Packs", "Lucky"})
        /\ batches[b].source = "Purchased"
        /\ CanOpen(b)
        /\ FundRoll(k, stake)
        /\ TakeFromBatch(b)
        /\ packs' = [packs EXCEPT ![k] = Opened(b, TRUE)]
        /\ request' = [request EXCEPT ![k] = FreshRequest]
        /\ pack_cash' = [pack_cash EXCEPT ![k] = @ + (PackPrice + stake) - fee]
        /\ treasury' = treasury + fee
        /\ UNCHANGED <<configVars, pool, execution, claimable, wallet, market, vault>>

Resolvable(k) ==
    /\ packs[k].lucky /\ packs[k].status = "Pending"
    /\ request[k].state = "fulfilled"

\* Works after the timeout too: a fulfilled draw is never refunded instead.
LuckyResolve(k, i) ==
    LET p      == packs[k]
        reward == LuckyPayout(p.stake, request[k].bucket)
    IN  /\ Resolvable(k)
        /\ reward # Err
        /\ pack_cash[k] >= 2 * p.stake
        /\ IF p.round = 1 THEN Sampled(k, i) ELSE i = p.stock_index
        /\ pack_cash' = [pack_cash EXCEPT ![k] = @ - (2 * p.stake - reward)]
        /\ pool_cash' = pool_cash + (2 * p.stake - reward)
        /\ packs' = [packs EXCEPT ![k].status = "LuckyReady", ![k].budget = reward,
                                  ![k].stock_index = i]
        /\ UNCHANGED <<configVars, batches, request, pool, execution, claimable, batch_cash,
                       wallet, treasury, market, vault>>

\* Wrong on purpose: banking waits for the product to run.
MutantBank(k) ==
    /\ CheckProduct({"Packs", "Lucky"})
    /\ packs[k].lucky /\ packs[k].status = "LuckyReady"
    /\ packs' = [packs EXCEPT ![k].status = "Selected", ![k].ttl = PackTimeout]
    /\ UNCHANGED <<configVars, batches, request, pool, execution, cash>>

Bank(k) ==
    /\ packs[k].lucky /\ packs[k].status = "LuckyReady"
    /\ packs' = [packs EXCEPT ![k].status = "Selected", ![k].ttl = PackTimeout]
    /\ UNCHANGED <<configVars, batches, request, pool, execution, cash>>

\* Wrong on purpose: forgets that only the first outcome may be rolled over.
MutantRollable(k) == packs[k].lucky /\ packs[k].status = "LuckyReady"

Rollable(k) == packs[k].lucky /\ packs[k].status = "LuckyReady" /\ packs[k].round = 1

Rollover(k) ==
    LET stake == packs[k].budget
    IN  /\ CheckProduct({"Packs", "Lucky"})
        /\ CheckPilot(packs[k].owner)
        /\ Rollable(k)
        /\ stake > 0 /\ FundRoll(k, stake)
        /\ pack_cash' = [pack_cash EXCEPT ![k] = @ + stake]
        /\ request' = [request EXCEPT ![k] = FreshRequest]
        /\ packs' = [packs EXCEPT ![k].stake = stake, ![k].round = 2,
                                  ![k].status = "Pending", ![k].ttl = PackTimeout]
        /\ UNCHANGED <<configVars, batches, pool, execution, claimable, batch_cash, wallet,
                       treasury, market, vault>>

\* Wrong on purpose: an owner who dislikes a fulfilled draw takes the stake back.
MutantRefundable(k) == packs[k].ttl = 0

Refundable(k) ==
    /\ packs[k].ttl = 0
    /\ packs[k].status = "Pending" => request[k].state # "fulfilled"

\* Wrong on purpose: the house's half of an undone roll is not returned.
MutantUndone(k) == 0

\* What goes back to the pool when an unfulfilled roll is undone.
Undone(k) == IF packs[k].status = "Pending" THEN packs[k].stake ELSE 0

\* Undoes an unfulfilled roll, or pays out a banked reward that expired.
LuckyRefund(k) ==
    LET p      == packs[k]
        undone == Undone(k)
        amount == IF p.status = "Pending" THEN p.stake ELSE p.budget
    IN  /\ p.lucky /\ p.status \in {"Pending", "Selected"}
        /\ Refundable(k)
        /\ pack_cash[k] >= undone + amount
        /\ pool_cash' = pool_cash + undone
        /\ pack_cash' = [pack_cash EXCEPT ![k] = @ - (undone + amount)]
        /\ wallet' = [wallet EXCEPT ![p.owner] = @ + amount]
        /\ packs' = [packs EXCEPT ![k].status = "Refunded"]
        /\ UNCHANGED <<configVars, batches, request, pool, execution, claimable, batch_cash,
                       treasury, market, vault>>

-----------------------------------------------------------------------------
(* Administration of execution and of the pool                              *)

ConfigureExecution(enabled, max_budget) ==
    /\ execution' = [enabled |-> enabled, max_budget |-> max_budget]
    /\ UNCHANGED <<configVars, batches, packs, request, pool, cash>>

ConfigureLucky(enabled, max_stake) ==
    /\ pool' = [enabled |-> enabled, max_stake |-> max_stake]
    /\ UNCHANGED <<configVars, batches, packs, request, execution, cash>>

WithdrawReserve(amount) ==
    /\ pool_cash >= amount
    /\ pool_cash' = pool_cash - amount
    /\ treasury' = treasury + amount
    /\ UNCHANGED <<configVars, accounts, claimable, batch_cash, pack_cash, wallet, market, vault>>

-----------------------------------------------------------------------------
(* The environment                                                          *)

\* A plain token transfer by the house: the program has no deposit for it.
FundPool(amount) ==
    /\ treasury >= amount
    /\ treasury' = treasury - amount
    /\ pool_cash' = pool_cash + amount
    /\ UNCHANGED <<configVars, accounts, claimable, batch_cash, pack_cash, wallet, market, vault>>

\* A harvest of the position that feeds packs (module Positions has it whole).
AccrueYield(owner, amount) ==
    /\ vault >= amount
    /\ vault' = vault - amount
    /\ claimable' = [claimable EXCEPT ![owner] = @ + amount]
    /\ UNCHANGED <<configVars, accounts, batch_cash, pack_cash, pool_cash, wallet, treasury, market>>

\* ORAO's authorities answer a request once, whenever they do.
Fulfil(k, bucket, pick) ==
    /\ request[k].state = "requested"
    /\ request' = [request EXCEPT ![k] = [state |-> "fulfilled", bucket |-> bucket, pick |-> pick]]
    /\ UNCHANGED <<configVars, batches, packs, pool, execution, cash>>

\* Time passes for every pack at once.
Tick ==
    /\ \E k \in Packs : packs[k].ttl > 0
    /\ packs' = [k \in Packs |-> [packs[k] EXCEPT !.ttl = MostOf(@ - 1, 0)]]
    /\ UNCHANGED <<configVars, batches, request, pool, execution, cash>>

-----------------------------------------------------------------------------
BatchStep ==
    \E b \in BatchIds :
        \/ \E owner \in Keys, count \in 1..MaxCount : Buy(b, owner, count)
        \/ \E owner \in Keys : FromYield(b, owner)
        \/ \E gift \in BatchIds, recipient \in Keys, count \in 1..MaxCount :
              Gift(b, gift, recipient, count)
        \/ \E count \in 1..MaxCount : RefundBatch(b, count)
        \/ OpenPack(b)
        \/ LuckyOpen(b)

PackStep ==
    \E k \in Packs :
        \/ \E i \in 1..MaxStocks : ResolvePack(k, i)
        \/ SettlePack(k)
        \/ \E age \in 0..MaxAge : SwapPack(k, age)
        \/ RefundPack(k)
        \/ \E i \in 0..MaxStocks : LuckyResolve(k, i)
        \/ Bank(k)
        \/ Rollover(k)
        \/ LuckyRefund(k)

HouseStep ==
    \/ AdminStep /\ UNCHANGED <<accounts, cash>>
    \/ \E enabled \in BOOLEAN, max \in BudgetChoices : ConfigureExecution(enabled, max)
    \/ \E enabled \in BOOLEAN, max \in StakeChoices : ConfigureLucky(enabled, max)
    \/ \E amount \in PoolMoves : WithdrawReserve(amount) \/ FundPool(amount)

EnvironmentStep ==
    \/ \E owner \in Keys, amount \in YieldSteps : AccrueYield(owner, amount)
    \/ \E k \in Packs, bucket \in DrawBuckets, pick \in DrawPicks : Fulfil(k, bucket, pick)
    \/ Tick

Next == BatchStep \/ PackStep \/ HouseStep \/ EnvironmentStep

Spec == Init /\ [][Next]_vars

-----------------------------------------------------------------------------
(* Safety                                                                   *)

Live(k) == packs[k].status \in {"Pending", "Selected", "LuckyReady"}

\* What the pack's own token account must be able to pay, now or after the
\* draw: both stakes while a roll is open, then the reward; the whole price
\* of a plain pack, since its refund returns the fee as well.
Liability(k) ==
    LET p == packs[k]
    IN  IF ~Live(k) THEN 0
        ELSE IF ~p.lucky THEN PackPrice
        ELSE IF p.status = "Pending" THEN 2 * p.stake ELSE p.budget

\* Every unopened pack is backed by its price, through gifts, refunds and
\* openings in any order.  (packs.rs: buy, from_yield, gift, refund_batch, open)
BatchEscrow == \A b \in BatchIds : batch_cash[b] = batches[b].remaining * PackPrice

\* The pack account holds exactly its maximum liability in every state and
\* nothing once it has ended: no draw, rollover, refund or settlement can
\* find it short, and no money is stranded.  ("Maximum rewards are
\* physically escrowed before fresh ORAO requests", lucky.rs)
PackEscrow == \A k \in Packs : pack_cash[k] = Liability(k)

\* A fee is charged once: it sits in a live plain pack beside its budget, was
\* paid when a Lucky pack opened, and yield packs owe none.
FeeChargedOnce ==
    \A k \in Packs : Live(k) =>
        /\ packs[k].lucky <=> packs[k].round > 0
        /\ packs[k].lucky => packs[k].unit_fee = 0
        /\ ~packs[k].lucky => packs[k].budget + packs[k].unit_fee = PackPrice

\* Two rolls at most double the stake twice, whatever is drawn.
LuckyAtMostFourStakes ==
    \A k \in Packs : Live(k) /\ packs[k].lucky =>
        /\ packs[k].stake <= packs[k].round * NewStake
        /\ packs[k].budget <= 2 * packs[k].stake

\* The stock drawn for a pack is an eligible entry of the sealed manifest the
\* batch was bought under, whatever was activated since.
DrawnStockEligible ==
    \A k \in Packs : packs[k].status \in {"Selected", "LuckyReady", "Settled"} =>
        /\ manifests[packs[k].manifest].sealed
        /\ packs[k].stock_index \in Eligible(packs[k].manifest)

\* A roll opens against an unanswered request; once it is answered the pack
\* can only take that answer: no refund, no other draw.  (lucky.rs, "no
\* cherry-picked refunds")
DrawsAreBlindAndFinal ==
    [][\A k \in Packs :
        /\ packs[k].status # "Pending" /\ packs'[k].status = "Pending"
              => request'[k].state = "requested"
        /\ packs[k].lucky /\ packs[k].status = "Pending" /\ request[k].state = "fulfilled"
              => /\ request'[k] = request[k]
                 /\ packs'[k].status \in {"Pending", "LuckyReady"}
                 /\ packs'[k].status = "LuckyReady" =>
                       packs'[k].budget = LuckyPayout(packs[k].stake, request[k].bucket)]_vars

-----------------------------------------------------------------------------
(* The abstract promise of a pack and how these accounts implement it.      *)

Phase(k) ==
    CASE packs[k].status = "Absent"                    -> "none"
      [] packs[k].status = "Pending"                   -> "rolling"
      [] packs[k].status \in {"Selected", "LuckyReady"} -> "drawn"
      [] packs[k].status = "Settled"                   -> "delivered"
      [] packs[k].status = "Refunded"                  -> "returned"

Owed(k) ==
    IF ~Live(k) THEN 0
    ELSE IF ~packs[k].lucky THEN PackPrice
    ELSE IF packs[k].status = "Pending" THEN packs[k].stake ELSE packs[k].budget

Promise == INSTANCE PackPromise WITH
    Packs <- Packs, Outcomes <- DrawBuckets, Price <- PackPrice, Stake <- NewStake,
    phase <- [k \in Packs |-> Phase(k)],
    owed  <- [k \in Packs |-> Owed(k)],
    rolls <- [k \in Packs |-> packs[k].round]

\* Every behaviour of the pack instructions is one of the promise: what an
\* owner may take away changes only by a draw of the published table, at most
\* two of them, and leaves exactly once, as stock or as cash.
PromiseKept == Promise!Spec
=============================================================================
