----------------------------- MODULE Positions -----------------------------
(***************************************************************************)
(* Earn positions, Limit orders and DCA orders: USDC deposited into a       *)
(* Kamino vault, harvests of what the vault earned, withdrawals, yield spent *)
(* on stock or packs, and order fills by a solver or a routed swap.  One     *)
(* action is one instruction.  Every instruction that touches the vault      *)
(* redeems all tracked shares, updates the accounts, puts the principal      *)
(* that is left back, and pays the fees out: that sequence is written once,  *)
(* as Redeemed and PutBack.                                                  *)
(*                                                                           *)
(* The vault is external.  A position gets one share per base unit it        *)
(* deposits, and worth is what the vault would pay for them all: it moves    *)
(* with the vault's gains and losses.  Times are kept as the time left.      *)
(***************************************************************************)
EXTENDS StockroomConfig, StockroomMath, Functions

CONSTANTS
    PositionIds,     \* PDAs of positions, each created at most once
    TermChoices,     \* terms an owner may ask for
    Deposits,        \* amounts deposited
    YieldShareBps,   \* config.yield_share_bps
    TradeFeeBps,     \* config.trade_fee_bps
    MaxSlippage,     \* config.max_slippage_bps
    LongestOrder,    \* 366 days, in ticks
    Intervals,       \* 1 hour to 31 days, in ticks
    HarvestCooldown, \* 3_600 seconds, in ticks
    HarvestMin,      \* 100_000: least gross yield of a harvest
    SettleMin,       \* 1_000_000: least yield settled in stock
    PackPrice,       \* PACK_USDC
    MaxCount,        \* packs a batch can hold
    QuoteAge,        \* 30 seconds, in ticks
    MaxAge,          \* bound: oldest quote offered
    BudgetChoices,   \* execution limits an admin may set
    Overhead,        \* redeposit_overhead of the vault
    Rounding,        \* bound: what one vault deposit keeps or leaves over
    Moves,           \* amounts the vault gains or loses at once
    Pieces,          \* bound: part amounts an owner or a solver asks for
    LossFloor,       \* bound: losses leave a position at least this worth
    Prices,          \* USDC price of Unit displayed stock the oracles may give
    Multipliers,     \* display multipliers the stock's mint may have
    Outputs,         \* stock units a route may quote or deliver
    Unit,            \* 10^decimals of the stock
    WalletCash,      \* USDC each key starts with
    VaultCash        \* USDC the vault's borrowers will pay in interest

ASSUME AccountAssumption == IsFiniteSet(Keys) /\ IsFiniteSet(PositionIds)
ASSUME RateAssumption ==
    /\ YieldShareBps \in Nat /\ YieldShareBps <= BPS
    /\ TradeFeeBps \in Nat /\ TradeFeeBps <= BPS
    /\ MaxSlippage \in Nat /\ MaxSlippage <= BPS
ASSUME AmountAssumption ==
    /\ Deposits \subseteq Nat /\ Moves \subseteq Nat \ {0} /\ Pieces \subseteq Nat
    /\ HarvestMin \in Nat \ {0} /\ SettleMin \in Nat \ {0}
    /\ PackPrice \in Nat \ {0} /\ MaxCount \in Nat \ {0}
    /\ Overhead \in Nat /\ Rounding \in Nat /\ LossFloor \in Nat
    /\ Prices \subseteq Nat /\ Outputs \subseteq Nat \ {0} /\ Unit \in Nat \ {0}
    /\ BudgetChoices \subseteq Nat \ {0}
    /\ WalletCash \in [Keys -> Nat] /\ VaultCash \in Nat
ASSUME MultiplierAssumption ==
    \A m \in Multipliers : m.mantissa \in Nat \ {0} /\ m.shift \in Int
ASSUME TimeAssumption ==
    /\ LongestOrder \in Nat /\ HarvestCooldown \in Nat
    /\ Intervals \subseteq Nat \ {0} /\ QuoteAge \in Nat /\ MaxAge \in Nat

Kinds == {"Earn", "Limit", "Dca"}
Destinations == {"Packs", "Stocks"}
TermRecord ==
    [kind : Kinds, destination : Destinations, auto_packs : BOOLEAN, stock_index : Nat,
     target_price : Nat, steps : Nat, interval : Nat, ttl : Nat, slippage_bps : Nat]
ASSUME TermAssumption ==
    \A t \in TermChoices :
        /\ t.kind \in {"Earn", "Limit", "Dca"} /\ t.destination \in {"Packs", "Stocks"}
        /\ t.auto_packs \in BOOLEAN
        /\ {t.stock_index, t.target_price, t.steps, t.interval, t.ttl, t.slippage_bps} \subseteq Nat

VARIABLES
    positions,    \* Position accounts
    execution,    \* PackExecution account
    position_cash,\* USDC account of each position
    worth,        \* what the vault would pay for a position's tracked shares
    penalty,      \* the vault's curator charges for withdrawals
    multiplier,   \* of displayed units, in the mint of the stock
    vault_cash,   \* interest the vault can still credit
    vault_kept,   \* what deposits and losses left in the vault for others
    wallet,       \* USDC account of each key
    treasury,     \* USDC of config.treasury
    market,       \* USDC paid for stock
    packs_cash    \* USDC moved into pack batches

cash == <<position_cash, vault_cash, vault_kept, wallet, treasury, market, packs_cash>>
vars == <<configVars, positions, execution, worth, penalty, multiplier, cash>>

NoPosition ==
    [status |-> "None", owner |-> NoKey, manifest |-> NoManifest, kind |-> "Earn",
     destination |-> "Packs", auto_packs |-> FALSE, stock_index |-> 0, target_price |-> 0,
     slippage_bps |-> 0, steps |-> 0, interval |-> 0, next_fill |-> 0, ttl |-> 0, cooldown |-> 0,
     principal_basis |-> 0, shares |-> 0, invested_fee_basis |-> 0, pending_fees |-> 0,
     claimable |-> 0, gross_yield |-> 0, yield_fees |-> 0, fee_carry |-> 0,
     allocated_yield |-> 0, stock_units |-> 0, stock_spent |-> 0]
PositionRecord ==
    [status : {"None", "Active", "Filled", "Cancelled"}, owner : Keys \cup {NoKey},
     manifest : ManifestIds \cup {NoManifest}, kind : Kinds, destination : Destinations,
     auto_packs : BOOLEAN, stock_index : Nat, target_price : Nat, slippage_bps : Nat,
     steps : Nat, interval : Nat, next_fill : Nat, ttl : Nat, cooldown : Nat,
     principal_basis : Nat, shares : Nat, invested_fee_basis : Nat, pending_fees : Nat,
     claimable : Nat, gross_yield : Nat, yield_fees : Nat, fee_carry : 0..(BPS - 1),
     allocated_yield : Nat, stock_units : Nat, stock_spent : Nat]

\* Every account and balance stays in the range its Rust type gives it.
TypeOK ==
    /\ ConfigTypeOK
    /\ positions \in [PositionIds -> PositionRecord]
    /\ execution \in [enabled : BOOLEAN, max_budget : Nat]
    /\ position_cash \in [PositionIds -> Nat]
    /\ worth \in [PositionIds -> Nat]
    /\ wallet \in [Keys -> Nat]
    /\ penalty \in BOOLEAN /\ multiplier \in Multipliers
    /\ vault_cash \in Nat /\ vault_kept \in Nat
    /\ treasury \in Nat /\ market \in Nat /\ packs_cash \in Nat

Init ==
    /\ ConfigInit
    /\ positions = [k \in PositionIds |-> NoPosition]
    /\ execution = [enabled |-> FALSE, max_budget |-> 0]
    /\ position_cash = [k \in PositionIds |-> 0]
    /\ worth = [k \in PositionIds |-> 0]
    /\ penalty = FALSE
    /\ multiplier \in Multipliers
    /\ vault_cash = VaultCash
    /\ vault_kept = 0
    /\ wallet = WalletCash
    /\ treasury = 0
    /\ market = 0
    /\ packs_cash = 0

-----------------------------------------------------------------------------
(* Out of the vault, and back                                               *)

ProductsOf(kind, destination) ==
    CASE kind = "Limit" -> {"Limit"}
      [] kind = "Dca"   -> {"Dca"}
      [] kind = "Earn"  -> IF destination = "Stocks" THEN {"Earn", "StockYield"} ELSE {"Earn"}

Invested(p) == p.principal_basis + p.invested_fee_basis

\* Shares that are gone must have been accounted for.
CanRedeem(k) ==
    LET p == positions[k]
    IN  /\ p.shares = 0 => Invested(p) = 0
        /\ Realizable(worth[k], Invested(p), YieldShareBps, p.fee_carry)

PrincipalValue(k) == LeastOf(worth[k], positions[k].principal_basis)

\* Wrong on purpose: fee money that was redeployed counts as principal's yield.
MutantRedeemed(k) ==
    LET p == positions[k]
        r == Realize(worth[k], p.principal_basis, YieldShareBps, p.fee_carry)
    IN  [p EXCEPT !.claimable = @ + r.net, !.pending_fees = @ + r.fee,
                  !.gross_yield = @ + r.gross, !.yield_fees = @ + r.fee,
                  !.fee_carry = r.fee_carry, !.shares = 0, !.invested_fee_basis = 0]

\* redeem_all: the position after its tracked shares came back as worth[k].
Redeemed(k) ==
    LET p         == positions[k]
        r         == Realize(worth[k], Invested(p), YieldShareBps, p.fee_carry)
        recovered == LeastOf(worth[k], Invested(p)) - PrincipalValue(k)
    IN  [p EXCEPT !.claimable = @ + r.net, !.pending_fees = @ + r.fee + recovered,
                  !.gross_yield = @ + r.gross, !.yield_fees = @ + r.fee,
                  !.fee_carry = r.fee_carry, !.shares = 0, !.invested_fee_basis = 0]

\* Wrong on purpose: nobody checks what the new shares are worth.
MutantReinvestable(q, principal, protect, spent, lost) ==
    /\ ~penalty
    /\ protect => q.pending_fees >= Overhead
    /\ spent \in principal..(principal + LeastOf(Overhead, q.pending_fees))

\* reinvest: principal goes back with at most the overhead taken from fees;
\* a protected reinvestment must be worth the principal afterwards.
Reinvestable(q, principal, protect, spent, lost) ==
    /\ ~penalty
    /\ protect => q.pending_fees >= Overhead
    /\ spent \in principal..(principal + LeastOf(Overhead, q.pending_fees))
    /\ protect => spent - lost >= principal

\* Wrong on purpose: the vault's penalty is looked at with nothing to put back.
MutantAffords(k, q, principal, protect, out, spent, lost) ==
    /\ Reinvestable(q, principal, protect, spent, lost)
    /\ IF principal = 0 THEN spent = 0 /\ lost = 0 ELSE spent > lost
    /\ position_cash[k] + worth[k] >= principal + q.pending_fees + out

\* What came in pays for spent, of which the vault keeps lost, and for the rest
\* of the fees and out; with nothing to put back the vault is not asked.
Affords(k, q, principal, protect, out, spent, lost) ==
    /\ IF principal = 0 THEN spent = 0 /\ lost = 0
       ELSE spent > lost /\ Reinvestable(q, principal, protect, spent, lost)
    /\ position_cash[k] + worth[k] >= principal + q.pending_fees + out
CanPutBack(k, q, principal, protect, out) ==
    \E spent \in 0..(principal + Overhead), lost \in 0..Rounding :
        Affords(k, q, principal, protect, out, spent, lost)

\* Redeem, continue as q with principal to put back, and pay fees and out:
\* what withdraw, harvest, fill and swap have in common.
PutBack(k, q, principal, protect, out) ==
    \E spent \in 0..(principal + Overhead), lost \in 0..Rounding :
        LET extra == spent - principal
            fees  == q.pending_fees - extra
        IN  /\ Affords(k, q, principal, protect, out, spent, lost)
            /\ positions' = [positions EXCEPT ![k] =
                    [q EXCEPT !.shares = spent, !.invested_fee_basis = extra, !.pending_fees = 0]]
            /\ position_cash' = [position_cash EXCEPT ![k] = @ + worth[k] - (spent + fees + out)]
            /\ worth' = [worth EXCEPT ![k] = spent - lost]
            /\ vault_kept' = vault_kept + lost
            /\ treasury' = treasury + fees

-----------------------------------------------------------------------------
(* The owner                                                                *)

ValidTerms(t, m) ==
    /\ t.slippage_bps <= MaxSlippage
    /\ (t.kind # "Earn" \/ t.destination = "Stocks") =>
          t.stock_index \in 1..Len(manifests[m].stocks)
    /\ t.kind # "Earn" => t.ttl \in 1..LongestOrder
    /\ t.kind = "Limit" => t.target_price > 0
    /\ t.kind = "Dca" => t.steps \in 2..365 /\ t.interval \in Intervals

NewPosition(owner, t, m, spent) ==
    [NoPosition EXCEPT
        !.status = "Active", !.owner = owner, !.manifest = m, !.kind = t.kind,
        !.destination = t.destination, !.auto_packs = t.auto_packs,
        !.stock_index = t.stock_index, !.target_price = t.target_price,
        !.slippage_bps = t.slippage_bps,
        !.steps = IF t.kind = "Dca" THEN t.steps ELSE 1,
        !.interval = t.interval,
        !.next_fill = IF t.kind = "Dca" THEN t.interval ELSE 0,
        !.ttl = t.ttl, !.cooldown = HarvestCooldown,
        !.principal_basis = spent, !.shares = spent]

\* The vault takes spent of the amount, and what it did not take is returned.
Deposited(k, owner, amount, spent, lost) ==
    /\ spent \in 1..amount /\ amount - spent <= Rounding
    /\ lost \in 0..Rounding /\ lost < spent
    /\ wallet[owner] >= amount
    /\ wallet' = [wallet EXCEPT ![owner] = @ - spent]
    /\ worth' = [worth EXCEPT ![k] = @ + spent - lost]
    /\ vault_kept' = vault_kept + lost
    /\ UNCHANGED <<manifests, execution, penalty, position_cash, vault_cash, treasury, market,
                   packs_cash>>

Create(k, owner, amount, t, spent, lost) ==
    LET m == config.active_manifest
    IN  /\ positions[k].status = "None"
        /\ Admit(owner, amount, ProductsOf(t.kind, t.destination))
        /\ m # NoManifest
        /\ amount > 0
        /\ ValidTerms(t, m)
        /\ Deposited(k, owner, amount, spent, lost)
        /\ positions' = [positions EXCEPT ![k] = NewPosition(owner, t, m, spent)]

DepositMore(k, amount, spent, lost) ==
    LET p == positions[k]
    IN  /\ p.kind = "Earn" /\ p.status = "Active"
        /\ amount > 0
        /\ Admit(p.owner, amount, ProductsOf(p.kind, p.destination))
        /\ Deposited(k, p.owner, amount, spent, lost)
        /\ positions' = [positions EXCEPT ![k].principal_basis = @ + spent, ![k].shares = @ + spent]

Preferences(k, destination, auto_packs, stock_index) ==
    /\ positions[k].kind = "Earn" /\ positions[k].status = "Active"
    /\ CheckProduct(ProductsOf("Earn", destination))
    /\ CheckPilot(positions[k].owner)
    /\ destination = "Stocks" =>
          stock_index \in 1..Len(manifests[positions[k].manifest].stocks)
    /\ positions' = [positions EXCEPT ![k].destination = destination,
                                      ![k].auto_packs = auto_packs, ![k].stock_index = stock_index]
    /\ UNCHANGED <<configVars, execution, worth, penalty, cash>>

\* Withdraw takes principal out of an Earn position.
Withdrawn(k, take) ==
    [Redeemed(k) EXCEPT
        !.principal_basis = RemainingBasis(positions[k].principal_basis, PrincipalValue(k), take),
        !.cooldown = HarvestCooldown]
CanWithdraw(k, take) ==
    /\ positions[k].status = "Active" /\ positions[k].kind = "Earn"
    /\ CanRedeem(k)
    /\ take > 0 /\ RemainingBasis(positions[k].principal_basis, PrincipalValue(k), take) # Err
    /\ CanPutBack(k, Withdrawn(k, take), PrincipalValue(k) - take, FALSE, take)
Withdraw(k, take) ==
    /\ CanWithdraw(k, take)
    /\ PutBack(k, Withdrawn(k, take), PrincipalValue(k) - take, FALSE, take)
    /\ wallet' = [wallet EXCEPT ![positions[k].owner] = @ + take]
    /\ UNCHANGED <<configVars, execution, penalty, vault_cash, market, packs_cash>>

\* Wrong on purpose: the yield an order earned is not paid with its principal.
MutantCancel(k) ==
    LET p         == positions[k]
        principal == PrincipalValue(k)
    IN  /\ p.status = "Active" /\ p.kind # "Earn"
        /\ CanRedeem(k)
        /\ PutBack(k, [Redeemed(k) EXCEPT !.principal_basis = 0, !.status = "Cancelled"],
                   0, FALSE, principal)
        /\ wallet' = [wallet EXCEPT ![p.owner] = @ + principal]
        /\ UNCHANGED <<configVars, execution, penalty, vault_cash, market, packs_cash>>

\* The same instruction with cancel set ends an order and pays all it holds.
CancelBasis(k) == RemainingBasis(positions[k].principal_basis, PrincipalValue(k), PrincipalValue(k))
CancelPays(k) == PrincipalValue(k) + Redeemed(k).claimable
Cancelled(k) ==
    [Redeemed(k) EXCEPT !.principal_basis = CancelBasis(k), !.claimable = 0,
                        !.status = "Cancelled", !.cooldown = HarvestCooldown]
CanCancel(k) ==
    /\ positions[k].status = "Active" /\ positions[k].kind # "Earn"
    /\ CanRedeem(k)
    /\ CancelBasis(k) # Err
    /\ CanPutBack(k, Cancelled(k), 0, FALSE, CancelPays(k))
Cancel(k) ==
    /\ CanCancel(k)
    /\ PutBack(k, Cancelled(k), 0, FALSE, CancelPays(k))
    /\ wallet' = [wallet EXCEPT ![positions[k].owner] = @ + CancelPays(k)]
    /\ UNCHANGED <<configVars, execution, penalty, vault_cash, market, packs_cash>>

CanClaim(k, amount) == amount \in 1..positions[k].claimable /\ amount <= position_cash[k]
\* Wrong on purpose: a claim is paid out but not deducted.
MutantClaim(k, amount) ==
    /\ CanClaim(k, amount)
    /\ position_cash' = [position_cash EXCEPT ![k] = @ - amount]
    /\ wallet' = [wallet EXCEPT ![positions[k].owner] = @ + amount]
    /\ UNCHANGED <<configVars, positions, execution, worth, penalty, vault_cash, vault_kept,
                   treasury, market, packs_cash>>
Claim(k, amount) ==
    /\ CanClaim(k, amount)
    /\ positions' = [positions EXCEPT ![k].claimable = @ - amount]
    /\ position_cash' = [position_cash EXCEPT ![k] = @ - amount]
    /\ wallet' = [wallet EXCEPT ![positions[k].owner] = @ + amount]
    /\ UNCHANGED <<configVars, execution, worth, penalty, vault_cash, vault_kept, treasury,
                   market, packs_cash>>

-----------------------------------------------------------------------------
(* Anybody: harvest, and yield into packs                                   *)

Harvest(k) ==
    LET p == positions[k]
        q == Redeemed(k)
    IN  /\ ~config.paused
        /\ p.status = "Active"
        /\ p.cooldown = 0
        /\ ~penalty
        /\ CanRedeem(k)
        /\ q.gross_yield - p.gross_yield >= HarvestMin
        /\ PrincipalValue(k) = p.principal_basis
        /\ PutBack(k, [q EXCEPT !.cooldown = HarvestCooldown], p.principal_basis, TRUE, 0)
        /\ UNCHANGED <<configVars, execution, penalty, vault_cash, wallet, market, packs_cash>>

\* The batch this fills is Packs!FromYield; here its price leaves the position.
AutoPacks(k) ==
    LET p     == positions[k]
        split == PackAllocation(p.claimable, PackPrice)
        total == split.count * PackPrice
    IN  /\ CheckProduct({"Packs"})
        /\ p.status = "Active" /\ p.kind = "Earn" /\ p.destination = "Packs" /\ p.auto_packs
        /\ \E i \in 1..Len(manifests[config.active_manifest].stocks) :
               manifests[config.active_manifest].stocks[i].pack_eligible
        /\ split.count \in 1..MaxCount
        /\ total <= position_cash[k]
        /\ positions' = [positions EXCEPT ![k].claimable = split.remainder,
                                          ![k].allocated_yield = @ + total,
                                          ![k].cooldown = HarvestCooldown]
        /\ position_cash' = [position_cash EXCEPT ![k] = @ - total]
        /\ packs_cash' = packs_cash + total
        /\ UNCHANGED <<configVars, execution, worth, penalty, vault_cash, vault_kept, wallet,
                       treasury, market>>

-----------------------------------------------------------------------------
(* Solvers: stock for yield, and order fills                                *)

\* Wrong on purpose: the yield is marked as spent and stays where it was.
MutantSpendYield(k, amount, received) ==
    /\ amount \in 1..positions[k].claimable /\ amount <= position_cash[k]
    /\ positions' = [positions EXCEPT ![k].claimable = @ - amount,
                                      ![k].allocated_yield = @ + amount,
                                      ![k].stock_spent = @ + amount,
                                      ![k].stock_units = @ + received]
    /\ market' = market + amount
    /\ UNCHANGED <<configVars, execution, worth, penalty, position_cash, vault_cash, vault_kept,
                   wallet, treasury, packs_cash>>

\* Yield amount leaves for received stock.
SpendYield(k, amount, received) ==
    /\ amount \in 1..positions[k].claimable /\ amount <= position_cash[k]
    /\ positions' = [positions EXCEPT ![k].claimable = @ - amount,
                                      ![k].allocated_yield = @ + amount,
                                      ![k].stock_spent = @ + amount,
                                      ![k].stock_units = @ + received]
    /\ position_cash' = [position_cash EXCEPT ![k] = @ - amount]
    /\ market' = market + amount
    /\ UNCHANGED <<configVars, execution, worth, penalty, vault_cash, vault_kept, wallet, treasury,
                   packs_cash>>

YieldSpendable(k) ==
    LET p == positions[k]
    IN  /\ CheckProduct(ProductsOf(p.kind, p.destination))
        /\ p.status = "Active" /\ p.kind = "Earn" /\ p.destination = "Stocks"
        /\ p.stock_index \in 1..Len(manifests[p.manifest].stocks)

SettleYield(k, amount, price) ==
    LET minimum == OracleMinimum(amount, price, Unit, positions[k].slippage_bps, MaxSlippage,
                                 NoLimit, multiplier)
    IN  /\ YieldSpendable(k)
        /\ amount >= SettleMin
        /\ minimum # Err
        /\ SpendYield(k, amount, minimum)

\* A route is good if it delivers the quote less the position's slippage.
RouteDelivers(k, age, quoted, received) ==
    /\ execution.enabled
    /\ age <= QuoteAge
    /\ positions[k].slippage_bps <= MaxSlippage
    /\ received >= CeilDiv(quoted * (BPS - positions[k].slippage_bps), BPS)

SwapYield(k, input, age, quoted, received) ==
    /\ YieldSpendable(k)
    /\ input <= execution.max_budget
    /\ RouteDelivers(k, age, quoted, received)
    /\ SpendYield(k, input, received)

Due(k) ==
    LET p == positions[k]
    IN  /\ CheckProduct(ProductsOf(p.kind, p.destination))
        /\ p.status = "Active" /\ p.kind # "Earn"
        /\ p.ttl > 0 /\ p.next_fill = 0 /\ p.steps > 0
        /\ p.stock_index \in 1..Len(manifests[p.manifest].stocks)
        /\ CanRedeem(k)

\* One step's share of what is left: principal, yield and the fee on both.
Instalment(k) ==
    LET q         == Redeemed(k)
        principal == PrincipalValue(k) \div q.steps
        yield     == q.claimable \div q.steps
        fee       == FeeOf(principal + yield, TradeFeeBps)
    IN  [principal |-> principal, yield |-> yield, fee |-> fee,
         available |-> principal + yield - fee]

\* The principal an order holds after one step of it.
BasisAfter(k, part) ==
    RemainingBasis(positions[k].principal_basis, PrincipalValue(k), part.principal)

\* The order after one step that spent and delivered so much.
Filled(k, part, spent, received) ==
    LET q == Redeemed(k)
    IN  [q EXCEPT !.pending_fees = @ + part.fee, !.claimable = @ - part.yield,
                  !.principal_basis = BasisAfter(k, part),
                  !.steps = @ - 1, !.next_fill = q.interval, !.cooldown = HarvestCooldown,
                  !.stock_units = @ + received, !.stock_spent = @ + spent,
                  !.status = IF q.steps = 1 THEN "Filled" ELSE "Active"]

\* The solver that fills delivers at least the oracle minimum for the budget.
Fill(k, price) ==
    LET p       == positions[k]
        part    == Instalment(k)
        budget  == part.available
        limit   == IF p.kind = "Limit" THEN p.target_price ELSE NoLimit
        minimum == OracleMinimum(budget, price, Unit, p.slippage_bps, MaxSlippage, limit, multiplier)
    IN  /\ Due(k)
        /\ ~penalty
        /\ part.fee # Err /\ BasisAfter(k, part) # Err /\ minimum # Err
        /\ PutBack(k, Filled(k, part, budget, minimum),
                   PrincipalValue(k) - part.principal, TRUE, budget)
        /\ market' = market + budget
        /\ UNCHANGED <<configVars, execution, penalty, vault_cash, wallet, packs_cash>>

\* The routed swap compares all it took, fee included, with what arrived.
WithinLimit(k, cost, received) ==
    positions[k].kind = "Limit" =>
        PaysAtMost(cost, received, Unit, positions[k].target_price, multiplier)

SwapOrder(k, input, age, quoted, received) ==
    LET p      == positions[k]
        part   == Instalment(k)
        refund == part.available - input
    IN  /\ Due(k)
        /\ part.fee # Err /\ BasisAfter(k, part) # Err
        /\ input > 0 /\ input <= execution.max_budget
        /\ RouteDelivers(k, age, quoted, received)
        /\ input <= part.available
        /\ input * BPS >= part.available * (BPS - p.slippage_bps)
        /\ WithinLimit(k, input + part.fee, received)
        /\ PutBack(k, Filled(k, part, input, received),
                   PrincipalValue(k) - part.principal, TRUE, input + refund)
        /\ market' = market + input
        /\ wallet' = [wallet EXCEPT ![p.owner] = @ + refund]
        /\ UNCHANGED <<configVars, execution, penalty, vault_cash, packs_cash>>

-----------------------------------------------------------------------------
(* The administrator, the vault and the clock                               *)

ConfigureExecution(enabled, max_budget) ==
    /\ execution' = [enabled |-> enabled, max_budget |-> max_budget]
    /\ UNCHANGED <<configVars, positions, worth, penalty, cash>>

VaultGain(k, n) ==
    /\ positions[k].shares > 0 /\ n <= vault_cash
    /\ worth' = [worth EXCEPT ![k] = @ + n]
    /\ vault_cash' = vault_cash - n
    /\ UNCHANGED <<configVars, positions, execution, penalty, position_cash, vault_kept, wallet,
                   treasury, market, packs_cash>>

VaultLoss(k, n) ==
    /\ positions[k].shares > 0 /\ worth[k] >= n + LossFloor
    /\ worth' = [worth EXCEPT ![k] = @ - n]
    /\ vault_kept' = vault_kept + n
    /\ UNCHANGED <<configVars, positions, execution, penalty, position_cash, vault_cash, wallet,
                   treasury, market, packs_cash>>

SetPenalty(charged) ==
    /\ penalty' = charged
    /\ UNCHANGED <<configVars, positions, execution, worth, cash>>

\* The issuer schedules another multiplier and its time comes.
Rescale(m) ==
    /\ multiplier' = m
    /\ UNCHANGED <<configVars, positions, execution, worth, penalty, cash>>

Tick ==
    /\ \E k \in PositionIds :
          positions[k].ttl > 0 \/ positions[k].next_fill > 0 \/ positions[k].cooldown > 0
    /\ positions' = [k \in PositionIds |->
            [positions[k] EXCEPT !.ttl = MostOf(@ - 1, 0), !.next_fill = MostOf(@ - 1, 0),
                                 !.cooldown = MostOf(@ - 1, 0)]]
    /\ UNCHANGED <<configVars, execution, worth, penalty, cash>>

-----------------------------------------------------------------------------
\* A caller asks for a piece of what there is, or for all of it.
Asked(n) == {amount \in 1..n : amount \in Pieces \cup {n}}

OwnerStep ==
    \E k \in PositionIds :
        \/ \E owner \in Keys, amount \in Deposits, t \in TermChoices, lost \in 0..Rounding :
              \E spent \in (amount - Rounding)..amount : Create(k, owner, amount, t, spent, lost)
        \/ \E amount \in Deposits, lost \in 0..Rounding :
              \E spent \in (amount - Rounding)..amount : DepositMore(k, amount, spent, lost)
        \/ \E destination \in Destinations, auto_packs \in BOOLEAN :
              Preferences(k, destination, auto_packs, 1)
        \/ \E take \in Asked(PrincipalValue(k)) : Withdraw(k, take)
        \/ Cancel(k)
        \/ \E amount \in Asked(positions[k].claimable) : Claim(k, amount)

SolverStep ==
    \E k \in PositionIds :
        \/ Harvest(k)
        \/ AutoPacks(k)
        \/ \E amount \in Asked(positions[k].claimable), price \in Prices : SettleYield(k, amount, price)
        \/ \E price \in Prices : Fill(k, price)
        \/ \E age \in 0..MaxAge, quoted \in Outputs, received \in Outputs :
              \/ \E input \in Asked(positions[k].claimable) : SwapYield(k, input, age, quoted, received)
              \/ /\ Due(k)
                 /\ \E input \in 1..Instalment(k).available : SwapOrder(k, input, age, quoted, received)

WorldStep ==
    \/ AdminStep /\ UNCHANGED <<positions, execution, worth, penalty, cash>>
    \/ \E enabled \in BOOLEAN, max \in BudgetChoices : ConfigureExecution(enabled, max)
    \/ \E k \in PositionIds, n \in Moves : VaultGain(k, n) \/ VaultLoss(k, n)
    \/ \E charged \in BOOLEAN : SetPenalty(charged)
    \/ Tick

Next ==
    \/ OwnerStep /\ UNCHANGED multiplier
    \/ SolverStep /\ UNCHANGED multiplier
    \/ WorldStep /\ UNCHANGED multiplier
    \/ \E m \in Multipliers : Rescale(m)

Spec == Init /\ [][Next]_vars

-----------------------------------------------------------------------------
(* Safety                                                                   *)

\* Between instructions a position's account holds its claimable yield and
\* nothing else: principal is in the vault, every fee was paid out.
PositionEscrow ==
    \A k \in PositionIds :
        /\ position_cash[k] = positions[k].claimable
        /\ positions[k].pending_fees = 0

\* However a position's yield is split into harvests, withdrawals and fills,
\* the fees taken are its share of the gross exactly, less the carried
\* remainder of one unit.  (realize and fee_carry)
YieldFeesExact ==
    \A k \in PositionIds :
        positions[k].yield_fees * BPS + positions[k].fee_carry
            = positions[k].gross_yield * YieldShareBps

\* Only what the vault really earned is treated as yield: not principal that
\* recovers after a loss, not deposits, not redeployed fees.
YieldIsReal ==
    SumFunction([k \in PositionIds |-> positions[k].gross_yield]) <= VaultCash - vault_cash

\* No instruction mints or burns USDC: what is not in a wallet, an account or
\* spent is in the vault.
Conservation ==
    SumFunction(wallet) + SumFunction(position_cash) + SumFunction(worth) + vault_cash
        + vault_kept + treasury + market + packs_cash
    = SumFunction(WalletCash) + VaultCash

\* Pausing, closing products, changing the pilot, a curator who charges for
\* withdrawals, or a loss that leaves something never takes away an owner's way
\* out: an order can be cancelled, all of an Earn position's principal
\* withdrawn, and its yield claimed.  (withdraw, claim, redeem_all)
ExitsStayOpen ==
    \A k \in PositionIds :
        LET p == positions[k]
        IN  p.status = "Active" =>
                /\ p.kind # "Earn" => CanCancel(k)
                /\ p.kind = "Earn" /\ PrincipalValue(k) > 0 => CanWithdraw(k, PrincipalValue(k))
                /\ p.claimable > 0 => CanClaim(k, p.claimable)

\* An order that has ended holds nothing: no shares, no yield, no cash.
NothingStranded ==
    \A k \in PositionIds :
        positions[k].status \in {"Filled", "Cancelled"} =>
            /\ positions[k].shares = 0 /\ worth[k] = 0
            /\ positions[k].claimable = 0 /\ position_cash[k] = 0

\* A redemption that realises yield and takes no principal (a harvest, a step
\* of an order too small to spend principal) leaves new shares worth at least
\* the basis: what the vault keeps when the principal goes back is paid from
\* fees.  (reinvest with protect, whoever calls it)
PrincipalProtected ==
    [][\A k \in PositionIds :
        /\ positions[k].status = "Active" /\ positions'[k].status = "Active"
        /\ positions'[k].principal_basis = positions[k].principal_basis
        /\ positions'[k].gross_yield > positions[k].gross_yield
        => worth'[k] >= positions'[k].principal_basis]_vars

\* A limit under the mint's multiplier, in Scale-ths of a base unit.
Scale == Bit(MostOf(-multiplier.shift, 0))
ExactLimit(k) == positions[k].target_price * multiplier.mantissa * Bit(MostOf(multiplier.shift, 0))

\* On either path and after all rounding, whatever multiplier the mint has by
\* then, a limit order's stock costs less than one base unit of USDC more per
\* Unit than its limit; with a whole multiplier, no more than its limit.
\* (oracle::minimum rounds the scaled limit up, swap down)
LimitRespected ==
    [][\A k \in PositionIds :
        positions[k].kind = "Limit" =>
            (positions'[k].stock_spent - positions[k].stock_spent) * Unit * Scale
                <= (positions'[k].stock_units - positions[k].stock_units)
                       * (ExactLimit(k) + Scale - 1)]_vars

\* docs/ORACLE_FREE_RELEASE_2026-09-13.md:20 says more: "Limit prices include
\* the trading fee".  What a limit fill costs its owner is what left the
\* position for the market and, less the share of the yield, for the treasury.
LimitIncludesFee ==
    [][\A k \in PositionIds :
        (positions[k].kind = "Limit" /\ positions'[k].status = "Filled" /\ positions[k].status = "Active")
            => LET fee == (treasury' - treasury)
                              - (positions'[k].yield_fees - positions[k].yield_fees)
               IN  (market' - market + fee) * Unit * Scale
                     <= (positions'[k].stock_units - positions[k].stock_units)
                            * ExactLimit(k)]_vars
=============================================================================
