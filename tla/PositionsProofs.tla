-------------------------- MODULE PositionsProofs ---------------------------
(***************************************************************************)
(* Positions, for every number of keys and positions and all amounts, rates, *)
(* prices, gains and losses: the types, the backing of every position's cash *)
(* account, the exact fee on yield, that an order which ended holds nothing, *)
(* and that money is neither made nor lost and yield was earned.             *)
(*                                                                           *)
(* PositionGood says it of one position, its cash and its worth.  Every      *)
(* instruction writes one position, and those on the vault all write it by   *)
(* Redeemed and PutBack, whose arithmetic is proved once.                    *)
(***************************************************************************)
EXTENDS Positions, MathProofs, ConfigProofs

PositionGood(p, c, w) ==
    /\ p \in PositionRecord /\ w \in Nat
    /\ c = p.claimable
    /\ p.pending_fees = 0
    /\ p.yield_fees * BPS + p.fee_carry = p.gross_yield * YieldShareBps
    /\ p.status = "None" => p.claimable = 0 /\ p.shares = 0 /\ w = 0 /\ p.kind = "Earn"
    /\ p.status # "None" => p.owner \in Keys
    /\ p.status \in {"Filled", "Cancelled"} => p.shares = 0 /\ w = 0 /\ p.claimable = 0

AccountsOK ==
    /\ positions \in [PositionIds -> PositionRecord]
    /\ position_cash \in [PositionIds -> Nat]
    /\ worth \in [PositionIds -> Nat]
    /\ \A k \in PositionIds : PositionGood(positions[k], position_cash[k], worth[k])

BalancesOK ==
    /\ execution \in [enabled : BOOLEAN, max_budget : Nat]
    /\ wallet \in [Keys -> Nat]
    /\ penalty \in BOOLEAN
    /\ vault_cash \in Nat /\ vault_kept \in Nat
    /\ treasury \in Nat /\ market \in Nat /\ packs_cash \in Nat

Inv == ConfigInv /\ AccountsOK /\ BalancesOK

\* The mint's multiplier, which no instruction writes.
MultiplierOK == multiplier \in Multipliers

-----------------------------------------------------------------------------
(* Arithmetic                                                               *)

\* A fee is part of what it is taken of.
LEMMA FeeBounded ==
    ASSUME NEW amount \in Nat, FeeOf(amount, TradeFeeBps) # Err
    PROVE  FeeOf(amount, TradeFeeBps) \in Nat /\ FeeOf(amount, TradeFeeBps) <= amount
<1>1. /\ TradeFeeBps \in Nat /\ TradeFeeBps <= BPS /\ BPS \in Nat \ {0}
  BY RateAssumption, BPSAssumption
<1>2. FeeOf(amount, TradeFeeBps) = (amount * TradeFeeBps) \div BPS
  BY <1>1 DEF FeeOf, MulDiv
<1> QED BY <1>1, <1>2, SharesBounded

\* The exact limit and its scale are numbers.
LEMMA LimitIsNat ==
    ASSUME MultiplierOK, NEW limit \in Nat
    PROVE  /\ multiplier.mantissa \in Nat /\ multiplier.shift \in Int
           /\ Scale \in Nat \ {0} /\ Scale = Scaling(multiplier.shift)
           /\ Exact(limit, multiplier) \in Nat
<1>1. multiplier.mantissa \in Nat /\ multiplier.shift \in Int
  BY MultiplierAssumption DEF MultiplierOK
<1>2. MostOf(-multiplier.shift, 0) \in Nat /\ MostOf(multiplier.shift, 0) \in Nat
  BY <1>1 DEF MostOf
<1>3. Bit(MostOf(-multiplier.shift, 0)) \in Nat \ {0} /\ Bit(MostOf(multiplier.shift, 0)) \in Nat
  BY <1>2, PowerIsPositive DEF Bit
<1>4. PICK b \in Nat, n \in Nat :
         b = Bit(MostOf(multiplier.shift, 0)) /\ n = limit * multiplier.mantissa
  BY <1>1, <1>3
<1>5. Exact(limit, multiplier) = n * b BY <1>4 DEF Exact
<1>6. n * b \in Nat OBVIOUS
<1>7. Exact(limit, multiplier) \in Nat BY <1>5, <1>6
<1> QED BY <1>1, <1>3, <1>7 DEF Scale, Scaling

\* What a fill must deliver is a number of units, and covers the budget at the
\* exact limit up to less than one base unit of USDC per Unit.
LEMMA MinimumCovers ==
    ASSUME MultiplierOK, NEW budget \in Nat, NEW price \in Nat, NEW slippage \in Nat,
           NEW limit \in Nat \cup {NoLimit},
           OracleMinimum(budget, price, Unit, slippage, MaxSlippage, limit, multiplier) # Err
    PROVE  LET minimum == OracleMinimum(budget, price, Unit, slippage, MaxSlippage, limit,
                                        multiplier)
           IN  /\ minimum \in Nat
               /\ limit # NoLimit =>
                     budget * Unit * Scale <= minimum * (Exact(limit, multiplier) + Scale - 1)
<1>1. Unit \in Nat /\ MaxSlippage \in Nat BY AmountAssumption, RateAssumption
<1>2. /\ multiplier.mantissa \in Nat /\ multiplier.shift \in Int
      /\ Scale = Scaling(multiplier.shift)
  <2>1. 0 \in Nat OBVIOUS
  <2> QED BY <2>1, LimitIsNat
<1> QED BY <1>1, <1>2, OracleMinimumBounds

\* Yield splits into fee and net, and its fee is its share of the gross with
\* the remainder carried.
LEMMA Realized ==
    ASSUME NEW w \in Nat, NEW basis \in Nat, NEW carry \in 0..(BPS - 1),
           Realizable(w, basis, YieldShareBps, carry)
    PROVE  LET r == Realize(w, basis, YieldShareBps, carry)
           IN  /\ r.gross \in Nat /\ r.fee \in Nat /\ r.net \in Nat
               /\ r.fee_carry \in 0..(BPS - 1)
               /\ r.gross = r.net + r.fee /\ w = r.gross + LeastOf(w, basis)
               /\ r.fee * BPS + r.fee_carry = r.gross * YieldShareBps + carry
<1> DEFINE r == Realize(w, basis, YieldShareBps, carry)
           num == FeeNumerator(w, basis, YieldShareBps, carry)
<1>0. BPS \in Nat \ {0} /\ YieldShareBps \in Nat BY BPSAssumption, RateAssumption
<1>1. Gross(w, basis) \in Nat /\ w = Gross(w, basis) + LeastOf(w, basis)
  BY DEF Gross, MostOf, LeastOf
<1>2. num = Gross(w, basis) * YieldShareBps + carry BY DEF FeeNumerator
<1>3. Gross(w, basis) * YieldShareBps \in Nat BY <1>0, <1>1
<1>4. num \in Nat BY <1>0, <1>2, <1>3
<1>5. /\ r.gross = Gross(w, basis) /\ r.fee = num \div BPS
      /\ r.net = Gross(w, basis) - num \div BPS /\ r.fee_carry = num % BPS
  BY DEF Realize
<1>6. r.net >= 0 BY DEF Realizable
<1> HIDE DEF num, r
<1>7. /\ num \div BPS \in Nat /\ num % BPS \in 0..(BPS - 1)
      /\ num = (num \div BPS) * BPS + (num % BPS)
  BY <1>0, <1>4, Quotients
<1>8. r.net \in Nat BY <1>1, <1>5, <1>6, <1>7
<1>9. r.gross = r.net + r.fee BY <1>1, <1>5, <1>7
<1>10. r.fee * BPS + r.fee_carry = r.gross * YieldShareBps + carry
  BY <1>2, <1>5, <1>7
<1> QED BY <1>1, <1>5, <1>7, <1>8, <1>9, <1>10 DEF r
-----------------------------------------------------------------------------
(* What the accounts hold together                                          *)

\* What the vault has credited to a position: its yield so far, and what its
\* shares are worth above what was invested.
EarnedBy(p, w) == p.gross_yield + MostOf(w - Invested(p), 0)

\* All the USDC there is, and all the interest the vault has paid or may pay.
Common == vault_cash + vault_kept + treasury + market + packs_cash
Held == SumFunction(wallet) + SumFunction(position_cash) + SumFunction(worth) + Common
Credited == SumFunction([k \in PositionIds |-> EarnedBy(positions[k], worth[k])]) + vault_cash
BooksStep == Held' = Held /\ Credited' <= Credited

\* The part of the books that an instruction on position k may change, with a
\* payment to or from the wallet of o.
Purse(k, o) == wallet[o] + (position_cash[k] + worth[k]) + Common
OnlyPosition(k) ==
    \A j \in PositionIds \ {k} :
        /\ positions'[j] = positions[j]
        /\ position_cash'[j] = position_cash[j] /\ worth'[j] = worth[j]
OnlyWallet(o) == \A x \in Keys \ {o} : wallet'[x] = wallet[x]
Earns(k) ==
    EarnedBy(positions'[k], worth'[k]) + vault_cash'
        <= EarnedBy(positions[k], worth[k]) + vault_cash

\* Fields that decide what a position has earned.
SameEarning(p, q) ==
    /\ q.gross_yield = p.gross_yield /\ q.principal_basis = p.principal_basis
    /\ q.invested_fee_basis = p.invested_fee_basis

\* A redemption that was put back and paid out left nothing over, and out is
\* what went to a wallet or to the market.
Settled(k, out) ==
    (position_cash'[k] + worth'[k]) + (vault_kept' + treasury') + out
        = (position_cash[k] + worth[k]) + (vault_kept + treasury)
Received(o, out) == OnlyWallet(o) /\ wallet'[o] + market' = wallet[o] + market + out
NoMoreEarned(k) == EarnedBy(positions'[k], worth'[k]) <= EarnedBy(positions[k], worth[k])

\* The common accounts hold a natural number.
LEMMA CommonIsNat == BalancesOK => Common \in Nat
<1> SUFFICES ASSUME BalancesOK PROVE Common \in Nat OBVIOUS
<1>1. vault_cash + vault_kept \in Nat /\ treasury + market \in Nat BY DEF BalancesOK
<1>2. vault_cash + vault_kept + treasury \in Nat BY <1>1 DEF BalancesOK
<1>3. vault_cash + vault_kept + treasury + market \in Nat BY <1>2 DEF BalancesOK
<1> QED BY <1>3 DEF BalancesOK, Common

\* What a position has earned is a number.
LEMMA EarnedIsInt ==
    ASSUME NEW p \in PositionRecord, NEW w \in Nat
    PROVE  EarnedBy(p, w) \in Int
BY DEF EarnedBy, MostOf, Invested, PositionRecord

\* An instruction that moves USDC between one position, one wallet and the
\* common accounts keeps the whole books when it keeps that part of them.
LEMMA BooksLocal ==
    ASSUME Inv, Inv', NEW k \in PositionIds, NEW o \in Keys,
           OnlyPosition(k), OnlyWallet(o), Purse(k, o)' = Purse(k, o), Earns(k)
    PROVE  BooksStep
<1>1. IsFiniteSet(Keys) /\ IsFiniteSet(PositionIds) BY AccountAssumption
<1>2. /\ wallet \in [Keys -> Nat] /\ wallet' \in [Keys -> Nat]
      /\ position_cash \in [PositionIds -> Nat] /\ position_cash' \in [PositionIds -> Nat]
      /\ worth \in [PositionIds -> Nat] /\ worth' \in [PositionIds -> Nat]
      /\ positions \in [PositionIds -> PositionRecord]
      /\ positions' \in [PositionIds -> PositionRecord]
  BY DEF Inv, AccountsOK, BalancesOK
<1>3. /\ SumFunction(wallet) \in Int /\ SumFunction(wallet') \in Int
      /\ SumFunction(wallet') = SumFunction(wallet) + (wallet'[o] - wallet[o])
  <2>1. /\ DOMAIN wallet = Keys /\ DOMAIN wallet' = Keys
        /\ \A x \in Keys : wallet[x] \in Int /\ wallet'[x] \in Int
                              /\ (x # o => wallet[x] = wallet'[x])
    BY <1>2 DEF OnlyWallet
  <2> QED BY <1>1, <2>1, SumChange DEF SumFunction
<1>4. /\ SumFunction(position_cash) \in Int /\ SumFunction(position_cash') \in Int
      /\ SumFunction(position_cash')
           = SumFunction(position_cash) + (position_cash'[k] - position_cash[k])
  <2>1. /\ DOMAIN position_cash = PositionIds /\ DOMAIN position_cash' = PositionIds
        /\ \A x \in PositionIds : position_cash[x] \in Int /\ position_cash'[x] \in Int
                              /\ (x # k => position_cash[x] = position_cash'[x])
    BY <1>2 DEF OnlyPosition
  <2> QED BY <1>1, <2>1, SumChange DEF SumFunction
<1>5. /\ SumFunction(worth) \in Int /\ SumFunction(worth') \in Int
      /\ SumFunction(worth') = SumFunction(worth) + (worth'[k] - worth[k])
  <2>1. /\ DOMAIN worth = PositionIds /\ DOMAIN worth' = PositionIds
        /\ \A x \in PositionIds : worth[x] \in Int /\ worth'[x] \in Int
                              /\ (x # k => worth[x] = worth'[x])
    BY <1>2 DEF OnlyPosition
  <2> QED BY <1>1, <2>1, SumChange DEF SumFunction
<1>6. Common \in Nat /\ Common' \in Nat /\ vault_cash \in Nat /\ vault_cash' \in Nat
  <2>1. BalancesOK /\ BalancesOK' BY DEF Inv
  <2>2. Common \in Nat BY <2>1, CommonIsNat
  <2>3. (BalancesOK => Common \in Nat)' BY CommonIsNat, PTL
  <2> QED BY <2>1, <2>2, <2>3 DEF BalancesOK
<1>7. /\ wallet[o] \in Nat /\ wallet'[o] \in Nat /\ worth[k] \in Nat /\ worth'[k] \in Nat
      /\ position_cash[k] \in Nat /\ position_cash'[k] \in Nat
  BY <1>2
<1>8. Held' = Held
  <2>1. wallet'[o] + (position_cash'[k] + worth'[k]) + Common'
           = wallet[o] + (position_cash[k] + worth[k]) + Common
    BY DEF Purse
  <2>2. /\ Held = SumFunction(wallet) + SumFunction(position_cash) + SumFunction(worth) + Common
        /\ Held' = SumFunction(wallet') + SumFunction(position_cash') + SumFunction(worth')
                      + Common'
    BY DEF Held
  <2> QED BY <1>3, <1>4, <1>5, <1>6, <1>7, <2>1, <2>2
<1> DEFINE f == [j \in PositionIds |-> EarnedBy(positions[j], worth[j])]
           h == [j \in PositionIds |-> EarnedBy(positions'[j], worth'[j])]
<1>9. /\ SumFunctionOnSet(f, PositionIds) \in Int /\ SumFunctionOnSet(h, PositionIds) \in Int
      /\ SumFunctionOnSet(h, PositionIds) = SumFunctionOnSet(f, PositionIds) + (h[k] - f[k])
  <2>1. \A x \in PositionIds : f[x] \in Int /\ h[x] \in Int /\ (x # k => f[x] = h[x])
    BY <1>2, EarnedIsInt DEF OnlyPosition
  <2> HIDE DEF f, h
  <2> QED BY <1>1, <2>1, SumChange
<1>10. h[k] \in Int /\ f[k] \in Int /\ h[k] + vault_cash' <= f[k] + vault_cash
  BY <1>2, EarnedIsInt DEF Earns
<1>11. /\ Credited = SumFunctionOnSet(f, PositionIds) + vault_cash
       /\ Credited' = SumFunctionOnSet(h, PositionIds) + vault_cash'
  BY DEF Credited, SumFunction
<1> HIDE DEF f, h
<1>12. Credited' <= Credited BY <1>6, <1>9, <1>10, <1>11
<1> QED BY <1>8, <1>12 DEF BooksStep

\* What a redemption pays out is what a wallet and the market get.
LEMMA BooksSettled ==
    ASSUME Inv, Inv', NEW k \in PositionIds, NEW o \in Keys, NEW out \in Nat,
           OnlyPosition(k), Settled(k, out), NoMoreEarned(k),
           Received(o, out), UNCHANGED <<vault_cash, packs_cash>>
    PROVE  BooksStep
<1>1. /\ wallet[o] \in Nat /\ worth[k] \in Nat /\ worth'[k] \in Nat /\ wallet'[o] \in Nat
      /\ position_cash[k] \in Nat /\ position_cash'[k] \in Nat
      /\ positions[k] \in PositionRecord /\ positions'[k] \in PositionRecord
  BY DEF Inv, AccountsOK, BalancesOK
<1>2. /\ vault_kept \in Nat /\ treasury \in Nat /\ vault_kept' \in Nat /\ treasury' \in Nat
      /\ vault_cash \in Nat /\ packs_cash \in Nat /\ market \in Nat /\ market' \in Nat
  BY DEF Inv, BalancesOK
<1>3. Earns(k)
  <2>1. EarnedBy(positions'[k], worth'[k]) \in Int /\ EarnedBy(positions[k], worth[k]) \in Int
    BY <1>1, EarnedIsInt
  <2> QED BY <1>2, <2>1 DEF NoMoreEarned, Earns
<1>4. Purse(k, o)' = Purse(k, o)
  <2>1. /\ vault_kept + treasury \in Nat /\ vault_kept' + treasury' \in Nat
        /\ vault_cash + packs_cash \in Nat
        /\ position_cash[k] + worth[k] \in Nat /\ position_cash'[k] + worth'[k] \in Nat
    <3>1. vault_kept + treasury \in Nat BY <1>2
    <3>2. vault_kept' + treasury' \in Nat
      <4>1. PICK kept \in Nat, fees \in Nat : kept = vault_kept' /\ fees = treasury' BY <1>2
      <4>2. vault_kept' + treasury' = kept + fees BY <4>1
      <4> QED BY <4>2
    <3>3. vault_cash + packs_cash \in Nat BY <1>2
    <3>4. position_cash[k] + worth[k] \in Nat BY <1>1
    <3>5. position_cash'[k] + worth'[k] \in Nat BY <1>1
    <3> QED BY <3>1, <3>2, <3>3, <3>4, <3>5
  <2>2. PICK kept \in Nat, kept2 \in Nat, more \in Nat, had \in Nat, has \in Nat :
           /\ kept = vault_kept + treasury /\ kept2 = vault_kept' + treasury'
           /\ more = vault_cash + packs_cash
           /\ had = position_cash[k] + worth[k] /\ has = position_cash'[k] + worth'[k]
    BY <2>1
  <2>3. Common = kept + more + market BY <1>2, <2>2 DEF Common
  <2>4. Common' = kept2 + more + market' BY <1>2, <2>2 DEF Common
  <2>5. has + kept2 + out = had + kept BY <2>2 DEF Settled
  <2>6. Purse(k, o) = wallet[o] + had + Common /\ Purse(k, o)' = wallet'[o] + has + Common'
    BY <2>2 DEF Purse
  <2>7. PICK w \in Nat, w2 \in Nat, spent \in Nat, spent2 \in Nat :
           /\ w = wallet[o] /\ w2 = wallet'[o] /\ spent = market /\ spent2 = market'
    BY <1>1, <1>2
  <2>8. w2 + spent2 = w + spent + out BY <2>7 DEF Received
  <2>9. w2 + has + (kept2 + more + spent2) = w + had + (kept + more + spent)
    <3>1. w2 + spent2 \in Nat /\ has + kept2 \in Nat BY <2>2, <2>7
    <3>2. PICK gone \in Nat, there \in Nat : gone = w2 + spent2 /\ there = has + kept2 BY <3>1
    <3>3. w2 + has + (kept2 + more + spent2) = gone + there + more BY <2>2, <2>7, <3>2
    <3>4. gone = w + spent + out /\ there + out = had + kept BY <2>5, <2>8, <3>2
    <3>5. gone + there = w + spent + had + kept BY <2>2, <2>7, <3>2, <3>4
    <3> QED BY <2>2, <2>7, <3>2, <3>3, <3>5
  <2> QED BY <2>3, <2>4, <2>6, <2>7, <2>9
<1> QED BY <1>3, <1>4, BooksLocal DEF Received

\* What the instructions that redeem do to a wallet and to the market.
LEMMA Receives ==
    ASSUME Inv, NEW o \in Keys, NEW out \in Nat
    PROVE  /\ UNCHANGED <<wallet, market>> => Received(o, 0)
           /\ wallet' = [wallet EXCEPT ![o] = @ + out] /\ UNCHANGED market => Received(o, out)
           /\ UNCHANGED wallet /\ market' = market + out => Received(o, out)
           /\ \A bought \in Nat, paid \in Nat :
                 out = bought + paid /\ market' = market + bought
                    /\ wallet' = [wallet EXCEPT ![o] = @ + paid] => Received(o, out)
<1>1. wallet \in [Keys -> Nat] /\ market \in Nat BY DEF Inv, BalancesOK
<1>2. wallet[o] \in Nat BY <1>1
<1>3. PICK w \in Nat, spent \in Nat : w = wallet[o] /\ spent = market BY <1>1, <1>2
<1>4. ASSUME UNCHANGED <<wallet, market>> PROVE Received(o, 0)
  <2>1. OnlyWallet(o) /\ wallet'[o] = w BY <1>3, <1>4 DEF OnlyWallet
  <2> QED BY <1>3, <1>4, <2>1 DEF Received
<1>5. ASSUME wallet' = [wallet EXCEPT ![o] = @ + out], UNCHANGED market PROVE Received(o, out)
  <2>1. OnlyWallet(o) /\ wallet'[o] = w + out BY <1>1, <1>3, <1>5 DEF OnlyWallet
  <2>2. (w + out) + spent = w + spent + out BY <1>3
  <2> QED BY <1>3, <1>5, <2>1, <2>2 DEF Received
<1>6. ASSUME UNCHANGED wallet, market' = market + out PROVE Received(o, out)
  <2>1. OnlyWallet(o) /\ wallet'[o] = w BY <1>3, <1>6 DEF OnlyWallet
  <2>2. w + (spent + out) = w + spent + out BY <1>3
  <2> QED BY <1>3, <1>6, <2>1, <2>2 DEF Received
<1>7. ASSUME NEW bought \in Nat, NEW paid \in Nat, out = bought + paid, market' = market + bought,
             wallet' = [wallet EXCEPT ![o] = @ + paid]
      PROVE  Received(o, out)
  <2>1. OnlyWallet(o) /\ wallet'[o] = w + paid BY <1>1, <1>3, <1>7 DEF OnlyWallet
  <2>2. (w + paid) + (spent + bought) = w + spent + (bought + paid) BY <1>3
  <2> QED BY <1>3, <1>7, <2>1, <2>2 DEF Received
<1> QED BY <1>4, <1>5, <1>6, <1>7

\* Nothing moves and nothing is earned.
LEMMA BooksStand ==
    ASSUME Inv, UNCHANGED <<worth, cash>>,
           \A k \in PositionIds : SameEarning(positions[k], positions'[k])
    PROVE  BooksStep
<1>1. Held' = Held BY DEF cash, Held, Common
<1> DEFINE f == [j \in PositionIds |-> EarnedBy(positions[j], worth[j])]
           h == [j \in PositionIds |-> EarnedBy(positions'[j], worth[j])]
<1>2. f = h BY DEF SameEarning, EarnedBy, Invested
<1>3. Credited = SumFunction(f) + vault_cash /\ Credited' = SumFunction(h) + vault_cash
  BY DEF Credited, cash
<1>4. \A x \in PositionIds : f[x] \in Int BY EarnedIsInt DEF Inv, AccountsOK
<1>5. DOMAIN f = PositionIds OBVIOUS
<1> HIDE DEF f, h
<1>6. SumFunction(f) \in Int BY <1>4, <1>5, AccountAssumption, SumType DEF SumFunction
<1>7. Credited \in Int /\ Credited' = Credited BY <1>2, <1>3, <1>6 DEF Inv, BalancesOK
<1> QED BY <1>1, <1>7 DEF BooksStep

\* What a position pays out of its account goes to a wallet, to the market or
\* into packs, and nothing is earned.
LEMMA BooksPaid ==
    ASSUME Inv, Inv', NEW k \in PositionIds, NEW o \in Keys, NEW amount \in Nat,
           NEW q, SameEarning(positions[k], q), positions' = [positions EXCEPT ![k] = q],
           position_cash' = [position_cash EXCEPT ![k] = @ - amount],
           UNCHANGED <<worth, vault_cash, vault_kept, treasury>>,
           \/ wallet' = [wallet EXCEPT ![o] = @ + amount] /\ UNCHANGED <<market, packs_cash>>
           \/ market' = market + amount /\ UNCHANGED <<wallet, packs_cash>>
           \/ packs_cash' = packs_cash + amount /\ UNCHANGED <<wallet, market>>
    PROVE  BooksStep
<1>1. /\ OnlyPosition(k) /\ positions'[k] = q
      /\ position_cash'[k] = position_cash[k] - amount /\ OnlyWallet(o)
  BY DEF OnlyPosition, OnlyWallet, Inv, AccountsOK, BalancesOK
<1>2. Earns(k)
  <2>1. EarnedBy(q, worth[k]) = EarnedBy(positions[k], worth[k])
    BY DEF SameEarning, EarnedBy, Invested
  <2>2. EarnedBy(positions[k], worth[k]) + vault_cash \in Int
    BY EarnedIsInt DEF Inv, AccountsOK, BalancesOK
  <2>3. PICK n \in Int : n = EarnedBy(positions[k], worth[k]) + vault_cash BY <2>2
  <2>4. EarnedBy(positions'[k], worth'[k]) + vault_cash' = n BY <1>1, <2>1, <2>3
  <2> QED BY <2>3, <2>4 DEF Earns
<1>3. Purse(k, o)' = Purse(k, o)
  <2>1. PICK had \in Nat, w \in Nat, c \in Nat, kept \in Nat, spent \in Nat, packs \in Nat :
           /\ had = wallet[o] /\ w = worth[k] /\ c = position_cash[k]
           /\ kept = vault_cash + vault_kept + treasury /\ spent = market /\ packs = packs_cash
    <3>1. vault_cash + vault_kept + treasury \in Nat BY DEF Inv, BalancesOK
    <3> QED BY <3>1 DEF Inv, AccountsOK, BalancesOK
  <2>2. Common = kept + spent + packs BY <2>1 DEF Common, Inv, BalancesOK
  <2>3. Purse(k, o) = had + (c + w) + Common /\ Purse(k, o)' = wallet'[o] + ((c - amount) + w) + Common'
    BY <1>1, <2>1 DEF Purse
  <2>4. wallet \in [Keys -> Nat] BY DEF Inv, BalancesOK
  <2>5. CASE wallet' = [wallet EXCEPT ![o] = @ + amount] /\ UNCHANGED <<market, packs_cash>>
    <3>1. wallet'[o] = had + amount BY <2>1, <2>4, <2>5
    <3>2. Common' = kept + spent + packs BY <2>1, <2>5 DEF Common, Inv, BalancesOK
    <3>3. (had + amount) + ((c - amount) + w) + (kept + spent + packs)
             = had + (c + w) + (kept + spent + packs)
      BY <2>1
    <3> QED BY <2>2, <2>3, <3>1, <3>2, <3>3
  <2>6. CASE market' = market + amount /\ UNCHANGED <<wallet, packs_cash>>
    <3>1. Common' = kept + (spent + amount) + packs BY <2>1, <2>6 DEF Common, Inv, BalancesOK
    <3>2. had + ((c - amount) + w) + (kept + (spent + amount) + packs)
             = had + (c + w) + (kept + spent + packs)
      BY <2>1
    <3> QED BY <2>1, <2>2, <2>3, <2>6, <3>1, <3>2
  <2>7. CASE packs_cash' = packs_cash + amount /\ UNCHANGED <<wallet, market>>
    <3>1. Common' = kept + spent + (packs + amount) BY <2>1, <2>7 DEF Common, Inv, BalancesOK
    <3>2. had + ((c - amount) + w) + (kept + spent + (packs + amount))
             = had + (c + w) + (kept + spent + packs)
      BY <2>1
    <3> QED BY <2>1, <2>2, <2>3, <2>7, <3>1, <3>2
  <2> QED BY <2>5, <2>6, <2>7
<1> QED BY <1>1, <1>2, <1>3, BooksLocal

-----------------------------------------------------------------------------
(* Out of the vault, and back                                               *)

\* Fields that a redemption leaves as they are.
SameTerms(p, q) ==
    /\ q.status = p.status /\ q.owner = p.owner /\ q.steps = p.steps /\ q.interval = p.interval
    /\ q.principal_basis = p.principal_basis
    /\ q.stock_units = p.stock_units /\ q.stock_spent = p.stock_spent

\* A redemption splits what the account and the vault hold into the claimable
\* yield, the fees to pay and the principal, with nothing left over, and its
\* fee is exact.
LEMMA RedeemedFacts ==
    ASSUME NEW k \in PositionIds, AccountsOK, CanRedeem(k)
    PROVE  LET q == Redeemed(k)
           IN  /\ q \in PositionRecord /\ SameTerms(positions[k], q)
               /\ PrincipalValue(k) \in Nat /\ PrincipalValue(k) <= q.principal_basis
               /\ q.claimable + q.pending_fees + PrincipalValue(k) = position_cash[k] + worth[k]
               /\ q.yield_fees * BPS + q.fee_carry = q.gross_yield * YieldShareBps
               /\ q.gross_yield = positions[k].gross_yield
                                    + Gross(worth[k], Invested(positions[k]))
<1> DEFINE p == positions[k]
           r == Realize(worth[k], Invested(p), YieldShareBps, p.fee_carry)
           recovered == LeastOf(worth[k], Invested(p)) - PrincipalValue(k)
           q == Redeemed(k)
<1>1. /\ p \in PositionRecord /\ worth[k] \in Nat /\ PositionGood(p, position_cash[k], worth[k])
      /\ position_cash[k] = p.claimable /\ p.pending_fees = 0
      /\ p.yield_fees * BPS + p.fee_carry = p.gross_yield * YieldShareBps
  BY DEF AccountsOK, PositionGood
<1>2. /\ p.principal_basis \in Nat /\ p.invested_fee_basis \in Nat
      /\ p.claimable \in Nat /\ p.gross_yield \in Nat /\ p.yield_fees \in Nat
      /\ p.fee_carry \in 0..(BPS - 1)
  BY <1>1 DEF PositionRecord
<1>3. Invested(p) \in Nat /\ p.principal_basis <= Invested(p) BY <1>2 DEF Invested
<1>4. /\ PrincipalValue(k) \in Nat /\ PrincipalValue(k) <= p.principal_basis
      /\ LeastOf(worth[k], Invested(p)) \in Nat
      /\ PrincipalValue(k) <= LeastOf(worth[k], Invested(p))
  BY <1>1, <1>2, <1>3 DEF PrincipalValue, LeastOf
<1>5. Realizable(worth[k], Invested(p), YieldShareBps, p.fee_carry) BY DEF CanRedeem
<1>6. q = [p EXCEPT !.claimable = p.claimable + r.net,
                    !.pending_fees = p.pending_fees + r.fee + recovered,
                    !.gross_yield = p.gross_yield + r.gross, !.yield_fees = p.yield_fees + r.fee,
                    !.fee_carry = r.fee_carry, !.shares = 0, !.invested_fee_basis = 0]
  BY DEF Redeemed
<1>7. /\ r.gross \in Nat /\ r.fee \in Nat /\ r.net \in Nat /\ r.fee_carry \in 0..(BPS - 1)
      /\ r.gross = r.net + r.fee /\ worth[k] = r.gross + LeastOf(worth[k], Invested(p))
      /\ r.fee * BPS + r.fee_carry = r.gross * YieldShareBps + p.fee_carry
  <2>1. /\ worth[k] \in Nat /\ Invested(p) \in Nat /\ p.fee_carry \in 0..(BPS - 1)
        /\ Realizable(worth[k], Invested(p), YieldShareBps, p.fee_carry)
    BY <1>1, <1>2, <1>3, <1>5
  <2> HIDE DEF p
  <2> QED BY <2>1, Realized
<1>8. recovered \in Nat /\ r.gross = Gross(worth[k], Invested(p)) BY <1>4 DEF Realize
<1> HIDE DEF r, q, recovered
<1>9. q \in PositionRecord
  <2>1. PICK claimable \in Nat, pending \in Nat, gross \in Nat, fees \in Nat, carry \in 0..(BPS - 1) :
           q = [p EXCEPT !.claimable = claimable, !.pending_fees = pending, !.gross_yield = gross,
                         !.yield_fees = fees, !.fee_carry = carry, !.shares = 0,
                         !.invested_fee_basis = 0]
    <3>1. /\ p.claimable + r.net \in Nat /\ p.pending_fees + r.fee + recovered \in Nat
          /\ p.gross_yield + r.gross \in Nat /\ p.yield_fees + r.fee \in Nat
      BY <1>1, <1>2, <1>7, <1>8
    <3> QED BY <1>6, <1>7, <3>1
  <2> DEFINE a == [p EXCEPT !.claimable = claimable, !.pending_fees = pending]
             b == [a EXCEPT !.gross_yield = gross, !.yield_fees = fees, !.fee_carry = carry]
             e == [b EXCEPT !.shares = 0, !.invested_fee_basis = 0]
  <2>2. p \in PositionRecord BY <1>1
  <2>3. q = e BY <2>1, Zenon
  <2> HIDE DEF p
  <2>4. a \in PositionRecord BY <2>2, Zenon DEF PositionRecord
  <2> HIDE DEF a
  <2>5. b \in PositionRecord BY <2>4, Zenon DEF PositionRecord
  <2> HIDE DEF b
  <2>6. e \in PositionRecord
    <3>1. 0 \in Nat OBVIOUS
    <3> QED BY <2>5, <3>1, Zenon DEF PositionRecord
  <2> QED BY <2>3, <2>6, Zenon
<1>10. SameTerms(p, q) BY <1>1, <1>6 DEF PositionRecord, SameTerms
<1>11. /\ q.claimable = p.claimable + r.net /\ q.pending_fees = r.fee + recovered
       /\ q.yield_fees = p.yield_fees + r.fee /\ q.gross_yield = p.gross_yield + r.gross
       /\ q.fee_carry = r.fee_carry
  BY <1>1, <1>6, <1>7, <1>8 DEF PositionRecord
<1>12. q.claimable + q.pending_fees + PrincipalValue(k) = position_cash[k] + worth[k]
  BY <1>1, <1>2, <1>4, <1>7, <1>11 DEF recovered
<1>13. q.yield_fees * BPS + q.fee_carry = q.gross_yield * YieldShareBps
  <2>1. BPS \in Nat /\ YieldShareBps \in Nat BY BPSAssumption, RateAssumption
  <2>2. PICK before \in Nat, fee \in Nat, gross \in Nat, more \in Nat :
           /\ before = p.yield_fees /\ fee = r.fee /\ gross = p.gross_yield /\ more = r.gross
    BY <1>2, <1>7
  <2>3. /\ (before + fee) * BPS = before * BPS + fee * BPS
        /\ before * BPS \in Nat /\ fee * BPS \in Nat
    BY <2>1, Distributes
  <2>4. /\ (gross + more) * YieldShareBps = gross * YieldShareBps + more * YieldShareBps
        /\ gross * YieldShareBps \in Nat /\ more * YieldShareBps \in Nat
    BY <2>1, Distributes
  <2>5. /\ before * BPS + p.fee_carry = gross * YieldShareBps
        /\ fee * BPS + r.fee_carry = more * YieldShareBps + p.fee_carry
        /\ q.yield_fees = before + fee /\ q.gross_yield = gross + more
        /\ q.fee_carry = r.fee_carry /\ p.fee_carry \in Int /\ r.fee_carry \in Int
    BY <1>1, <1>2, <1>7, <1>11, <2>2
  <2>6. (before + fee) * BPS + r.fee_carry = (gross + more) * YieldShareBps
    BY <2>3, <2>4, <2>5
  <2> QED BY <2>5, <2>6
<1>14. q.gross_yield = p.gross_yield + Gross(worth[k], Invested(p)) BY <1>8, <1>11
<1> QED BY <1>4, <1>9, <1>10, <1>12, <1>13, <1>14 DEF q, SameTerms

\* Writing one position, its cash and its worth.
LEMMA WritePosition ==
    ASSUME AccountsOK, NEW k \in PositionIds, NEW q, NEW c, NEW w,
           PositionGood(q, c, w),
           positions' = [positions EXCEPT ![k] = q],
           position_cash' = [position_cash EXCEPT ![k] = c],
           worth' = [worth EXCEPT ![k] = w]
    PROVE  AccountsOK'
<1>1. q \in PositionRecord /\ c \in Nat /\ w \in Nat BY DEF PositionGood, PositionRecord
<1>2. /\ positions' \in [PositionIds -> PositionRecord]
      /\ position_cash' \in [PositionIds -> Nat] /\ worth' \in [PositionIds -> Nat]
  BY <1>1 DEF AccountsOK
<1>3. ASSUME NEW j \in PositionIds PROVE PositionGood(positions'[j], position_cash'[j], worth'[j])
  <2>1. CASE j = k BY <2>1 DEF AccountsOK
  <2>2. CASE j # k
    <3>1. /\ positions'[j] = positions[j] /\ position_cash'[j] = position_cash[j]
          /\ worth'[j] = worth[j]
      BY <2>2 DEF AccountsOK
    <3> QED BY <3>1 DEF AccountsOK
  <2> QED BY <2>1, <2>2
<1> QED BY <1>2, <1>3 DEF AccountsOK

\* What is spent on stock by a limit position in a step is covered, at its
\* limit and but for the rounding of the scaled limit, by what is received.
Covered(p, q) ==
    p.kind = "Limit" =>
        (q.stock_spent - p.stock_spent) * Unit * Scale
            <= (q.stock_units - p.stock_units) * (Exact(p.target_price, multiplier) + Scale - 1)

LimitStep == \A k \in PositionIds : Covered(positions[k], positions'[k])

\* A position whose stock does not change is covered.
LEMMA SameStock ==
    ASSUME MultiplierOK, NEW p \in PositionRecord, NEW q, q.stock_spent = p.stock_spent,
           q.stock_units = p.stock_units
    PROVE  Covered(p, q)
<1>1. /\ p.stock_spent \in Nat /\ p.stock_units \in Nat /\ p.target_price \in Nat
      /\ Unit \in Nat
  BY AmountAssumption DEF PositionRecord
<1>2. Scale \in Nat \ {0} /\ Exact(p.target_price, multiplier) \in Nat BY <1>1, LimitIsNat
<1>3. PICK top \in Int : top = Exact(p.target_price, multiplier) + Scale - 1 BY <1>2
<1>4. 0 * Unit * Scale = 0 /\ 0 * top = 0 BY <1>1, <1>2
<1>5. q.stock_spent - p.stock_spent = 0 /\ q.stock_units - p.stock_units = 0 BY <1>1
<1> QED BY <1>3, <1>4, <1>5 DEF Covered

LEMMA WriteCovered ==
    ASSUME AccountsOK, MultiplierOK, NEW k \in PositionIds, NEW q, Covered(positions[k], q),
           positions' = [positions EXCEPT ![k] = q]
    PROVE  LimitStep
<1> SUFFICES ASSUME NEW j \in PositionIds PROVE Covered(positions[j], positions'[j])
  BY DEF LimitStep
<1>1. positions'[j] = IF j = k THEN q ELSE positions[j] BY DEF AccountsOK
<1>2. positions[j] \in PositionRecord BY DEF AccountsOK
<1> QED BY <1>1, <1>2, SameStock

\* What goes back, out and to the treasury is what came in, so the account
\* ends with the claimable yield; a position that ends has put nothing back.
LEMMA PutBackStep ==
    ASSUME AccountsOK, BalancesOK, NEW k \in PositionIds, NEW q \in PositionRecord,
           NEW principal \in Nat, NEW protect \in BOOLEAN, NEW out \in Nat,
           PutBack(k, q, principal, protect, out),
           q.claimable + q.pending_fees + principal + out = position_cash[k] + worth[k],
           q.yield_fees * BPS + q.fee_carry = q.gross_yield * YieldShareBps,
           q.status # "None", q.owner \in Keys,
           q.status \in {"Filled", "Cancelled"} => principal = 0 /\ q.claimable = 0
    PROVE  /\ AccountsOK' /\ vault_kept' \in Nat /\ treasury' \in Nat
           /\ MultiplierOK /\ Covered(positions[k], q) => LimitStep
           /\ OnlyPosition(k) /\ Settled(k, out)
           /\ q.gross_yield = positions[k].gross_yield + Gross(worth[k], Invested(positions[k]))
                 /\ principal <= q.principal_basis => NoMoreEarned(k)
<1>1. PICK spent \in 0..(principal + Overhead), lost \in 0..Rounding :
         LET extra == spent - principal
             fees  == q.pending_fees - extra
         IN  /\ IF principal = 0 THEN spent = 0 /\ lost = 0
                ELSE spent > lost /\ Reinvestable(q, principal, protect, spent, lost)
             /\ positions' = [positions EXCEPT ![k] =
                     [q EXCEPT !.shares = spent, !.invested_fee_basis = extra, !.pending_fees = 0]]
             /\ position_cash' = [position_cash EXCEPT ![k] = @ + worth[k] - (spent + fees + out)]
             /\ worth' = [worth EXCEPT ![k] = spent - lost]
             /\ vault_kept' = vault_kept + lost
             /\ treasury' = treasury + fees
  BY DEF PutBack, Affords
<1> DEFINE extra == spent - principal
           fees == q.pending_fees - extra
           n == [q EXCEPT !.shares = spent, !.invested_fee_basis = extra, !.pending_fees = 0]
           c == position_cash[k] + worth[k] - (spent + fees + out)
<1>2. /\ Overhead \in Nat /\ Rounding \in Nat BY AmountAssumption
<1>3. /\ q.claimable \in Nat /\ q.pending_fees \in Nat /\ q.yield_fees \in Nat
      /\ q.gross_yield \in Nat /\ position_cash[k] \in Nat /\ worth[k] \in Nat
  BY DEF PositionRecord, AccountsOK
<1>4. spent \in Nat /\ lost \in Nat BY <1>2
<1>5. extra \in Nat /\ extra <= q.pending_fees /\ spent - lost \in Nat
  <2>1. CASE principal = 0 BY <1>1, <1>3, <2>1
  <2>2. CASE principal # 0
    <3>1. /\ spent > lost
          /\ spent \in principal..(principal + LeastOf(Overhead, q.pending_fees))
      BY <1>1, <2>2 DEF Reinvestable
    <3> QED BY <1>2, <1>3, <1>4, <3>1 DEF LeastOf
  <2> QED BY <2>1, <2>2
<1>6. fees \in Nat BY <1>3, <1>5
<1>7. c = q.claimable BY <1>3, <1>4
<1> HIDE DEF extra, fees
<1>8. /\ n \in PositionRecord /\ n.claimable = q.claimable /\ n.pending_fees = 0
      /\ n.shares = spent /\ n.status = q.status /\ n.owner = q.owner
      /\ n.yield_fees = q.yield_fees /\ n.gross_yield = q.gross_yield
      /\ n.fee_carry = q.fee_carry
      /\ n.stock_spent = q.stock_spent /\ n.stock_units = q.stock_units
      /\ n.principal_basis = q.principal_basis /\ n.invested_fee_basis = extra
  BY <1>4, <1>5 DEF PositionRecord
<1>9. q.status \in {"Filled", "Cancelled"} => spent = 0 /\ spent - lost = 0 BY <1>1
<1> HIDE DEF n, c
<1>10. PositionGood(n, c, spent - lost) BY <1>5, <1>7, <1>8, <1>9 DEF PositionGood
<1>11. /\ positions' = [positions EXCEPT ![k] = n]
       /\ position_cash' = [position_cash EXCEPT ![k] = c]
       /\ worth' = [worth EXCEPT ![k] = spent - lost]
  BY <1>1 DEF n, c, extra, fees, AccountsOK
<1>12. AccountsOK' BY <1>10, <1>11, WritePosition
<1>13. vault_kept' \in Nat /\ treasury' \in Nat
  BY <1>1, <1>4, <1>6 DEF BalancesOK, fees, extra
<1>14. MultiplierOK /\ Covered(positions[k], q) => LimitStep
  <2>1. Covered(positions[k], q) => Covered(positions[k], n) BY <1>8 DEF Covered
  <2> QED BY <1>11, <2>1, WriteCovered
<1>15. /\ OnlyPosition(k) /\ positions'[k] = n /\ position_cash'[k] = c
       /\ worth'[k] = spent - lost
  BY <1>11 DEF OnlyPosition, AccountsOK
<1>16. Settled(k, out)
  <2>1. c = position_cash[k] + worth[k] - (spent + fees + out) BY DEF c
  <2>2. vault_kept' = vault_kept + lost /\ treasury' = treasury + fees
    BY <1>1 DEF fees, extra
  <2>3. vault_kept \in Nat /\ treasury \in Nat BY DEF BalancesOK
  <2>4. PICK had \in Nat, kept \in Nat :
           had = position_cash[k] + worth[k] /\ kept = vault_kept + treasury
    <3>1. position_cash[k] + worth[k] \in Nat /\ vault_kept + treasury \in Nat BY <1>3, <2>3
    <3> QED BY <3>1
  <2>5. vault_kept' + treasury' = kept + lost + fees BY <1>4, <1>6, <2>2, <2>3, <2>4
  <2>6. position_cash'[k] + worth'[k] = (had - (spent + fees + out)) + (spent - lost)
    <3>1. PICK taken \in Nat : taken = spent + fees + out BY <1>4, <1>6
    <3>2. c = had - taken BY <1>3, <2>1, <2>4, <3>1
    <3> QED BY <1>15, <3>1, <3>2
  <2>7. ((had - (spent + fees + out)) + (spent - lost)) + (kept + lost + fees) + out = had + kept
    BY <1>4, <1>6, <2>4
  <2> QED BY <2>4, <2>5, <2>6, <2>7 DEF Settled
<1>17. ASSUME q.gross_yield = positions[k].gross_yield + Gross(worth[k], Invested(positions[k])),
              principal <= q.principal_basis
       PROVE  NoMoreEarned(k)
  <2>1. q.principal_basis \in Nat /\ positions[k].gross_yield \in Nat
    BY DEF PositionRecord, AccountsOK
  <2>2. (spent - lost) - Invested(n) <= 0
    BY <1>4, <1>8, <1>17, <2>1 DEF Invested, extra
  <2>3. (spent - lost) - Invested(n) \in Int BY <1>4, <1>8, <2>1 DEF Invested, extra
  <2>4. EarnedBy(n, spent - lost) = q.gross_yield
    BY <1>3, <1>8, <2>2, <2>3 DEF EarnedBy, MostOf
  <2>5. q.gross_yield = EarnedBy(positions[k], worth[k]) BY <1>17 DEF EarnedBy, Gross
  <2> QED BY <1>3, <1>15, <2>4, <2>5 DEF NoMoreEarned
<1> QED BY <1>12, <1>13, <1>14, <1>15, <1>16, <1>17

-----------------------------------------------------------------------------
(* The owner                                                                *)

\* What a position and its accounts are, one at a time.
LEMMA PositionFacts ==
    ASSUME AccountsOK, NEW k \in PositionIds
    PROVE  /\ positions[k] \in PositionRecord /\ worth[k] \in Nat /\ position_cash[k] \in Nat
           /\ PositionGood(positions[k], position_cash[k], worth[k])
BY DEF AccountsOK

\* What the vault took of a deposit is in the position; the rest stayed in
\* the owner's wallet.
LEMMA DepositedStep ==
    ASSUME BalancesOK, NEW k \in PositionIds, AccountsOK, NEW owner \in Keys, NEW amount \in Nat,
           NEW spent, NEW lost, Deposited(k, owner, amount, spent, lost)
    PROVE  /\ spent \in Nat /\ lost \in Nat /\ spent - lost \in Nat
           /\ UNCHANGED <<manifests, position_cash>>
           /\ worth' = [worth EXCEPT ![k] = @ + spent - lost]
           /\ worth[k] + spent - lost \in Nat
           /\ BalancesOK'
<1>1. /\ spent \in Nat /\ lost \in Nat /\ spent - lost \in Nat /\ spent <= amount
      /\ worth[k] \in Nat /\ wallet[owner] \in Nat /\ spent <= wallet[owner]
  BY AmountAssumption DEF Deposited, BalancesOK, AccountsOK
<1>2. worth[k] + spent - lost \in Nat /\ wallet[owner] - spent \in Nat BY <1>1
<1>3. wallet' \in [Keys -> Nat] BY <1>2 DEF Deposited, BalancesOK
<1>4. BalancesOK' BY <1>1, <1>3 DEF Deposited, BalancesOK
<1> QED BY <1>1, <1>2, <1>4 DEF Deposited

\* A deposit moves what the vault took from the wallet to the worth of the
\* position, less what the vault kept.
LEMMA BooksDeposited ==
    ASSUME Inv, Inv', NEW k \in PositionIds, NEW owner \in Keys, NEW amount \in Nat,
           NEW spent, NEW lost, Deposited(k, owner, amount, spent, lost),
           NEW q, positions' = [positions EXCEPT ![k] = q],
           EarnedBy(q, worth[k] + spent - lost) <= EarnedBy(positions[k], worth[k])
    PROVE  BooksStep
<1>1. /\ spent \in Nat /\ lost \in Nat /\ worth[k] \in Nat /\ wallet[owner] \in Nat
      /\ position_cash[k] \in Nat /\ vault_kept \in Nat /\ wallet \in [Keys -> Nat]
      /\ worth \in [PositionIds -> Nat]
  BY DepositedStep DEF Inv, AccountsOK, BalancesOK
<1>2. /\ OnlyPosition(k) /\ OnlyWallet(owner) /\ wallet'[owner] = wallet[owner] - spent
      /\ worth'[k] = worth[k] + spent - lost /\ position_cash'[k] = position_cash[k]
  BY <1>1 DEF Deposited, OnlyPosition, OnlyWallet, Inv, AccountsOK
<1>3. Earns(k)
  <2>1. /\ EarnedBy(positions'[k], worth'[k]) \in Int /\ EarnedBy(positions[k], worth[k]) \in Int
        /\ vault_cash \in Nat /\ vault_cash' = vault_cash
    BY EarnedIsInt DEF Inv, AccountsOK, BalancesOK, Deposited
  <2>2. positions'[k] = q /\ worth'[k] = worth[k] + spent - lost
    BY <1>2 DEF Inv, AccountsOK
  <2> QED BY <2>1, <2>2 DEF Earns
<1>4. Purse(k, owner)' = Purse(k, owner)
  <2>1. PICK had \in Nat, w \in Nat, c \in Nat, kept \in Nat, more \in Nat :
           /\ had = wallet[owner] /\ w = worth[k] /\ c = position_cash[k] /\ kept = vault_kept
           /\ more = vault_cash + treasury + market + packs_cash
    <3>1. vault_cash + treasury + market + packs_cash \in Nat
      <4>1. vault_cash + treasury \in Nat /\ market + packs_cash \in Nat BY DEF Inv, BalancesOK
      <4> QED BY <4>1 DEF Inv, BalancesOK
    <3> QED BY <1>1, <3>1
  <2>2. Common = more + kept BY <2>1 DEF Common, Inv, BalancesOK
  <2>3. Common' = more + (kept + lost) BY <1>1, <2>1 DEF Common, Deposited, Inv, BalancesOK
  <2>4. /\ Purse(k, owner) = had + (c + w) + Common
        /\ Purse(k, owner)' = (had - spent) + (c + (w + spent - lost)) + Common'
    BY <1>2, <2>1 DEF Purse
  <2>5. (had - spent) + (c + (w + spent - lost)) + (more + (kept + lost))
           = had + (c + w) + (more + kept)
    BY <1>1, <2>1
  <2> QED BY <2>2, <2>3, <2>4, <2>5
<1> QED BY <1>2, <1>3, <1>4, BooksLocal

LEMMA CreateStep ==
    ASSUME Inv, NEW k \in PositionIds, NEW owner \in Keys, NEW amount \in Deposits,
           NEW t \in TermChoices, NEW spent, NEW lost, Create(k, owner, amount, t, spent, lost)
    PROVE  Inv' /\ BooksStep
<1> DEFINE p == positions[k]
           m == config.active_manifest
           q == NewPosition(owner, t, m, spent)
<1>1. /\ amount \in Nat /\ Deposited(k, owner, amount, spent, lost)
      /\ Admit(owner, amount, ProductsOf(t.kind, t.destination))
      /\ p.status = "None" /\ m # NoManifest
      /\ positions' = [positions EXCEPT ![k] = q]
  BY AmountAssumption DEF Create
<1>2. /\ spent \in Nat /\ BalancesOK' /\ UNCHANGED <<manifests, position_cash>>
      /\ worth' = [worth EXCEPT ![k] = @ + spent - lost] /\ worth[k] + spent - lost \in Nat
  BY <1>1, DepositedStep DEF Inv
<1>3. ConfigInv' BY <1>1, <1>2, AdmitInv DEF Inv
<1>4. position_cash[k] = 0 /\ position_cash \in [PositionIds -> Nat] /\ worth \in [PositionIds -> Nat]
  BY <1>1, PositionFacts DEF Inv, PositionGood, AccountsOK
<1>5. m \in ManifestIds BY <1>1 DEF Inv, ConfigInv, ConfigTypeOK, ConfigRecord
<1>6. /\ t.kind \in Kinds /\ t.destination \in Destinations /\ t.auto_packs \in BOOLEAN
      /\ t.stock_index \in Nat /\ t.target_price \in Nat /\ t.steps \in Nat /\ t.interval \in Nat
      /\ t.ttl \in Nat /\ t.slippage_bps \in Nat
  BY TermAssumption DEF Kinds, Destinations
<1>7. BPS \in Nat \ {0} /\ HarvestCooldown \in Nat /\ YieldShareBps \in Nat
  BY BPSAssumption, TimeAssumption, RateAssumption
<1>8. PositionGood(q, 0, worth[k] + spent - lost)
  <2>1. PICK steps \in Nat, next \in Nat :
           q = [NoPosition EXCEPT
                  !.status = "Active", !.owner = owner, !.manifest = m, !.kind = t.kind,
                  !.destination = t.destination, !.auto_packs = t.auto_packs,
                  !.stock_index = t.stock_index, !.target_price = t.target_price,
                  !.slippage_bps = t.slippage_bps, !.steps = steps, !.interval = t.interval,
                  !.next_fill = next, !.ttl = t.ttl, !.cooldown = HarvestCooldown,
                  !.principal_basis = spent, !.shares = spent]
    BY <1>6 DEF NewPosition
  <2>2. NoPosition \in PositionRecord
    BY <1>7 DEF NoPosition, PositionRecord, Kinds, Destinations
  <2> HIDE DEF q, m
  <2>3. q \in PositionRecord
    <3> DEFINE a == [NoPosition EXCEPT
                       !.status = "Active", !.owner = owner, !.manifest = m]
               b == [a EXCEPT
                       !.kind = t.kind, !.destination = t.destination, !.auto_packs = t.auto_packs]
               c == [b EXCEPT
                       !.stock_index = t.stock_index, !.target_price = t.target_price,
                       !.slippage_bps = t.slippage_bps]
               d == [c EXCEPT !.steps = steps, !.interval = t.interval, !.next_fill = next]
               e == [d EXCEPT
                       !.ttl = t.ttl, !.cooldown = HarvestCooldown,
                       !.principal_basis = spent, !.shares = spent]
    <3>1. q = e BY <2>1, Zenon
    <3>2. a \in PositionRecord BY <1>5, <2>2, Zenon DEF PositionRecord
    <3> HIDE DEF a
    <3>3. b \in PositionRecord BY <1>6, <3>2, Zenon DEF PositionRecord
    <3> HIDE DEF b
    <3>4. t.stock_index \in Nat /\ t.target_price \in Nat /\ t.slippage_bps \in Nat BY <1>6
    <3>5. c \in PositionRecord BY <3>3, <3>4, Zenon DEF PositionRecord
    <3> HIDE DEF c
    <3>6. steps \in Nat /\ t.interval \in Nat /\ next \in Nat BY <1>6, <2>1
    <3>7. d \in PositionRecord BY <3>5, <3>6, Zenon DEF PositionRecord
    <3> HIDE DEF d
    <3>8. t.ttl \in Nat /\ HarvestCooldown \in Nat /\ spent \in Nat BY <1>2, <1>6, <1>7
    <3>9. e \in PositionRecord BY <3>7, <3>8, Zenon DEF PositionRecord
    <3> QED BY <3>1, <3>9, Zenon
  <2>4. /\ q.claimable = 0 /\ q.pending_fees = 0 /\ q.yield_fees = 0 /\ q.gross_yield = 0
        /\ q.fee_carry = 0 /\ q.status = "Active" /\ q.owner = owner
    BY <2>1 DEF NoPosition
  <2>5. 0 * BPS + 0 = 0 * YieldShareBps BY <1>7
  <2> QED BY <1>2, <2>3, <2>4, <2>5 DEF PositionGood
<1>11. EarnedBy(q, worth[k] + spent - lost) <= EarnedBy(p, worth[k])
  <2>1. /\ q.gross_yield = 0 /\ q.principal_basis = spent /\ q.invested_fee_basis = 0
    BY Zenon DEF NewPosition, NoPosition
  <2>2. worth[k] = 0 /\ lost \in Nat /\ p \in PositionRecord
    BY <1>1, PositionFacts, DepositedStep DEF Inv, PositionGood
  <2> HIDE DEF q, p
  <2>3. Invested(q) = spent /\ worth[k] + spent - lost = spent - lost BY <1>2, <2>1, <2>2 DEF Invested
  <2>4. EarnedBy(q, worth[k] + spent - lost) = 0
    BY <1>2, <2>1, <2>2, <2>3 DEF EarnedBy, MostOf
  <2>5. EarnedBy(p, worth[k]) >= 0 BY <2>2 DEF PositionRecord, EarnedBy, MostOf, Invested
  <2> QED BY <2>4, <2>5
<1> HIDE DEF q
<1>9. position_cash' = [position_cash EXCEPT ![k] = 0] BY <1>2, <1>4
<1>10. AccountsOK' BY <1>1, <1>2, <1>8, <1>9, WritePosition DEF Inv
<1>12. Inv' BY <1>2, <1>3, <1>10 DEF Inv
<1> QED BY <1>1, <1>2, <1>11, <1>12, BooksDeposited

LEMMA DepositMoreStep ==
    ASSUME Inv, NEW k \in PositionIds, NEW amount \in Deposits, NEW spent, NEW lost,
           DepositMore(k, amount, spent, lost)
    PROVE  Inv' /\ BooksStep
<1> DEFINE p == positions[k]
           q == [p EXCEPT !.principal_basis = @ + spent, !.shares = @ + spent]
<1>1. /\ amount \in Nat /\ p.status = "Active" /\ Deposited(k, p.owner, amount, spent, lost)
      /\ Admit(p.owner, amount, ProductsOf(p.kind, p.destination))
      /\ positions' = [positions EXCEPT ![k].principal_basis = @ + spent, ![k].shares = @ + spent]
  BY AmountAssumption DEF DepositMore
<1>2. p \in PositionRecord /\ PositionGood(p, position_cash[k], worth[k]) /\ p.owner \in Keys
  BY <1>1, PositionFacts DEF Inv, PositionGood
<1>3. /\ spent \in Nat /\ BalancesOK' /\ UNCHANGED <<manifests, position_cash>>
      /\ worth' = [worth EXCEPT ![k] = @ + spent - lost] /\ worth[k] + spent - lost \in Nat
  BY <1>1, <1>2, DepositedStep DEF Inv
<1>4. ConfigInv' BY <1>1, <1>3, AdmitInv DEF Inv
<1>5. q \in PositionRecord
  <2>1. PICK basis \in Nat, shares \in Nat :
           q = [p EXCEPT !.principal_basis = basis, !.shares = shares]
    <3>1. p.principal_basis + spent \in Nat /\ p.shares + spent \in Nat
      BY <1>2, <1>3 DEF PositionRecord
    <3> QED BY <3>1
  <2> HIDE DEF p, q
  <2> QED BY <1>2, <2>1 DEF PositionRecord
<1>6. PositionGood(q, position_cash[k], worth[k] + spent - lost)
  BY <1>1, <1>2, <1>3, <1>5 DEF PositionGood, PositionRecord
<1>7. positions' = [positions EXCEPT ![k] = q] BY <1>1 DEF Inv, AccountsOK
<1>8. position_cash' = [position_cash EXCEPT ![k] = position_cash[k]]
  BY <1>3 DEF Inv, AccountsOK
<1>10. EarnedBy(q, worth[k] + spent - lost) <= EarnedBy(p, worth[k])
  <2>1. /\ p.principal_basis \in Nat /\ p.invested_fee_basis \in Nat /\ p.gross_yield \in Nat
        /\ worth[k] \in Nat /\ lost \in Nat
    BY <1>1, <1>2, PositionFacts, DepositedStep DEF PositionRecord, Inv
  <2>2. /\ q.gross_yield = p.gross_yield /\ q.principal_basis = p.principal_basis + spent
        /\ q.invested_fee_basis = p.invested_fee_basis
    BY <1>2 DEF PositionRecord
  <2> HIDE DEF p, q
  <2>3. PICK basis \in Nat : basis = Invested(p) /\ Invested(q) = basis + spent
    BY <1>3, <2>1, <2>2 DEF Invested
  <2>4. (worth[k] + spent - lost) - (basis + spent) <= worth[k] - basis BY <1>3, <2>1
  <2>5. /\ (worth[k] + spent - lost) - (basis + spent) \in Int /\ worth[k] - basis \in Int
    BY <1>3, <2>1
  <2> QED BY <2>1, <2>2, <2>3, <2>4, <2>5 DEF EarnedBy, MostOf
<1> HIDE DEF q
<1>9. AccountsOK' BY <1>3, <1>6, <1>7, <1>8, WritePosition DEF Inv
<1>11. Inv' BY <1>3, <1>4, <1>9 DEF Inv
<1> QED BY <1>1, <1>2, <1>7, <1>10, <1>11, BooksDeposited

LEMMA PreferencesStep ==
    ASSUME Inv, NEW k \in PositionIds, NEW destination \in Destinations,
           NEW auto_packs \in BOOLEAN, Preferences(k, destination, auto_packs, 1)
    PROVE  Inv' /\ BooksStep
<1> DEFINE p == positions[k]
           q == [p EXCEPT !.destination = destination, !.auto_packs = auto_packs, !.stock_index = 1]
<1>1. p \in PositionRecord /\ PositionGood(p, position_cash[k], worth[k])
  BY PositionFacts DEF Inv
<1>2. q \in PositionRecord
  <2>1. 1 \in Nat OBVIOUS
  <2> HIDE DEF p
  <2> QED BY <1>1, <2>1 DEF PositionRecord
<1>3. PositionGood(q, position_cash[k], worth[k]) BY <1>1, <1>2 DEF PositionGood, PositionRecord
<1>4. /\ positions' = [positions EXCEPT ![k] = q]
      /\ position_cash' = [position_cash EXCEPT ![k] = position_cash[k]]
      /\ worth' = [worth EXCEPT ![k] = worth[k]]
  BY DEF Preferences, cash, Inv, AccountsOK
<1>6. \A j \in PositionIds : SameEarning(positions[j], positions'[j])
  <2>1. SameEarning(p, q) BY <1>1 DEF SameEarning, PositionRecord
  <2> HIDE DEF q
  <2> QED BY <1>4, <2>1 DEF SameEarning, Inv, AccountsOK
<1>7. UNCHANGED <<worth, cash>> BY DEF Preferences
<1> HIDE DEF q
<1>5. AccountsOK' BY <1>3, <1>4, WritePosition DEF Inv
<1>8. Inv' BY <1>5, ConfigFrame DEF Preferences, cash, Inv, BalancesOK
<1> QED BY <1>6, <1>7, <1>8, BooksStand

\* The position after its shares came back, with another basis, other terms of
\* time, and less of the yield: it is what PutBackStep asks for.
LEMMA WithdrawStep ==
    ASSUME Inv, NEW k \in PositionIds, NEW take \in Nat, Withdraw(k, take)
    PROVE  Inv' /\ BooksStep
<1> DEFINE p == positions[k]
           r == Redeemed(k)
           v == PrincipalValue(k)
           basis == RemainingBasis(p.principal_basis, v, take)
           q == [r EXCEPT !.principal_basis = basis, !.cooldown = HarvestCooldown]
<1>1. /\ p.status = "Active" /\ CanRedeem(k) /\ basis # Err
      /\ PutBack(k, q, v - take, FALSE, take)
      /\ wallet' = [wallet EXCEPT ![p.owner] = @ + take]
      /\ UNCHANGED <<configVars, execution, penalty, vault_cash, market, packs_cash>>
  BY DEF Withdraw, CanWithdraw, Withdrawn
<1>2. /\ p \in PositionRecord /\ p.principal_basis \in Nat /\ p.owner \in Keys
  BY <1>1, PositionFacts DEF Inv, PositionGood, PositionRecord
<1>3. /\ r \in PositionRecord /\ SameTerms(p, r) /\ v \in Nat /\ v <= p.principal_basis
      /\ r.gross_yield = p.gross_yield + Gross(worth[k], Invested(p))
      /\ r.claimable + r.pending_fees + v = position_cash[k] + worth[k]
      /\ r.yield_fees * BPS + r.fee_carry = r.gross_yield * YieldShareBps
  BY <1>1, RedeemedFacts DEF Inv, SameTerms
<1>4. basis \in Nat /\ take <= v /\ v - take <= basis
  BY <1>1, <1>2, <1>3, BasisLeft, BasisCoversValue
<1>5. HarvestCooldown \in Nat BY TimeAssumption
<1> HIDE DEF r, v, basis
<1>6. /\ q \in PositionRecord /\ q.claimable = r.claimable /\ q.pending_fees = r.pending_fees
      /\ q.status = r.status /\ q.owner = r.owner /\ q.yield_fees = r.yield_fees
      /\ q.fee_carry = r.fee_carry /\ q.gross_yield = r.gross_yield /\ q.principal_basis = basis
  BY <1>3, <1>4, <1>5 DEF PositionRecord
<1> HIDE DEF q
<1>7. q.claimable + q.pending_fees + (v - take) + take = position_cash[k] + worth[k]
  <2>1. q.claimable \in Nat /\ q.pending_fees \in Nat BY <1>6 DEF PositionRecord
  <2> QED BY <1>3, <1>4, <1>6, <2>1
<1>8. v - take \in Nat BY <1>3, <1>4
<1>9. /\ AccountsOK' /\ vault_kept' \in Nat /\ treasury' \in Nat
      /\ OnlyPosition(k) /\ Settled(k, take) /\ NoMoreEarned(k)
  BY <1>1, <1>2, <1>3, <1>4, <1>6, <1>7, <1>8, PutBackStep DEF Inv, SameTerms
<1>10. BalancesOK' BY <1>1, <1>2, <1>9 DEF Inv, BalancesOK
<1>11. Inv' BY <1>1, <1>9, <1>10, ConfigFrame DEF Inv
<1>12. Received(p.owner, take) BY <1>1, <1>2, Receives
<1> QED BY <1>1, <1>2, <1>9, <1>11, <1>12, BooksSettled

LEMMA CancelStep ==
    ASSUME Inv, MultiplierOK, NEW k \in PositionIds, Cancel(k)
    PROVE  Inv' /\ LimitStep /\ BooksStep
<1> DEFINE p == positions[k]
           r == Redeemed(k)
           v == PrincipalValue(k)
           total == v + r.claimable
           basis == RemainingBasis(p.principal_basis, v, v)
           q == [r EXCEPT !.principal_basis = basis, !.claimable = 0, !.status = "Cancelled",
                          !.cooldown = HarvestCooldown]
<1>1. /\ p.status = "Active" /\ CanRedeem(k) /\ basis # Err
      /\ PutBack(k, q, 0, FALSE, total)
      /\ wallet' = [wallet EXCEPT ![p.owner] = @ + total]
      /\ UNCHANGED <<configVars, execution, penalty, vault_cash, market, packs_cash>>
  BY DEF Cancel, CanCancel, Cancelled, CancelBasis, CancelPays
<1>2. /\ p \in PositionRecord /\ p.principal_basis \in Nat /\ p.owner \in Keys
  BY <1>1, PositionFacts DEF Inv, PositionGood, PositionRecord
<1>3. /\ r \in PositionRecord /\ SameTerms(p, r) /\ v \in Nat
      /\ r.gross_yield = p.gross_yield + Gross(worth[k], Invested(p))
      /\ r.claimable + r.pending_fees + v = position_cash[k] + worth[k]
      /\ r.yield_fees * BPS + r.fee_carry = r.gross_yield * YieldShareBps
  BY <1>1, RedeemedFacts DEF Inv
<1>4. basis \in Nat BY <1>1, <1>2, <1>3, BasisLeft
<1>5. HarvestCooldown \in Nat BY TimeAssumption
<1> HIDE DEF r, v, basis
<1>6. /\ q \in PositionRecord /\ q.claimable = 0 /\ q.pending_fees = r.pending_fees
      /\ q.status = "Cancelled" /\ q.owner = r.owner /\ q.yield_fees = r.yield_fees
      /\ q.fee_carry = r.fee_carry /\ q.gross_yield = r.gross_yield
      /\ q.stock_spent = r.stock_spent /\ q.stock_units = r.stock_units
      /\ q.principal_basis = basis
  BY <1>3, <1>4, <1>5 DEF PositionRecord
<1> HIDE DEF q
<1>7. r.claimable \in Nat /\ r.pending_fees \in Nat BY <1>3 DEF PositionRecord
<1>8. total \in Nat /\ q.claimable + q.pending_fees + 0 + total = position_cash[k] + worth[k]
  BY <1>3, <1>6, <1>7
<1> HIDE DEF total
<1>9. /\ AccountsOK' /\ vault_kept' \in Nat /\ treasury' \in Nat /\ LimitStep
      /\ OnlyPosition(k) /\ Settled(k, total) /\ NoMoreEarned(k)
  <2>1. 0 \in Nat /\ FALSE \in BOOLEAN OBVIOUS
  <2>2. q.status # "None" /\ q.owner \in Keys BY <1>2, <1>3, <1>6 DEF SameTerms
  <2>3. q.yield_fees * BPS + q.fee_carry = q.gross_yield * YieldShareBps BY <1>3, <1>6
  <2>4. AccountsOK /\ BalancesOK BY DEF Inv
  <2>5. Covered(p, q) BY <1>2, <1>3, <1>6, SameStock DEF SameTerms
  <2>6. /\ q.gross_yield = p.gross_yield + Gross(worth[k], Invested(p))
        /\ 0 <= q.principal_basis
    BY <1>3, <1>4, <1>6
  <2> QED BY <1>1, <1>6, <1>8, <2>1, <2>2, <2>3, <2>4, <2>5, <2>6, PutBackStep
<1>10. BalancesOK' BY <1>1, <1>2, <1>8, <1>9 DEF Inv, BalancesOK
<1>11. Inv' BY <1>1, <1>9, <1>10, ConfigFrame DEF Inv
<1>12. Received(p.owner, total) BY <1>1, <1>2, <1>8, Receives
<1>13. BooksStep BY <1>1, <1>2, <1>8, <1>9, <1>11, <1>12, BooksSettled
<1> QED BY <1>9, <1>11, <1>13

\* Money leaves a position's account and its claimable yield together.
LEMMA PaidStep ==
    ASSUME AccountsOK, NEW k \in PositionIds, NEW amount \in Nat, NEW q \in PositionRecord,
           amount <= positions[k].claimable,
           q.claimable = positions[k].claimable - amount,
           /\ q.pending_fees = positions[k].pending_fees /\ q.shares = positions[k].shares
           /\ q.status = positions[k].status /\ q.owner = positions[k].owner
           /\ q.kind = positions[k].kind
           /\ q.yield_fees = positions[k].yield_fees /\ q.fee_carry = positions[k].fee_carry
           /\ q.gross_yield = positions[k].gross_yield,
           positions' = [positions EXCEPT ![k] = q],
           position_cash' = [position_cash EXCEPT ![k] = @ - amount],
           UNCHANGED worth
    PROVE  AccountsOK'
<1>1. /\ PositionGood(positions[k], position_cash[k], worth[k])
      /\ positions[k] \in PositionRecord /\ positions[k].claimable \in Nat
  BY PositionFacts DEF PositionRecord
<1> DEFINE c == position_cash[k] - amount
<1>2. PositionGood(q, c, worth[k])
  BY <1>1 DEF PositionGood, PositionRecord
<1>3. position_cash' = [position_cash EXCEPT ![k] = c]
  BY DEF AccountsOK
<1> HIDE DEF c
<1>4. worth' = [worth EXCEPT ![k] = worth[k]] BY DEF AccountsOK
<1> QED BY <1>2, <1>3, <1>4, WritePosition

LEMMA ClaimStep ==
    ASSUME Inv, NEW k \in PositionIds, NEW amount \in Nat, Claim(k, amount)
    PROVE  Inv' /\ BooksStep
<1> DEFINE p == positions[k]
           q == [p EXCEPT !.claimable = p.claimable - amount]
<1>1. /\ p \in PositionRecord /\ p.claimable \in Nat /\ amount \in 1..p.claimable
      /\ amount <= p.claimable /\ PositionGood(p, position_cash[k], worth[k])
  BY PositionFacts DEF Inv, Claim, CanClaim, PositionRecord
<1>2. p.owner \in Keys BY <1>1 DEF PositionGood
<1>3. PICK rest \in Nat : rest = p.claimable - amount BY <1>1
<1>4. /\ q \in PositionRecord /\ q.claimable = rest
      /\ q.pending_fees = p.pending_fees /\ q.shares = p.shares
      /\ q.status = p.status /\ q.owner = p.owner /\ q.kind = p.kind
      /\ q.yield_fees = p.yield_fees /\ q.fee_carry = p.fee_carry
      /\ q.gross_yield = p.gross_yield /\ SameEarning(p, q)
  <2> HIDE DEF p
  <2> QED BY <1>1, <1>3 DEF PositionRecord, SameEarning
<1>5. positions' = [positions EXCEPT ![k] = q] BY DEF Claim, Inv, AccountsOK
<1>6. BalancesOK' BY <1>1, <1>2 DEF Inv, BalancesOK, Claim
<1>7. /\ AccountsOK /\ position_cash' = [position_cash EXCEPT ![k] = @ - amount]
      /\ UNCHANGED worth /\ UNCHANGED <<configVars, execution>>
  BY DEF Inv, Claim
<1>8. q.claimable = p.claimable - amount BY <1>3, <1>4
<1> HIDE DEF q
<1>9. AccountsOK' BY <1>1, <1>4, <1>5, <1>7, <1>8, PaidStep
<1>10. Inv' BY <1>6, <1>7, <1>9, ConfigFrame DEF Inv
<1>11. /\ wallet' = [wallet EXCEPT ![p.owner] = @ + amount]
       /\ UNCHANGED <<worth, vault_cash, vault_kept, treasury, market, packs_cash>>
  BY DEF Claim
<1> QED BY <1>2, <1>4, <1>5, <1>7, <1>10, <1>11, BooksPaid

-----------------------------------------------------------------------------
(* Anybody, and solvers                                                     *)

LEMMA HarvestStep ==
    ASSUME Inv, MultiplierOK, NEW k \in PositionIds, Harvest(k)
    PROVE  Inv' /\ LimitStep /\ BooksStep
<1> DEFINE p == positions[k]
           r == Redeemed(k)
           v == PrincipalValue(k)
           q == [r EXCEPT !.cooldown = HarvestCooldown]
<1>1. /\ p.status = "Active" /\ CanRedeem(k) /\ v = p.principal_basis
      /\ PutBack(k, q, p.principal_basis, TRUE, 0)
      /\ UNCHANGED <<configVars, execution, penalty, vault_cash, wallet, market, packs_cash>>
  BY DEF Harvest
<1>2. /\ p \in PositionRecord /\ p.owner \in Keys
  BY <1>1, PositionFacts DEF Inv, PositionGood
<1>3. /\ r \in PositionRecord /\ SameTerms(p, r) /\ v \in Nat
      /\ v <= r.principal_basis
      /\ r.gross_yield = p.gross_yield + Gross(worth[k], Invested(p))
      /\ r.claimable + r.pending_fees + v = position_cash[k] + worth[k]
      /\ r.yield_fees * BPS + r.fee_carry = r.gross_yield * YieldShareBps
  BY <1>1, RedeemedFacts DEF Inv
<1>4. HarvestCooldown \in Nat BY TimeAssumption
<1> HIDE DEF r, v
<1>5. /\ q \in PositionRecord /\ q.claimable = r.claimable /\ q.pending_fees = r.pending_fees
      /\ q.status = r.status /\ q.owner = r.owner /\ q.yield_fees = r.yield_fees
      /\ q.fee_carry = r.fee_carry /\ q.gross_yield = r.gross_yield
      /\ q.stock_spent = r.stock_spent /\ q.stock_units = r.stock_units
      /\ q.principal_basis = r.principal_basis
  BY <1>3, <1>4 DEF PositionRecord
<1> HIDE DEF q
<1>6. q.claimable \in Nat /\ q.pending_fees \in Nat BY <1>5 DEF PositionRecord
<1>7. /\ AccountsOK' /\ vault_kept' \in Nat /\ treasury' \in Nat /\ LimitStep
      /\ OnlyPosition(k) /\ Settled(k, 0) /\ NoMoreEarned(k)
  <2>1. 0 \in Nat /\ TRUE \in BOOLEAN OBVIOUS
  <2>2. PutBack(k, q, v, TRUE, 0) BY <1>1
  <2>3. /\ q.status # "None" /\ q.owner \in Keys /\ q.status \notin {"Filled", "Cancelled"}
        /\ q.yield_fees * BPS + q.fee_carry = q.gross_yield * YieldShareBps
    BY <1>1, <1>2, <1>3, <1>5 DEF SameTerms
  <2>4. q.claimable + q.pending_fees + v + 0 = position_cash[k] + worth[k]
    BY <1>3, <1>5, <1>6
  <2>5. Covered(p, q) BY <1>2, <1>3, <1>5, SameStock DEF SameTerms
  <2>6. /\ q.gross_yield = p.gross_yield + Gross(worth[k], Invested(p))
        /\ v <= q.principal_basis
    BY <1>3, <1>5
  <2> QED BY <1>3, <1>5, <2>6, <2>1, <2>2, <2>3, <2>4, <2>5, PutBackStep DEF Inv
<1>8. BalancesOK' BY <1>1, <1>7 DEF Inv, BalancesOK
<1>9. Inv' BY <1>1, <1>7, <1>8, ConfigFrame DEF Inv
<1>10. Received(p.owner, 0) /\ 0 \in Nat BY <1>1, <1>2, Receives
<1>11. BooksStep BY <1>1, <1>2, <1>7, <1>9, <1>10, BooksSettled
<1> QED BY <1>7, <1>9, <1>11

\* The price of the packs and what is left of the yield make up the yield.
LEMMA AutoPacksStep ==
    ASSUME Inv, NEW k \in PositionIds, AutoPacks(k)
    PROVE  Inv' /\ BooksStep
<1> DEFINE p == positions[k]
           count == p.claimable \div PackPrice
           total == count * PackPrice
           rest == p.claimable % PackPrice
           q == [p EXCEPT !.claimable = rest, !.allocated_yield = p.allocated_yield + total,
                          !.cooldown = HarvestCooldown]
<1>1. /\ positions' = [positions EXCEPT ![k].claimable = rest, ![k].allocated_yield = @ + total,
                                        ![k].cooldown = HarvestCooldown]
      /\ position_cash' = [position_cash EXCEPT ![k] = @ - total]
      /\ packs_cash' = packs_cash + total
      /\ UNCHANGED <<configVars, execution, worth, penalty, vault_cash, vault_kept, wallet,
                     treasury, market>>
  BY DEF AutoPacks, PackAllocation
<1>2. p \in PositionRecord /\ p.claimable \in Nat /\ p.allocated_yield \in Nat
  BY PositionFacts DEF Inv, PositionRecord
<1>3. PackPrice \in Nat \ {0} /\ HarvestCooldown \in Nat BY AmountAssumption, TimeAssumption
<1>4. /\ count \in Nat /\ rest \in 0..(PackPrice - 1) /\ p.claimable = count * PackPrice + rest
  BY <1>2, <1>3, Quotients
<1> HIDE DEF count, rest
<1>5. total \in Nat /\ rest \in Nat /\ p.claimable = total + rest BY <1>3, <1>4
<1>6. positions' = [positions EXCEPT ![k] = q] BY <1>1 DEF Inv, AccountsOK
<1> HIDE DEF total
<1>7. /\ q \in PositionRecord /\ q.claimable = rest
      /\ q.pending_fees = p.pending_fees /\ q.shares = p.shares
      /\ q.status = p.status /\ q.owner = p.owner /\ q.kind = p.kind
      /\ q.yield_fees = p.yield_fees /\ q.fee_carry = p.fee_carry
      /\ q.gross_yield = p.gross_yield /\ SameEarning(p, q)
  <2>1. PICK allocated \in Nat :
           q = [p EXCEPT !.claimable = rest, !.allocated_yield = allocated,
                         !.cooldown = HarvestCooldown]
    <3>1. p.allocated_yield + total \in Nat BY <1>2, <1>5
    <3> QED BY <3>1
  <2> HIDE DEF p, q
  <2> QED BY <1>2, <1>3, <1>5, <2>1 DEF PositionRecord, SameEarning
<1> HIDE DEF q
<1>8. total <= p.claimable /\ q.claimable = p.claimable - total BY <1>5, <1>7
<1>9. AccountsOK' BY <1>1, <1>5, <1>6, <1>7, <1>8, PaidStep DEF Inv
<1>10. BalancesOK' BY <1>1, <1>5 DEF Inv, BalancesOK
<1>11. Inv' BY <1>1, <1>9, <1>10, ConfigFrame DEF Inv
<1>12. p.owner \in Keys BY PositionFacts DEF AutoPacks, Inv, PositionGood
<1> QED BY <1>1, <1>5, <1>6, <1>7, <1>11, <1>12, BooksPaid

LEMMA SpendYieldStep ==
    ASSUME Inv, NEW k \in PositionIds, NEW amount \in Nat, NEW received \in Nat,
           SpendYield(k, amount, received)
    PROVE  Inv' /\ BooksStep
<1> DEFINE p == positions[k]
<1>1. /\ p \in PositionRecord /\ p.claimable \in Nat /\ amount <= p.claimable
      /\ p.allocated_yield \in Nat /\ p.stock_spent \in Nat /\ p.stock_units \in Nat
  BY PositionFacts DEF Inv, SpendYield, PositionRecord
<1>2. PICK rest \in Nat, allocated \in Nat, spent \in Nat, units \in Nat :
         /\ rest = p.claimable - amount
         /\ positions' = [positions EXCEPT ![k] =
                [p EXCEPT !.claimable = rest, !.allocated_yield = allocated,
                          !.stock_spent = spent, !.stock_units = units]]
  <2>1. /\ p.claimable - amount \in Nat /\ p.allocated_yield + amount \in Nat
        /\ p.stock_spent + amount \in Nat /\ p.stock_units + received \in Nat
    BY <1>1
  <2>2. positions' = [positions EXCEPT ![k] =
              [p EXCEPT !.claimable = p.claimable - amount,
                        !.allocated_yield = p.allocated_yield + amount,
                        !.stock_spent = p.stock_spent + amount,
                        !.stock_units = p.stock_units + received]]
    BY DEF SpendYield, Inv, AccountsOK
  <2> QED BY <2>1, <2>2
<1> DEFINE q == [p EXCEPT !.claimable = rest, !.allocated_yield = allocated,
                          !.stock_spent = spent, !.stock_units = units]
<1>3. /\ q \in PositionRecord /\ q.claimable = rest
      /\ q.pending_fees = p.pending_fees /\ q.shares = p.shares
      /\ q.status = p.status /\ q.owner = p.owner /\ q.kind = p.kind
      /\ q.yield_fees = p.yield_fees /\ q.fee_carry = p.fee_carry
      /\ q.gross_yield = p.gross_yield /\ SameEarning(p, q)
  <2> HIDE DEF p
  <2> QED BY <1>1 DEF PositionRecord, SameEarning
<1>4. positions' = [positions EXCEPT ![k] = q] BY <1>2
<1> HIDE DEF q
<1>5. AccountsOK' BY <1>1, <1>2, <1>3, <1>4, PaidStep DEF Inv, SpendYield
<1>6. BalancesOK' BY DEF Inv, BalancesOK, SpendYield
<1>7. Inv' BY <1>5, <1>6, ConfigFrame DEF Inv, SpendYield
<1>8. p.owner \in Keys
  <2>1. p.claimable # 0 BY <1>1 DEF SpendYield
  <2> QED BY <2>1, PositionFacts DEF Inv, PositionGood
<1>9. /\ position_cash' = [position_cash EXCEPT ![k] = @ - amount] /\ market' = market + amount
      /\ UNCHANGED <<worth, vault_cash, vault_kept, treasury, wallet, packs_cash>>
  BY DEF SpendYield
<1> QED BY <1>3, <1>4, <1>7, <1>8, <1>9, BooksPaid

LEMMA SettleYieldStep ==
    ASSUME Inv, MultiplierOK, NEW k \in PositionIds, NEW amount \in Nat, NEW price \in Prices,
           SettleYield(k, amount, price)
    PROVE  Inv' /\ BooksStep
<1> DEFINE minimum ==
             OracleMinimum(amount, price, Unit, positions[k].slippage_bps, MaxSlippage, NoLimit,
                           multiplier)
<1>1. price \in Nat /\ positions[k].slippage_bps \in Nat
  BY AmountAssumption, PositionFacts DEF Inv, PositionRecord
<1>2. minimum # Err /\ SpendYield(k, amount, minimum) BY DEF SettleYield
<1>3. minimum \in Nat BY <1>1, <1>2, MinimumCovers
<1> QED BY <1>2, <1>3, SpendYieldStep

\* One step of an order takes its part of principal and yield, splits it into
\* the fee and what is available, and the last step takes all there is.
LEMMA FilledFacts ==
    ASSUME Inv, NEW k \in PositionIds, Due(k), NEW spent \in Nat, NEW received \in Nat,
           Instalment(k).fee # Err, BasisAfter(k, Instalment(k)) # Err
    PROVE  LET part == Instalment(k)
               v    == PrincipalValue(k)
               q    == Filled(k, part, spent, received)
           IN  /\ v - part.principal \in Nat /\ part.available \in Nat
               /\ q \in PositionRecord /\ q.owner \in Keys /\ q.status # "None"
               /\ q.claimable + q.pending_fees + (v - part.principal) + part.available
                     = position_cash[k] + worth[k]
               /\ q.yield_fees * BPS + q.fee_carry = q.gross_yield * YieldShareBps
               /\ q.status \in {"Filled", "Cancelled"} =>
                     v - part.principal = 0 /\ q.claimable = 0
               /\ q.stock_spent = positions[k].stock_spent + spent
               /\ q.stock_units = positions[k].stock_units + received
               /\ part.fee \in Nat
               /\ q.gross_yield = Redeemed(k).gross_yield
               /\ q.principal_basis \in Nat /\ v - part.principal <= q.principal_basis
<1> DEFINE p == positions[k]
           r == Redeemed(k)
           v == PrincipalValue(k)
           part == Instalment(k)
           q == Filled(k, part, spent, received)
<1>1. p \in PositionRecord /\ p.owner \in Keys /\ p.steps \in Nat \ {0} /\ CanRedeem(k)
  <2>1. p.status = "Active" /\ p.steps > 0 /\ CanRedeem(k) BY DEF Due
  <2>2. p \in PositionRecord /\ (p.status # "None" => p.owner \in Keys)
    BY PositionFacts DEF Inv, PositionGood
  <2>3. p.steps \in Nat BY <2>2 DEF PositionRecord
  <2> QED BY <2>1, <2>2, <2>3
<1>2. /\ r \in PositionRecord /\ SameTerms(p, r) /\ v \in Nat /\ v <= r.principal_basis
      /\ r.claimable + r.pending_fees + v = position_cash[k] + worth[k]
      /\ r.yield_fees * BPS + r.fee_carry = r.gross_yield * YieldShareBps
  BY <1>1, RedeemedFacts DEF Inv
<1>3. /\ r.steps = p.steps /\ r.steps \in Nat \ {0} /\ r.claimable \in Nat /\ r.pending_fees \in Nat
      /\ r.principal_basis \in Nat /\ r.interval \in Nat /\ r.stock_units \in Nat
      /\ r.stock_spent \in Nat
  BY <1>1, <1>2 DEF SameTerms, PositionRecord
<1>4. /\ part.principal = v \div r.steps /\ part.yield = r.claimable \div r.steps
      /\ part.fee = FeeOf(part.principal + part.yield, TradeFeeBps)
      /\ part.available = part.principal + part.yield - part.fee
  BY DEF Instalment
<1>5. q = [r EXCEPT !.pending_fees = r.pending_fees + part.fee,
                    !.claimable = r.claimable - part.yield,
                    !.principal_basis = BasisAfter(k, part),
                    !.steps = r.steps - 1, !.next_fill = r.interval, !.cooldown = HarvestCooldown,
                    !.stock_units = r.stock_units + received, !.stock_spent = r.stock_spent + spent,
                    !.status = IF r.steps = 1 THEN "Filled" ELSE "Active"]
  BY DEF Filled
<1> HIDE DEF r, v, part, q
<1>6. /\ part.principal \in Nat /\ part.principal <= v
      /\ part.yield \in Nat /\ part.yield <= r.claimable
  <2>1. v \div r.steps \in Nat /\ v \div r.steps <= v BY <1>2, <1>3, Quotients
  <2>2. r.claimable \div r.steps \in Nat /\ r.claimable \div r.steps <= r.claimable
    BY <1>3, Quotients
  <2> QED BY <1>4, <2>1, <2>2
<1>7. part.fee \in Nat /\ part.fee <= part.principal + part.yield
  <2>1. part.principal + part.yield \in Nat BY <1>6
  <2>2. FeeOf(part.principal + part.yield, TradeFeeBps) # Err BY <1>4 DEF part
  <2> QED BY <1>4, <2>1, <2>2, FeeBounded
<1>8. part.available \in Nat /\ v - part.principal \in Nat BY <1>2, <1>4, <1>6, <1>7
<1>9. BasisAfter(k, part) \in Nat /\ v - part.principal <= BasisAfter(k, part)
  <2>1. BasisAfter(k, part) = RemainingBasis(p.principal_basis, v, part.principal)
    BY DEF BasisAfter, v
  <2>2. p.principal_basis \in Nat BY <1>1 DEF PositionRecord
  <2>3. BasisAfter(k, part) # Err BY DEF part
  <2>4. v <= p.principal_basis BY <1>2 DEF SameTerms
  <2> QED BY <1>2, <1>6, <2>1, <2>2, <2>3, <2>4, BasisLeft, BasisCoversValue
<1>10. r.steps = 1 => part.principal = v /\ part.yield = r.claimable
  BY <1>2, <1>3, <1>4
<1>11. PICK fees \in Nat, claimable \in Nat, basis \in Nat, steps \in Nat, units \in Nat,
            paid \in Nat, status \in {"Filled", "Active"} :
         /\ fees = r.pending_fees + part.fee /\ claimable = r.claimable - part.yield
         /\ status = "Filled" => r.steps = 1
         /\ v - part.principal <= basis
         /\ units = r.stock_units + received /\ paid = r.stock_spent + spent
         /\ q = [r EXCEPT !.pending_fees = fees, !.claimable = claimable,
                          !.principal_basis = basis, !.steps = steps, !.next_fill = r.interval,
                          !.cooldown = HarvestCooldown, !.stock_units = units,
                          !.stock_spent = paid, !.status = status]
  <2>1. /\ r.pending_fees + part.fee \in Nat /\ r.claimable - part.yield \in Nat
        /\ r.steps - 1 \in Nat /\ r.stock_units + received \in Nat
        /\ r.stock_spent + spent \in Nat
    BY <1>3, <1>6, <1>7
  <2>2. CASE r.steps = 1 BY <1>5, <1>9, <2>1, <2>2
  <2>3. CASE r.steps # 1 BY <1>5, <1>9, <2>1, <2>3
  <2> QED BY <2>2, <2>3
<1>12. HarvestCooldown \in Nat BY TimeAssumption
<1>13. /\ q \in PositionRecord /\ q.claimable = claimable /\ q.pending_fees = fees
       /\ q.status = status /\ q.owner = r.owner /\ q.yield_fees = r.yield_fees
       /\ q.fee_carry = r.fee_carry /\ q.gross_yield = r.gross_yield
       /\ q.stock_spent = paid /\ q.stock_units = units /\ q.principal_basis = basis
  <2>1. r \in PositionRecord /\ r.interval \in Nat BY <1>2, <1>3
  <2> DEFINE a == [r EXCEPT !.pending_fees = fees, !.claimable = claimable,
                            !.principal_basis = basis]
             b == [a EXCEPT !.steps = steps, !.next_fill = r.interval,
                            !.cooldown = HarvestCooldown]
  <2>2. /\ a \in PositionRecord /\ a.claimable = claimable /\ a.pending_fees = fees
        /\ a.principal_basis = basis
        /\ a.owner = r.owner /\ a.yield_fees = r.yield_fees
        /\ a.fee_carry = r.fee_carry /\ a.gross_yield = r.gross_yield
    <3> HIDE DEF r
    <3>1. fees \in Nat /\ claimable \in Nat /\ basis \in Nat BY <1>11
    <3>2. a \in PositionRecord BY <2>1, <3>1, Zenon DEF PositionRecord
    <3>3. /\ a.claimable = claimable /\ a.pending_fees = fees
          /\ a.principal_basis = basis
          /\ a.owner = r.owner /\ a.yield_fees = r.yield_fees
          /\ a.fee_carry = r.fee_carry /\ a.gross_yield = r.gross_yield
      BY <2>1, Zenon DEF PositionRecord
    <3> QED BY <3>2, <3>3, Zenon
  <2>3. q = [b EXCEPT !.stock_units = units, !.stock_spent = paid, !.status = status]
    BY <1>11, Zenon
  <2> HIDE DEF a
  <2>4. /\ b \in PositionRecord /\ b.claimable = claimable /\ b.pending_fees = fees
        /\ b.principal_basis = basis
        /\ b.owner = r.owner /\ b.yield_fees = r.yield_fees
        /\ b.fee_carry = r.fee_carry /\ b.gross_yield = r.gross_yield
    <3>1. steps \in Nat /\ HarvestCooldown \in Nat BY <1>11, <1>12
    <3>2. b \in PositionRecord BY <2>1, <2>2, <3>1, Zenon DEF PositionRecord
    <3>3. /\ b.claimable = a.claimable /\ b.pending_fees = a.pending_fees
          /\ b.principal_basis = a.principal_basis
          /\ b.owner = a.owner /\ b.yield_fees = a.yield_fees
          /\ b.fee_carry = a.fee_carry /\ b.gross_yield = a.gross_yield
      BY <2>2, Zenon DEF PositionRecord
    <3> QED BY <2>2, <3>2, <3>3, Zenon
  <2> HIDE DEF b
  <2>5. units \in Nat /\ paid \in Nat /\ status \in {"Filled", "Active"} BY <1>11
  <2>6. q \in PositionRecord BY <2>3, <2>4, <2>5, Zenon DEF PositionRecord
  <2>7. /\ q.claimable = b.claimable /\ q.pending_fees = b.pending_fees
        /\ q.principal_basis = b.principal_basis
        /\ q.owner = b.owner /\ q.yield_fees = b.yield_fees
        /\ q.fee_carry = b.fee_carry /\ q.gross_yield = b.gross_yield
    BY <2>3, <2>4, Zenon DEF PositionRecord
  <2>8. q.status = status /\ q.stock_spent = paid /\ q.stock_units = units
    BY <2>3, <2>4, Zenon DEF PositionRecord
  <2> QED BY <2>4, <2>6, <2>7, <2>8, Zenon
<1>14. q.claimable + q.pending_fees + (v - part.principal) + part.available
          = position_cash[k] + worth[k]
  <2>1. PICK cost \in Nat, held \in Nat, taken \in Nat :
           cost = part.fee /\ held = part.principal /\ taken = part.yield
    BY <1>6, <1>7
  <2>2. q.claimable = r.claimable - taken /\ q.pending_fees = r.pending_fees + cost
    BY <1>11, <1>13, <2>1
  <2>3. part.available = held + taken - cost BY <1>4, <2>1
  <2>4. r.claimable + r.pending_fees + v = position_cash[k] + worth[k] BY <1>2
  <2>5. PICK c \in Nat, f \in Nat, w \in Nat :
           c = r.claimable /\ f = r.pending_fees /\ w = v
    BY <1>2, <1>3
  <2>6. q.claimable + q.pending_fees + (v - part.principal) + part.available
           = (c - taken) + (f + cost) + (w - held) + (held + taken - cost)
    BY <2>1, <2>2, <2>3, <2>5
  <2>7. (c - taken) + (f + cost) + (w - held) + (held + taken - cost) = c + f + w
    BY <2>1, <2>5
  <2> QED BY <2>4, <2>5, <2>6, <2>7
<1>15. q.status \in {"Filled", "Cancelled"} => v - part.principal = 0 /\ q.claimable = 0
  BY <1>2, <1>3, <1>10, <1>11, <1>13
<1>16. q.owner \in Keys /\ q.status # "None" BY <1>1, <1>2, <1>13 DEF SameTerms
<1>17. /\ q.yield_fees * BPS + q.fee_carry = q.gross_yield * YieldShareBps
       /\ q.gross_yield = r.gross_yield
       /\ q.principal_basis \in Nat /\ v - part.principal <= q.principal_basis
  BY <1>2, <1>11, <1>13
<1>18. q.stock_spent = p.stock_spent + spent /\ q.stock_units = p.stock_units + received
  BY <1>2, <1>11, <1>13 DEF SameTerms
<1> QED BY <1>7, <1>8, <1>13, <1>14, <1>15, <1>16, <1>17, <1>18 DEF q, v, part, r

LEMMA FillStep ==
    ASSUME Inv, MultiplierOK, NEW k \in PositionIds, NEW price \in Prices, Fill(k, price)
    PROVE  Inv' /\ LimitStep /\ BooksStep
<1> DEFINE p == positions[k]
           part == Instalment(k)
           limit == IF p.kind = "Limit" THEN p.target_price ELSE NoLimit
           minimum ==
             OracleMinimum(part.available, price, Unit, p.slippage_bps, MaxSlippage, limit,
                           multiplier)
           q == Filled(k, part, part.available, minimum)
           left == PrincipalValue(k) - part.principal
<1>1. /\ Due(k) /\ part.fee # Err /\ BasisAfter(k, part) # Err /\ minimum # Err
      /\ PutBack(k, q, left, TRUE, part.available)
      /\ market' = market + part.available
      /\ UNCHANGED <<configVars, execution, penalty, vault_cash, wallet, packs_cash>>
  BY DEF Fill
<1>2. price \in Nat /\ p.slippage_bps \in Nat /\ limit \in Nat \cup {NoLimit}
  BY AmountAssumption, PositionFacts DEF Inv, PositionRecord
<1>3. part.available \in Nat BY <1>1, FilledFacts
<1>4. /\ minimum \in Nat
      /\ limit # NoLimit => part.available * Unit * Scale
                               <= minimum * (Exact(limit, multiplier) + Scale - 1)
  <2> HIDE DEF p, part, limit
  <2> QED BY <1>1, <1>2, <1>3, MinimumCovers
<1>5. p.kind = "Limit" => part.available * Unit * Scale
                             <= minimum * (Exact(p.target_price, multiplier) + Scale - 1)
  <2> SUFFICES ASSUME p.kind = "Limit"
               PROVE  part.available * Unit * Scale
                         <= minimum * (Exact(p.target_price, multiplier) + Scale - 1)
    OBVIOUS
  <2>1. limit = p.target_price /\ limit \in Nat
    BY PositionFacts DEF Inv, PositionRecord
  <2>2. limit # NoLimit BY <2>1 DEF NoLimit
  <2> HIDE DEF p, part, limit, minimum
  <2> QED BY <1>4, <2>1, <2>2
<1> HIDE DEF minimum
<1>6. /\ left \in Nat /\ q \in PositionRecord /\ q.owner \in Keys /\ q.status # "None"
      /\ q.claimable + q.pending_fees + left + part.available = position_cash[k] + worth[k]
      /\ q.yield_fees * BPS + q.fee_carry = q.gross_yield * YieldShareBps
      /\ q.status \in {"Filled", "Cancelled"} => left = 0 /\ q.claimable = 0
      /\ q.stock_spent = p.stock_spent + part.available /\ q.stock_units = p.stock_units + minimum
      /\ q.gross_yield = Redeemed(k).gross_yield /\ left <= q.principal_basis
  BY <1>1, <1>3, <1>4, FilledFacts
<1> HIDE DEF q, left, part
<1>9. q.gross_yield = p.gross_yield + Gross(worth[k], Invested(p))
  BY <1>1, <1>6, RedeemedFacts DEF Due, Inv
<1>7. /\ AccountsOK' /\ vault_kept' \in Nat /\ treasury' \in Nat /\ LimitStep
      /\ OnlyPosition(k) /\ Settled(k, part.available) /\ NoMoreEarned(k)
  <2>1. TRUE \in BOOLEAN OBVIOUS
  <2>2. p.stock_spent \in Nat /\ p.stock_units \in Nat
    BY PositionFacts DEF Inv, PositionRecord
  <2>3. Covered(p, q)
    <3>1. q.stock_spent - p.stock_spent = part.available /\ q.stock_units - p.stock_units = minimum
      BY <1>3, <1>4, <1>6, <2>2
    <3> QED BY <1>5, <3>1 DEF Covered
  <2> QED BY <1>1, <1>3, <1>6, <1>9, <2>1, <2>3, PutBackStep DEF Inv
<1>8. BalancesOK' BY <1>1, <1>3, <1>7 DEF Inv, BalancesOK
<1>10. Inv' BY <1>1, <1>7, <1>8, ConfigFrame DEF Inv
<1>11. p.owner \in Keys BY <1>1, PositionFacts DEF Inv, PositionGood, Due
<1>12. Received(p.owner, part.available) BY <1>1, <1>3, <1>11, Receives
<1>13. BooksStep BY <1>1, <1>3, <1>7, <1>10, <1>11, <1>12, BooksSettled
<1> QED BY <1>7, <1>10, <1>13

LEMMA SwapOrderStep ==
    ASSUME Inv, MultiplierOK, NEW k \in PositionIds, NEW input \in Nat, NEW age, NEW quoted,
           NEW received \in Nat, SwapOrder(k, input, age, quoted, received)
    PROVE  Inv' /\ LimitStep /\ BooksStep
<1> DEFINE p == positions[k]
           part == Instalment(k)
           refund == part.available - input
           q == Filled(k, part, input, received)
           left == PrincipalValue(k) - part.principal
<1>1. /\ Due(k) /\ part.fee # Err /\ BasisAfter(k, part) # Err /\ input <= part.available
      /\ WithinLimit(k, input + part.fee, received)
      /\ PutBack(k, q, left, TRUE, input + refund)
      /\ market' = market + input
      /\ wallet' = [wallet EXCEPT ![p.owner] = @ + refund]
      /\ UNCHANGED <<configVars, execution, penalty, vault_cash, packs_cash>>
  BY DEF SwapOrder
<1>2. /\ part.available \in Nat
      /\ left \in Nat /\ q \in PositionRecord /\ q.owner \in Keys /\ q.status # "None"
      /\ q.claimable + q.pending_fees + left + part.available = position_cash[k] + worth[k]
      /\ q.yield_fees * BPS + q.fee_carry = q.gross_yield * YieldShareBps
      /\ q.status \in {"Filled", "Cancelled"} => left = 0 /\ q.claimable = 0
      /\ q.stock_spent = p.stock_spent + input /\ q.stock_units = p.stock_units + received
      /\ part.fee \in Nat
      /\ q.gross_yield = Redeemed(k).gross_yield /\ left <= q.principal_basis
  BY <1>1, FilledFacts
<1>3. p.owner \in Keys BY <1>1, PositionFacts DEF Inv, PositionGood, Due
<1> HIDE DEF q, left, part
<1>4. refund \in Nat /\ input + refund = part.available BY <1>1, <1>2
<1> HIDE DEF refund
<1>7. q.gross_yield = p.gross_yield + Gross(worth[k], Invested(p))
  BY <1>1, <1>2, RedeemedFacts DEF Due, Inv
<1>5. /\ AccountsOK' /\ vault_kept' \in Nat /\ treasury' \in Nat /\ LimitStep
      /\ OnlyPosition(k) /\ Settled(k, part.available) /\ NoMoreEarned(k)
  <2>1. TRUE \in BOOLEAN /\ PutBack(k, q, left, TRUE, part.available) BY <1>1, <1>4
  <2>2. /\ p.stock_spent \in Nat /\ p.stock_units \in Nat /\ p.target_price \in Nat
        /\ Unit \in Nat
    BY AmountAssumption, PositionFacts DEF Inv, PositionRecord
  <2>3. Covered(p, q)
    <3>1. q.stock_spent - p.stock_spent = input /\ q.stock_units - p.stock_units = received
      BY <1>2, <2>2
    <3>2. PICK top \in Nat, scale \in Nat \ {0} :
             top = Exact(p.target_price, multiplier) /\ scale = Scale
      BY <2>2, LimitIsNat
    <3>3. PICK cost \in Nat : cost = input + part.fee BY <1>2
    <3>4. p.kind = "Limit" => cost * Unit * scale <= received * top
      <4>1. /\ multiplier.mantissa \in Nat /\ multiplier.shift \in Int
            /\ scale = Scaling(multiplier.shift)
        BY <2>2, <3>2, LimitIsNat
      <4>2. p.kind = "Limit" => PaysAtMost(cost, received, Unit, p.target_price, multiplier)
        BY <1>1, <3>3 DEF WithinLimit
      <4> HIDE DEF p
      <4> QED BY <2>2, <3>2, <4>1, <4>2, PaysAtMostTheLimit
    <3>5. input * Unit * scale <= cost * Unit * scale
      <4>1. input * Unit <= cost * Unit /\ input * Unit \in Nat /\ cost * Unit \in Nat
        BY <1>2, <2>2, <3>3
      <4>2. PICK a \in Nat, b \in Nat : a = input * Unit /\ b = cost * Unit /\ a <= b BY <4>1
      <4>3. a * scale <= b * scale BY <4>2
      <4> QED BY <4>2, <4>3
    <3>6. received * top <= received * (top + scale - 1)
      <4>1. PICK more \in Nat : more = scale - 1 BY <3>2
      <4>2. top + scale - 1 = top + more BY <4>1
      <4>3. received * (top + more) = received * top + received * more /\ received * more \in Nat
            /\ received * top \in Nat
        OBVIOUS
      <4> QED BY <4>2, <4>3
    <3>7. /\ input * Unit * scale \in Int /\ cost * Unit * scale \in Int
          /\ received * top \in Int /\ received * (top + scale - 1) \in Int
      BY <2>2, <3>2
    <3>8. p.kind = "Limit" => input * Unit * scale <= received * (top + scale - 1)
      BY <3>4, <3>5, <3>6, <3>7
    <3> QED BY <3>1, <3>2, <3>8 DEF Covered
  <2> QED BY <1>2, <1>7, <2>1, <2>3, PutBackStep DEF Inv
<1>6. BalancesOK' BY <1>1, <1>3, <1>4, <1>5 DEF Inv, BalancesOK
<1>8. Inv' BY <1>1, <1>5, <1>6, ConfigFrame DEF Inv
<1>9. Received(p.owner, part.available) BY <1>1, <1>2, <1>3, <1>4, Receives
<1>10. BooksStep BY <1>1, <1>2, <1>3, <1>5, <1>8, <1>9, BooksSettled
<1> QED BY <1>5, <1>8, <1>10

-----------------------------------------------------------------------------
(* The administrator, the vault and the clock                               *)

\* The vault moves what a position with shares is worth, and nothing else of it.
LEMMA VaultStep ==
    ASSUME Inv, NEW k \in PositionIds, NEW n \in Moves, VaultGain(k, n) \/ VaultLoss(k, n)
    PROVE  Inv' /\ BooksStep
<1>1. n \in Nat /\ LossFloor \in Nat BY AmountAssumption
<1>2. positions[k].shares > 0 /\ UNCHANGED <<configVars, positions, position_cash>>
  BY DEF VaultGain, VaultLoss
<1>3. PICK w \in Nat : worth' = [worth EXCEPT ![k] = w]
  <2>1. worth[k] \in Nat BY PositionFacts DEF Inv
  <2>2. CASE VaultGain(k, n)
    <3>1. worth[k] + n \in Nat BY <1>1, <2>1
    <3> QED BY <2>2, <3>1 DEF VaultGain
  <2>3. CASE VaultLoss(k, n)
    <3>1. worth[k] - n \in Nat BY <1>1, <2>1, <2>3 DEF VaultLoss
    <3> QED BY <2>3, <3>1 DEF VaultLoss
  <2> QED BY <2>2, <2>3
<1>4. PositionGood(positions[k], position_cash[k], w)
  <2>1. positions[k].shares # 0 BY <1>2
  <2> QED BY <2>1, PositionFacts DEF Inv, PositionGood
<1>5. /\ positions' = [positions EXCEPT ![k] = positions[k]]
      /\ position_cash' = [position_cash EXCEPT ![k] = position_cash[k]]
  BY <1>2 DEF Inv, AccountsOK
<1>6. AccountsOK' BY <1>3, <1>4, <1>5, WritePosition DEF Inv
<1>7. BalancesOK' BY <1>1 DEF Inv, BalancesOK, VaultGain, VaultLoss
<1>8. Inv' BY <1>2, <1>6, <1>7, ConfigFrame DEF Inv
<1>9. /\ positions[k].owner \in Keys /\ positions[k] \in PositionRecord
      /\ worth[k] \in Nat /\ worth \in [PositionIds -> Nat]
  <2>1. positions[k].shares # 0 BY <1>2
  <2> QED BY <2>1, PositionFacts DEF Inv, PositionGood, AccountsOK
<1>10. PICK o \in Keys : o = positions[k].owner BY <1>9
<1>11. OnlyPosition(k) /\ OnlyWallet(o)
  BY <1>2, <1>3, <1>9 DEF OnlyPosition, OnlyWallet, VaultGain, VaultLoss
<1>12. PICK w0 \in Nat, basis \in Nat, gross \in Nat, left \in Nat :
          /\ w0 = worth[k] /\ basis = Invested(positions[k]) /\ gross = positions[k].gross_yield
          /\ left = vault_cash
  BY <1>9 DEF Invested, PositionRecord, Inv, BalancesOK
<1>13. PICK had \in Nat, c \in Nat, kept \in Nat, more \in Nat :
          /\ had = wallet[o] /\ c = position_cash[k] /\ kept = vault_kept
          /\ more = treasury + market + packs_cash
  <2>1. treasury + market + packs_cash \in Nat BY DEF Inv, BalancesOK
  <2> QED BY <1>9, <2>1, PositionFacts DEF Inv, BalancesOK
<1>14. Common = left + kept + more BY <1>12, <1>13 DEF Common, Inv, BalancesOK
<1>15. CASE VaultGain(k, n)
  <2>1. /\ worth'[k] = w0 + n /\ vault_cash' = left - n
        /\ UNCHANGED <<positions, wallet, position_cash, vault_kept, treasury, market, packs_cash>>
    BY <1>9, <1>12, <1>15 DEF VaultGain
  <2>2. Common' = (left - n) + kept + more
    BY <1>1, <1>12, <1>13, <2>1 DEF Common, Inv, BalancesOK
  <2>3. had + (c + (w0 + n)) + ((left - n) + kept + more) = had + (c + w0) + (left + kept + more)
    BY <1>1, <1>12, <1>13
  <2>4. Purse(k, o)' = Purse(k, o)
    <3>1. Purse(k, o)' = had + (c + (w0 + n)) + Common' BY <1>13, <2>1 DEF Purse
    <3>2. Purse(k, o) = had + (c + w0) + Common BY <1>12, <1>13 DEF Purse
    <3> QED BY <1>14, <2>2, <2>3, <3>1, <3>2
  <2>5. Earns(k)
    <3>1. (gross + MostOf((w0 + n) - basis, 0)) + (left - n) <= (gross + MostOf(w0 - basis, 0)) + left
      BY <1>1, <1>12 DEF MostOf
    <3> QED BY <1>12, <2>1, <3>1 DEF Earns, EarnedBy
  <2> QED BY <1>8, <1>11, <2>4, <2>5, BooksLocal
<1>16. CASE VaultLoss(k, n)
  <2>1. /\ worth'[k] = w0 - n /\ vault_kept' = kept + n
        /\ UNCHANGED <<positions, wallet, position_cash, vault_cash, treasury, market, packs_cash>>
    BY <1>9, <1>12, <1>13, <1>16 DEF VaultLoss
  <2>2. Common' = left + (kept + n) + more
    BY <1>1, <1>12, <1>13, <2>1 DEF Common, Inv, BalancesOK
  <2>3. had + (c + (w0 - n)) + (left + (kept + n) + more) = had + (c + w0) + (left + kept + more)
    BY <1>1, <1>12, <1>13
  <2>4. Purse(k, o)' = Purse(k, o)
    <3>1. Purse(k, o)' = had + (c + (w0 - n)) + Common' BY <1>13, <2>1 DEF Purse
    <3>2. Purse(k, o) = had + (c + w0) + Common BY <1>12, <1>13 DEF Purse
    <3> QED BY <1>14, <2>2, <2>3, <3>1, <3>2
  <2>5. Earns(k)
    <3>1. (gross + MostOf((w0 - n) - basis, 0)) + left <= (gross + MostOf(w0 - basis, 0)) + left
      BY <1>1, <1>12 DEF MostOf
    <3> QED BY <1>12, <2>1, <3>1 DEF Earns, EarnedBy
  <2> QED BY <1>8, <1>11, <2>4, <2>5, BooksLocal
<1> QED BY <1>15, <1>16, <1>8

\* Time passes for every position at once.
LEMMA TickStep ==
    ASSUME Inv, Tick
    PROVE  Inv' /\ BooksStep
<1>1. ASSUME NEW k \in PositionIds
      PROVE  /\ positions'[k] \in PositionRecord
             /\ PositionGood(positions'[k], position_cash[k], worth[k])
             /\ SameEarning(positions[k], positions'[k])
  <2> DEFINE p == positions[k]
  <2>1. p \in PositionRecord /\ PositionGood(p, position_cash[k], worth[k])
    BY PositionFacts DEF Inv
  <2>2. PICK ttl \in Nat, next \in Nat, cooldown \in Nat :
           positions'[k] = [p EXCEPT !.ttl = ttl, !.next_fill = next, !.cooldown = cooldown]
    <3>1. p.ttl \in Nat /\ p.next_fill \in Nat /\ p.cooldown \in Nat
      BY <2>1 DEF PositionRecord
    <3> DEFINE a == MostOf(p.ttl - 1, 0)
               b == MostOf(p.next_fill - 1, 0)
               c == MostOf(p.cooldown - 1, 0)
    <3>2. a \in Nat /\ b \in Nat /\ c \in Nat BY <3>1 DEF MostOf
    <3>3. positions'[k] = [p EXCEPT !.ttl = a, !.next_fill = b, !.cooldown = c]
      <4>1. positions'[k] = [p EXCEPT !.ttl = MostOf(@ - 1, 0), !.next_fill = MostOf(@ - 1, 0),
                                      !.cooldown = MostOf(@ - 1, 0)]
        BY Zenon DEF Tick
      <4> QED BY <2>1, <4>1 DEF PositionRecord
    <3> HIDE DEF a, b, c, p
    <3> QED BY <3>2, <3>3
  <2> HIDE DEF p
  <2>3. positions'[k] \in PositionRecord
    <3> DEFINE a == [p EXCEPT !.ttl = ttl]
               b == [a EXCEPT !.next_fill = next]
    <3>1. a \in PositionRecord BY <2>1, Zenon DEF PositionRecord
    <3> HIDE DEF a
    <3>2. b \in PositionRecord BY <3>1, Zenon DEF PositionRecord
    <3>3. positions'[k] = [b EXCEPT !.cooldown = cooldown] BY <2>2, Zenon DEF a
    <3> HIDE DEF b
    <3>4. [b EXCEPT !.cooldown = cooldown] \in PositionRecord
      BY <3>2, Zenon DEF PositionRecord
    <3> QED BY <3>3, <3>4, Zenon
  <2>4. SameEarning(p, positions'[k]) BY <2>1, <2>2 DEF SameEarning, PositionRecord
  <2>5. PositionGood(positions'[k], position_cash[k], worth[k])
    BY <2>1, <2>2, <2>3 DEF PositionGood, PositionRecord
  <2> QED BY <2>3, <2>4, <2>5 DEF p
<1>2. positions' = [k \in PositionIds |-> positions'[k]] BY DEF Tick
<1>3. UNCHANGED <<configVars, execution, worth, penalty, cash>> BY DEF Tick
<1>4. AccountsOK' BY <1>1, <1>2, <1>3 DEF Inv, AccountsOK, cash
<1>5. BalancesOK' BY <1>3 DEF Inv, BalancesOK, cash
<1>6. Inv' BY <1>3, <1>4, <1>5, ConfigFrame DEF Inv
<1> QED BY <1>1, <1>3, <1>6, BooksStand

\* A step that leaves positions, their cash and their worth alone.
LEMMA ElsewhereStep ==
    ASSUME Inv, ConfigInv', BalancesOK', UNCHANGED <<positions, worth, cash>>
    PROVE  Inv' /\ BooksStep
<1>1. Inv' BY DEF Inv, AccountsOK, cash
<1>2. \A j \in PositionIds : SameEarning(positions[j], positions'[j]) BY DEF SameEarning
<1> QED BY <1>1, <1>2, BooksStand

-----------------------------------------------------------------------------
(* The invariant and what follows from it                                   *)

LEMMA InitPositions == Init => Inv
<1> SUFFICES ASSUME Init PROVE Inv OBVIOUS
<1>1. ConfigInv BY ConfigInitInv DEF Init
<1>2. /\ BPS \in Nat \ {0} /\ YieldShareBps \in Nat /\ WalletCash \in [Keys -> Nat]
      /\ VaultCash \in Nat
  BY BPSAssumption, RateAssumption, AmountAssumption
<1>3. NoPosition \in PositionRecord
  BY <1>2 DEF NoPosition, PositionRecord, Kinds, Destinations
<1>4. PositionGood(NoPosition, 0, 0)
  <2>1. 0 * BPS + 0 = 0 * YieldShareBps BY <1>2
  <2> QED BY <1>3, <2>1 DEF PositionGood, NoPosition
<1>5. AccountsOK BY <1>3, <1>4 DEF Init, AccountsOK
<1>6. BalancesOK BY <1>2 DEF Init, BalancesOK
<1> QED BY <1>1, <1>5, <1>6 DEF Inv

\* A piece of a natural amount is a natural number.
LEMMA AskedIsNat == \A n \in Nat : Asked(n) \subseteq Nat
BY DEF Asked

LEMMA OwnerStepInv ==
    ASSUME Inv, MultiplierOK, OwnerStep
    PROVE  Inv' /\ BooksStep
<1>1. PICK k \in PositionIds :
        \/ \E owner \in Keys, amount \in Deposits, t \in TermChoices, lost \in 0..Rounding :
              \E spent \in (amount - Rounding)..amount : Create(k, owner, amount, t, spent, lost)
        \/ \E amount \in Deposits, lost \in 0..Rounding :
              \E spent \in (amount - Rounding)..amount : DepositMore(k, amount, spent, lost)
        \/ \E destination \in Destinations, auto_packs \in BOOLEAN :
              Preferences(k, destination, auto_packs, 1)
        \/ \E take \in Asked(PrincipalValue(k)) : Withdraw(k, take)
        \/ Cancel(k)
        \/ \E amount \in Asked(positions[k].claimable) : Claim(k, amount)
  BY DEF OwnerStep
<1>2. PrincipalValue(k) \in Nat /\ positions[k].claimable \in Nat
  BY PositionFacts DEF Inv, PositionRecord, PrincipalValue, LeastOf
<1>3. Asked(PrincipalValue(k)) \subseteq Nat /\ Asked(positions[k].claimable) \subseteq Nat
  BY <1>2, AskedIsNat
<1> QED BY <1>1, <1>3, CreateStep, DepositMoreStep, PreferencesStep, WithdrawStep, CancelStep,
           ClaimStep

LEMMA SolverStepInv ==
    ASSUME Inv, MultiplierOK, SolverStep
    PROVE  Inv' /\ BooksStep
<1>1. PICK k \in PositionIds :
        \/ Harvest(k)
        \/ AutoPacks(k)
        \/ \E amount \in Asked(positions[k].claimable), price \in Prices : SettleYield(k, amount, price)
        \/ \E price \in Prices : Fill(k, price)
        \/ \E age \in 0..MaxAge, quoted \in Outputs, received \in Outputs :
              \/ \E input \in Asked(positions[k].claimable) : SwapYield(k, input, age, quoted, received)
              \/ /\ Due(k)
                 /\ \E input \in 1..Instalment(k).available : SwapOrder(k, input, age, quoted, received)
  BY DEF SolverStep
<1>2. positions[k].claimable \in Nat BY PositionFacts DEF Inv, PositionRecord
<1>3. Asked(positions[k].claimable) \subseteq Nat BY <1>2, AskedIsNat
<1>4. ASSUME NEW amount \in Asked(positions[k].claimable), NEW price \in Prices,
             SettleYield(k, amount, price)
      PROVE  Inv' /\ BooksStep
  BY <1>3, <1>4, SettleYieldStep
<1>5. ASSUME NEW age \in 0..MaxAge, NEW quoted \in Outputs, NEW received \in Outputs,
             NEW input \in Asked(positions[k].claimable), SwapYield(k, input, age, quoted, received)
      PROVE  Inv' /\ BooksStep
  <2>1. received \in Nat /\ input \in Nat BY <1>3, AmountAssumption
  <2>2. SpendYield(k, input, received) BY <1>5 DEF SwapYield
  <2> QED BY <2>1, <2>2, SpendYieldStep
<1>6. ASSUME NEW age \in 0..MaxAge, NEW quoted \in Outputs, NEW received \in Outputs,
             NEW input \in 1..Instalment(k).available, SwapOrder(k, input, age, quoted, received)
      PROVE  Inv' /\ BooksStep
  <2>1. received \in Nat BY AmountAssumption
  <2>2. input \in Int /\ input > 0 BY <1>6 DEF SwapOrder
  <2> QED BY <1>6, <2>1, <2>2, SwapOrderStep
<1> QED BY <1>1, <1>4, <1>5, <1>6, HarvestStep, AutoPacksStep, FillStep

LEMMA WorldStepInv ==
    ASSUME Inv, WorldStep
    PROVE  Inv' /\ BooksStep
<1>1. CASE AdminStep /\ UNCHANGED <<positions, execution, worth, penalty, cash>>
  <2>1. ConfigInv' BY <1>1, AdminStepInv DEF Inv
  <2>2. BalancesOK' BY <1>1 DEF cash, Inv, BalancesOK
  <2> QED BY <1>1, <2>1, <2>2, ElsewhereStep DEF cash
<1>2. ASSUME NEW enabled \in BOOLEAN, NEW max \in BudgetChoices, ConfigureExecution(enabled, max)
      PROVE  Inv' /\ BooksStep
  <2>1. max \in Nat BY AmountAssumption
  <2>2. ConfigInv' BY <1>2, ConfigFrame DEF ConfigureExecution, Inv
  <2>3. BalancesOK' BY <1>2, <2>1 DEF ConfigureExecution, cash, Inv, BalancesOK
  <2> QED BY <1>2, <2>2, <2>3, ElsewhereStep DEF ConfigureExecution, cash
<1>3. ASSUME NEW charged \in BOOLEAN, SetPenalty(charged) PROVE Inv' /\ BooksStep
  <2>1. ConfigInv' BY <1>3, ConfigFrame DEF SetPenalty, Inv
  <2>2. BalancesOK' BY <1>3 DEF SetPenalty, cash, Inv, BalancesOK
  <2> QED BY <1>3, <2>1, <2>2, ElsewhereStep DEF SetPenalty, cash
<1> QED BY <1>1, <1>2, <1>3, VaultStep, TickStep DEF WorldStep

\* The mint's issuer alone changes the multiplier, to another of its choices.
LEMMA MultiplierInvariant == Spec => []MultiplierOK
<1>1. Init => MultiplierOK BY DEF Init, MultiplierOK
<1>2. MultiplierOK /\ [Next]_vars => MultiplierOK'
  BY DEF Next, Rescale, vars, MultiplierOK
<1> QED BY <1>1, <1>2, PTL DEF Spec

LEMMA NextPositions == Inv /\ MultiplierOK /\ [Next]_vars => Inv' /\ BooksStep
<1> SUFFICES ASSUME Inv, MultiplierOK, [Next]_vars PROVE Inv' /\ BooksStep OBVIOUS
<1>1. CASE UNCHANGED vars
  <2>1. ConfigInv' BY <1>1, ConfigFrame DEF vars, Inv
  <2>2. BalancesOK' BY <1>1 DEF vars, cash, Inv, BalancesOK
  <2> QED BY <1>1, <2>1, <2>2, ElsewhereStep DEF vars, cash
<1>2. ASSUME NEW m \in Multipliers, Rescale(m) PROVE Inv' /\ BooksStep
  <2>1. ConfigInv' BY <1>2, ConfigFrame DEF Rescale, Inv
  <2>2. BalancesOK' BY <1>2 DEF Rescale, cash, Inv, BalancesOK
  <2> QED BY <1>2, <2>1, <2>2, ElsewhereStep DEF Rescale, cash
<1> QED BY <1>1, <1>2, OwnerStepInv, SolverStepInv, WorldStepInv DEF Next

\* The invariant holds of every state the instructions and the vault reach.
THEOREM PositionsInvariant == Spec => []Inv
BY InitPositions, NextPositions, MultiplierInvariant, PTL DEF Spec

\* Every account and balance keeps the range of its Rust type: no debit of any
\* instruction goes below zero.
THEOREM PositionsTypeOK == Spec => []TypeOK
<1>1. Inv /\ MultiplierOK => TypeOK
  BY DEF Inv, MultiplierOK, ConfigInv, AccountsOK, BalancesOK, TypeOK
<1> QED BY <1>1, PositionsInvariant, MultiplierInvariant, PTL

\* Redeem, pay fees and put back leave a position's account with its claimable
\* yield and nothing else, whatever the vault gained, lost, kept or charged.
\* (redeem_all, reinvest and pay_fees in positions.rs and position_swap.rs)
THEOREM PositionsAreBacked == Spec => []PositionEscrow
<1>1. Inv => PositionEscrow BY DEF Inv, AccountsOK, PositionGood, PositionEscrow
<1> QED BY <1>1, PositionsInvariant, PTL

\* However the yield is split into redemptions, the fees are its share of the
\* gross exactly, less the carried remainder.  (realize in stockroom-math)
THEOREM YieldFeesAreExact == Spec => []YieldFeesExact
<1>1. Inv => YieldFeesExact BY DEF Inv, AccountsOK, PositionGood, YieldFeesExact
<1> QED BY <1>1, PositionsInvariant, PTL

\* An order that was filled or cancelled has nothing left in the vault or in
\* its account.  (fill, swap and withdraw)
THEOREM EndedOrdersHoldNothing == Spec => []NothingStranded
<1>1. Inv => NothingStranded BY DEF Inv, AccountsOK, PositionGood, NothingStranded
<1> QED BY <1>1, PositionsInvariant, PTL

-----------------------------------------------------------------------------
(* The books                                                                *)

BooksInv ==
    /\ Held = SumFunction(WalletCash) + VaultCash
    /\ Credited <= VaultCash

\* The sums of the accounts are numbers.
LEMMA SumsAreInts ==
    ASSUME Inv
    PROVE  /\ SumFunction(wallet) \in Int /\ SumFunction(position_cash) \in Int
           /\ SumFunction(worth) \in Int
           /\ SumFunction([k \in PositionIds |-> positions[k].gross_yield]) \in Int
           /\ SumFunction([k \in PositionIds |-> EarnedBy(positions[k], worth[k])]) \in Int
           /\ SumFunction([k \in PositionIds |-> positions[k].gross_yield])
                <= SumFunction([k \in PositionIds |-> EarnedBy(positions[k], worth[k])])
<1>1. IsFiniteSet(Keys) /\ IsFiniteSet(PositionIds) BY AccountAssumption
<1>2. /\ wallet \in [Keys -> Nat] /\ position_cash \in [PositionIds -> Nat]
      /\ worth \in [PositionIds -> Nat] /\ positions \in [PositionIds -> PositionRecord]
  BY DEF Inv, AccountsOK, BalancesOK
<1> DEFINE yield == [k \in PositionIds |-> positions[k].gross_yield]
           earned == [k \in PositionIds |-> EarnedBy(positions[k], worth[k])]
<1>3. \A k \in PositionIds : yield[k] \in Int /\ earned[k] \in Int /\ yield[k] <= earned[k]
  <2> TAKE k \in PositionIds
  <2>1. PICK p \in PositionRecord, w \in Nat : p = positions[k] /\ w = worth[k] BY <1>2
  <2>2. EarnedBy(p, w) \in Int BY EarnedIsInt
  <2>3. p.gross_yield \in Nat BY DEF PositionRecord
  <2>4. Invested(p) \in Int BY DEF Invested, PositionRecord
  <2>5. p.gross_yield <= EarnedBy(p, w) BY <2>3, <2>4 DEF EarnedBy, MostOf
  <2> QED BY <2>1, <2>2, <2>3, <2>5
<1>4. DOMAIN yield = PositionIds /\ DOMAIN earned = PositionIds OBVIOUS
<1> HIDE DEF yield, earned
<1>5. SumFunction(yield) \in Int /\ SumFunction(earned) \in Int
  BY <1>1, <1>3, <1>4, SumType DEF SumFunction
<1>6. SumFunction(yield) <= SumFunction(earned)
  BY <1>1, <1>3, <1>4, SumMonotone DEF SumFunction
<1>7. /\ SumFunction(wallet) \in Int /\ SumFunction(position_cash) \in Int
      /\ SumFunction(worth) \in Int
  <2>1. /\ \A o \in Keys : wallet[o] \in Int
        /\ \A k \in PositionIds : position_cash[k] \in Int /\ worth[k] \in Int
        /\ DOMAIN wallet = Keys /\ DOMAIN position_cash = PositionIds
        /\ DOMAIN worth = PositionIds
    BY <1>2
  <2> QED BY <1>1, <2>1, SumType DEF SumFunction
<1> QED BY <1>5, <1>6, <1>7 DEF yield, earned

\* The books are open with what the wallets and the vault start with.
LEMMA InitBooks == Init => BooksInv
<1> SUFFICES ASSUME Init PROVE BooksInv OBVIOUS
<1>1. IsFiniteSet(PositionIds) BY AccountAssumption
<1>2. SumFunction(position_cash) = 0 /\ SumFunction(worth) = 0
  <2>1. /\ DOMAIN position_cash = PositionIds /\ DOMAIN worth = PositionIds
        /\ \A k \in PositionIds : position_cash[k] = 0 /\ worth[k] = 0
    BY DEF Init
  <2> QED BY <1>1, <2>1, SumZero DEF SumFunction
<1>3. SumFunction([k \in PositionIds |-> EarnedBy(positions[k], worth[k])]) = 0
  <2> DEFINE earned == [k \in PositionIds |-> EarnedBy(positions[k], worth[k])]
  <2>1. EarnedBy(NoPosition, 0) = 0 BY DEF EarnedBy, MostOf, Invested, NoPosition
  <2>2. \A k \in PositionIds : earned[k] = 0 BY <2>1 DEF Init
  <2>3. DOMAIN earned = PositionIds OBVIOUS
  <2> HIDE DEF earned
  <2>4. SumFunction(earned) = 0 BY <1>1, <2>2, <2>3, SumZero DEF SumFunction
  <2> QED BY <2>4 DEF earned
<1>4. SumFunction(WalletCash) \in Int /\ VaultCash \in Nat
  <2>1. Inv /\ wallet = WalletCash BY InitPositions DEF Init
  <2> QED BY <2>1, SumsAreInts, AmountAssumption
<1>5. Common = VaultCash BY <1>4 DEF Init, Common
<1>6. Held = SumFunction(WalletCash) + VaultCash BY <1>2, <1>4, <1>5 DEF Held, Init
<1>7. Credited <= VaultCash BY <1>3, <1>4 DEF Credited, Init
<1> QED BY <1>6, <1>7 DEF BooksInv

\* What is credited is a number.
LEMMA CreditedIsInt == Inv => Credited \in Int
BY SumsAreInts DEF Credited, Inv, BalancesOK

\* No step opens them again.
LEMMA NextBooks == Inv /\ MultiplierOK /\ BooksInv /\ [Next]_vars => BooksInv'
<1> SUFFICES ASSUME Inv, MultiplierOK, BooksInv, [Next]_vars PROVE BooksInv' OBVIOUS
<1>1. Inv' /\ BooksStep BY NextPositions
<1>2. Credited \in Int BY CreditedIsInt
<1>3. Credited' \in Int
  <2>1. (Inv => Credited \in Int)' BY CreditedIsInt, PTL
  <2> QED BY <1>1, <2>1
<1>4. PICK a \in Int, b \in Int : a = Credited /\ b = Credited' BY <1>2, <1>3
<1>5. a <= VaultCash /\ b <= a BY <1>1, <1>4 DEF BooksInv, BooksStep
<1>6. Credited' <= VaultCash BY <1>4, <1>5, AmountAssumption
<1>7. Held' = SumFunction(WalletCash) + VaultCash BY <1>1 DEF BooksInv, BooksStep
<1> QED BY <1>6, <1>7 DEF BooksInv

\* The books are kept in every state.
LEMMA BooksInvariant == Spec => [](Inv /\ BooksInv)
BY PositionsInvariant, MultiplierInvariant, InitPositions, InitBooks, NextBooks, PTL DEF Spec

\* No instruction mints or burns USDC: what the wallets, the positions, the
\* vault, the treasury, the market and the packs hold is what the wallets and
\* the vault started with, for any number of owners and positions.
\* (every transfer, deposit and redemption of positions.rs, position_swap.rs)
THEOREM MoneyIsConserved == Spec => []Conservation
<1>1. Inv /\ BooksInv => Conservation
  <2> SUFFICES ASSUME Inv, BooksInv PROVE Conservation OBVIOUS
  <2>1. PICK a \in Int, b \in Int, c \in Int :
           a = SumFunction(wallet) /\ b = SumFunction(position_cash) /\ c = SumFunction(worth)
    BY SumsAreInts
  <2>2. PICK s \in Int : s = a + b + c BY <2>1
  <2>3. /\ vault_cash \in Nat /\ vault_kept \in Nat /\ treasury \in Nat
        /\ market \in Nat /\ packs_cash \in Nat
    BY DEF Inv, BalancesOK
  <2>4. Held = s + Common BY <2>1, <2>2 DEF Held
  <2>5. s + Common = s + vault_cash + vault_kept + treasury + market + packs_cash
    BY <2>2, <2>3 DEF Common
  <2> QED BY <2>1, <2>2, <2>4, <2>5 DEF BooksInv, Conservation
<1> QED BY <1>1, BooksInvariant, PTL

\* What is treated as yield over all positions is no more than the interest
\* the vault has paid: neither principal that recovers after a loss nor a
\* deposit nor a fee that is put back is ever taxed.  (realize,
\* invested_basis, "recovered losses aren't later taxed as new profit")
THEOREM YieldWasEarned == Spec => []YieldIsReal
<1>1. Inv /\ BooksInv => YieldIsReal
  <2> SUFFICES ASSUME Inv, BooksInv PROVE YieldIsReal OBVIOUS
  <2>1. PICK y \in Int, e \in Int, v \in Nat :
           /\ y = SumFunction([k \in PositionIds |-> positions[k].gross_yield])
           /\ e = SumFunction([k \in PositionIds |-> EarnedBy(positions[k], worth[k])])
           /\ v = vault_cash
    BY SumsAreInts DEF Inv, BalancesOK
  <2>2. y <= e BY <2>1, SumsAreInts
  <2>3. e + v <= VaultCash BY <2>1 DEF BooksInv, Credited
  <2>4. y <= VaultCash - v BY <2>2, <2>3, AmountAssumption
  <2> QED BY <2>1, <2>4 DEF YieldIsReal
<1> QED BY <1>1, BooksInvariant, PTL

-----------------------------------------------------------------------------
(* The limit of an order                                                    *)

\* Only a claim, a harvest, a cancellation, a fill and the clock write a limit
\* position, and only a fill touches its stock.
LEMMA NextCovers == Inv /\ MultiplierOK /\ [Next]_vars => LimitStep
<1> SUFFICES ASSUME Inv, MultiplierOK, [Next]_vars PROVE LimitStep OBVIOUS
<1>1. UNCHANGED positions => LimitStep
  BY PositionFacts, SameStock DEF Inv, LimitStep
<1>2. ASSUME NEW k \in PositionIds, NEW q, positions[k].kind # "Limit",
             positions' = [positions EXCEPT ![k] = q]
      PROVE  LimitStep
  BY <1>2, WriteCovered DEF Inv, Covered
<1>3. CASE OwnerStep
  <2>1. ASSUME NEW k \in PositionIds, NEW owner, NEW amount, NEW t, NEW spent, NEW lost,
               Create(k, owner, amount, t, spent, lost)
        PROVE  LimitStep
    <3>1. positions[k].kind # "Limit" BY <2>1, PositionFacts DEF Create, Inv, PositionGood
    <3> QED BY <1>2, <2>1, <3>1 DEF Create
  <2>2. ASSUME NEW k \in PositionIds, NEW amount, NEW spent, NEW lost,
               DepositMore(k, amount, spent, lost)
        PROVE  LimitStep
    BY <1>2, <2>2 DEF DepositMore
  <2>3. ASSUME NEW k \in PositionIds, NEW destination, NEW auto_packs,
               Preferences(k, destination, auto_packs, 1)
        PROVE  LimitStep
    BY <1>2, <2>3 DEF Preferences
  <2>4. ASSUME NEW k \in PositionIds, NEW take, Withdraw(k, take)
        PROVE  LimitStep
    BY <1>2, <2>4 DEF Withdraw, CanWithdraw, PutBack
  <2>5. ASSUME NEW k \in PositionIds, NEW amount, Claim(k, amount)
        PROVE  LimitStep
    <3> DEFINE q == [positions[k] EXCEPT !.claimable = @ - amount]
    <3>1. positions[k] \in PositionRecord BY PositionFacts DEF Inv
    <3>2. q.stock_spent = positions[k].stock_spent /\ q.stock_units = positions[k].stock_units
      BY <3>1 DEF PositionRecord
    <3>3. positions' = [positions EXCEPT ![k] = q] BY <2>5 DEF Claim, Inv, AccountsOK
    <3> HIDE DEF q
    <3> QED BY <3>1, <3>2, <3>3, SameStock, WriteCovered DEF Inv
  <2> QED BY <1>3, <2>1, <2>2, <2>3, <2>4, <2>5, CancelStep DEF OwnerStep
<1>4. CASE SolverStep
  <2>1. ASSUME NEW k \in PositionIds, AutoPacks(k)
        PROVE  LimitStep
    BY <1>2, <2>1 DEF AutoPacks
  <2>2. ASSUME NEW k \in PositionIds, NEW amount, NEW received, YieldSpendable(k),
               SpendYield(k, amount, received)
        PROVE  LimitStep
    BY <1>2, <2>2 DEF YieldSpendable, SpendYield
  <2>3. ASSUME NEW k \in PositionIds, NEW age, NEW quoted, NEW received \in Outputs,
               NEW input \in 1..Instalment(k).available, SwapOrder(k, input, age, quoted, received)
        PROVE  LimitStep
    <3>1. received \in Nat BY AmountAssumption
    <3>2. input \in Int /\ input > 0 BY <2>3 DEF SwapOrder
    <3> QED BY <2>3, <3>1, <3>2, SwapOrderStep
  <2> QED BY <1>4, <2>1, <2>2, <2>3, HarvestStep, FillStep DEF SolverStep, SettleYield, SwapYield
<1>5. CASE Tick
  <2> SUFFICES ASSUME NEW k \in PositionIds PROVE Covered(positions[k], positions'[k])
    BY DEF LimitStep
  <2>1. positions[k] \in PositionRecord BY PositionFacts DEF Inv
  <2>2. positions'[k] = [positions[k] EXCEPT !.ttl = MostOf(@ - 1, 0),
                            !.next_fill = MostOf(@ - 1, 0), !.cooldown = MostOf(@ - 1, 0)]
    BY <1>5, Zenon DEF Tick
  <2>3. /\ positions'[k].stock_spent = positions[k].stock_spent
        /\ positions'[k].stock_units = positions[k].stock_units
    BY <2>1, <2>2 DEF PositionRecord
  <2> QED BY <2>1, <2>3, SameStock
<1>6. CASE WorldStep /\ ~Tick
  BY <1>1, <1>6 DEF WorldStep, ConfigureExecution, VaultGain, VaultLoss, SetPenalty
<1>7. CASE UNCHANGED vars BY <1>1, <1>7 DEF vars
<1>8. ASSUME NEW m \in Multipliers, Rescale(m) PROVE LimitStep BY <1>1, <1>8 DEF Rescale
<1> QED BY <1>3, <1>4, <1>5, <1>6, <1>7, <1>8 DEF Next

\* On either path, after all slippage and rounding and under whatever display
\* multiplier the mint has by the time of the fill, the stock of a limit order
\* costs less than one base unit of USDC more per Unit than its limit; the
\* excess is the rounding of oracle::minimum, nought under a whole multiplier
\* (Scale = 1).  (fill in positions.rs, minimum in oracle.rs, swap in
\* position_swap.rs)
THEOREM LimitsAreRespected == Spec => LimitRespected
<1>1. Inv /\ MultiplierOK /\ [Next]_vars =>
         [\A k \in PositionIds :
            positions[k].kind = "Limit" =>
              (positions'[k].stock_spent - positions[k].stock_spent) * Unit * Scale
                <= (positions'[k].stock_units - positions[k].stock_units)
                      * (ExactLimit(k) + Scale - 1)]_vars
  <2>1. \A k : ExactLimit(k) = Exact(positions[k].target_price, multiplier)
    BY DEF ExactLimit, Exact
  <2> QED BY <2>1, NextCovers DEF LimitStep, Covered
<1> QED BY <1>1, PositionsInvariant, MultiplierInvariant, PTL DEF Spec, LimitRespected

-----------------------------------------------------------------------------
(* Principal behind realised yield                                          *)

\* What PrincipalProtected asks of one position in one step.
Protected(p, q, w) ==
    p.status = "Active" /\ q.status = "Active" /\ q.principal_basis = p.principal_basis
        /\ q.gross_yield > p.gross_yield => w >= q.principal_basis
ProtectStep == \A k \in PositionIds : Protected(positions[k], positions'[k], worth'[k])

\* A step that writes position k alone is judged on k alone.
LEMMA WriteProtected ==
    ASSUME AccountsOK, NEW k \in PositionIds, NEW q,
           positions' = [positions EXCEPT ![k] = q], Protected(positions[k], q, worth'[k])
    PROVE  ProtectStep
<1>1. \A j \in PositionIds \ {k} : positions'[j] = positions[j] BY DEF AccountsOK
<1>2. positions'[k] = q BY DEF AccountsOK
<1>3. \A j \in PositionIds : positions[j].gross_yield \in Nat
  BY DEF AccountsOK, PositionRecord
<1> QED BY <1>1, <1>2, <1>3 DEF ProtectStep, Protected

\* Taking anything of a basis that is worth itself leaves less of it.
LEMMA BasisShrinks ==
    ASSUME NEW basis \in Nat, NEW taken \in Nat, taken > 0,
           RemainingBasis(basis, basis, taken) # Err
    PROVE  RemainingBasis(basis, basis, taken) < basis
<1>1. taken <= basis BY BasisLeft
<1>2. CASE taken = basis
  BY <1>1, <1>2 DEF RemainingBasis, Sub, MulDiv, Err
<1>3. CASE taken < basis
  <2> DEFINE n == basis * taken
  <2>1. n \in Nat /\ n >= basis
    <3>1. PICK m \in Nat : taken = m + 1 BY <1>1
    <3>2. basis * (m + 1) = basis * m + basis /\ basis * m \in Nat OBVIOUS
    <3> QED BY <3>1, <3>2
  <2>0. basis \in Nat \ {0} BY <1>3
  <2> HIDE DEF n
  <2>2. /\ n \div basis \in Nat /\ n % basis \in 0..(basis - 1)
        /\ n = (n \div basis) * basis + (n % basis)
    BY <2>0, <2>1, Quotients
  <2>3. PICK d \in Nat : d = n \div basis BY <2>2
  <2>4. d # 0
    <3> SUFFICES ASSUME d = 0 PROVE FALSE OBVIOUS
    <3>1. n = n % basis BY <2>2, <2>3
    <3> QED BY <2>1, <2>2, <3>1
  <2>5. d <= basis BY <1>1, <2>3, <1>3, SharesBounded DEF n
  <2>6. RemainingBasis(basis, basis, taken) = basis - d
    BY <1>1, <1>3, <2>3, <2>5 DEF n, RemainingBasis, Sub, MulDiv, Err
  <2> QED BY <2>4, <2>6
<1> QED BY <1>1, <1>2, <1>3

\* A redemption that realises yield found the whole principal there.
LEMMA YieldMeansWhole ==
    ASSUME Inv, NEW k \in PositionIds, CanRedeem(k),
           Redeemed(k).gross_yield > positions[k].gross_yield
    PROVE  PrincipalValue(k) = positions[k].principal_basis
<1> DEFINE p == positions[k]
           r == Realize(worth[k], Invested(p), YieldShareBps, p.fee_carry)
<1>1. /\ p \in PositionRecord /\ worth[k] \in Nat /\ p.principal_basis \in Nat
      /\ p.invested_fee_basis \in Nat /\ p.gross_yield \in Nat /\ p.fee_carry \in 0..(BPS - 1)
  BY PositionFacts DEF Inv, PositionRecord
<1>2. Redeemed(k).gross_yield = p.gross_yield + r.gross
  BY <1>1 DEF Redeemed, PositionRecord
<1>3. r.gross = MostOf(worth[k], Invested(p)) - Invested(p) \/ r.gross = Gross(worth[k], Invested(p))
  BY DEF Realize
<1>4. worth[k] > Invested(p) BY <1>1, <1>2, <1>3 DEF Gross, MostOf, Invested
<1> QED BY <1>1, <1>4 DEF PrincipalValue, LeastOf, Invested

\* A protected reinvestment is worth the principal it was asked to put back.
LEMMA PutBackProtects ==
    ASSUME AccountsOK, NEW k \in PositionIds, NEW q \in PositionRecord, NEW principal \in Nat,
           NEW out, PutBack(k, q, principal, TRUE, out),
           q.gross_yield > positions[k].gross_yield /\ q.principal_basis = positions[k].principal_basis
               => q.principal_basis <= principal
    PROVE  ProtectStep
<1>1. PICK spent \in 0..(principal + Overhead), lost \in 0..Rounding :
         /\ IF principal = 0 THEN spent = 0 /\ lost = 0
            ELSE Reinvestable(q, principal, TRUE, spent, lost)
         /\ positions' = [positions EXCEPT ![k] =
                 [q EXCEPT !.shares = spent, !.invested_fee_basis = spent - principal,
                           !.pending_fees = 0]]
         /\ worth' = [worth EXCEPT ![k] = spent - lost]
  BY DEF PutBack, Affords
<1> DEFINE n == [q EXCEPT !.shares = spent, !.invested_fee_basis = spent - principal,
                          !.pending_fees = 0]
<1>2. /\ n.gross_yield = q.gross_yield /\ n.principal_basis = q.principal_basis
      /\ q.principal_basis \in Nat
  BY DEF PositionRecord
<1>3. worth'[k] = spent - lost BY <1>1 DEF AccountsOK
<1>4. spent - lost >= principal /\ spent - lost \in Int
  BY <1>1, AmountAssumption DEF Reinvestable
<1>5. Protected(positions[k], n, worth'[k])
  BY <1>2, <1>3, <1>4 DEF Protected
<1>6. positions' = [positions EXCEPT ![k] = n] BY <1>1
<1> HIDE DEF n
<1> QED BY <1>5, <1>6, WriteProtected

\* A withdrawal that finds yield takes a part of the whole basis.
LEMMA WithdrawProtects ==
    ASSUME Inv, NEW k \in PositionIds, NEW take \in Nat, Withdraw(k, take)
    PROVE  ProtectStep
<1> DEFINE p == positions[k]
           r == Redeemed(k)
           v == PrincipalValue(k)
           basis == RemainingBasis(p.principal_basis, v, take)
           q == [r EXCEPT !.principal_basis = basis, !.cooldown = HarvestCooldown]
<1>1. CanRedeem(k) /\ take > 0 /\ basis # Err /\ PutBack(k, q, v - take, FALSE, take)
  BY DEF Withdraw, CanWithdraw, Withdrawn
<1>2. r \in PositionRecord BY <1>1, RedeemedFacts DEF Inv
<1>3. r.gross_yield > p.gross_yield => basis # p.principal_basis
  <2> SUFFICES ASSUME r.gross_yield > p.gross_yield PROVE basis # p.principal_basis OBVIOUS
  <2>1. v = p.principal_basis BY <1>1, YieldMeansWhole
  <2>2. PICK b \in Nat : b = p.principal_basis BY PositionFacts DEF Inv, PositionRecord
  <2>3. RemainingBasis(b, b, take) # Err BY <1>1, <2>1, <2>2
  <2>4. RemainingBasis(b, b, take) < b BY <1>1, <2>3, BasisShrinks
  <2> QED BY <2>1, <2>2, <2>4
<1> HIDE DEF r, v, basis
<1>4. q.gross_yield = r.gross_yield /\ q.principal_basis = basis BY <1>2 DEF PositionRecord
<1>5. PICK n : positions' = [positions EXCEPT ![k] = n] /\ n.gross_yield = r.gross_yield
                 /\ n.principal_basis = basis
  <2>1. PICK spent \in 0..(v - take + Overhead) :
           positions' = [positions EXCEPT ![k] =
               [q EXCEPT !.shares = spent, !.invested_fee_basis = spent - (v - take),
                         !.pending_fees = 0]]
    BY <1>1 DEF PutBack, Affords
  <2> DEFINE n == [q EXCEPT !.shares = spent, !.invested_fee_basis = spent - (v - take),
                            !.pending_fees = 0]
  <2>2. n.gross_yield = r.gross_yield /\ n.principal_basis = basis
    BY <1>2, <1>4 DEF PositionRecord
  <2>3. positions' = [positions EXCEPT ![k] = n] BY <2>1
  <2> HIDE DEF n
  <2> QED BY <2>2, <2>3
<1>6. Protected(p, n, worth'[k]) BY <1>3, <1>5 DEF Protected
<1> QED BY <1>5, <1>6, WriteProtected DEF Inv

\* A step of an order that finds yield and spends no principal puts the whole
\* basis back; one that spends principal leaves a smaller basis.
LEMMA FilledProtects ==
    ASSUME Inv, NEW k \in PositionIds, Due(k), NEW spent \in Nat, NEW received \in Nat, NEW out,
           Instalment(k).fee # Err, BasisAfter(k, Instalment(k)) # Err,
           PutBack(k, Filled(k, Instalment(k), spent, received),
                   PrincipalValue(k) - Instalment(k).principal, TRUE, out)
    PROVE  ProtectStep
<1> DEFINE p == positions[k]
           r == Redeemed(k)
           v == PrincipalValue(k)
           part == Instalment(k)
           q == Filled(k, part, spent, received)
<1>1. CanRedeem(k) /\ p.status = "Active" BY DEF Due
<1>2. r \in PositionRecord /\ v \in Nat BY <1>1, RedeemedFacts DEF Inv
<1>3. q \in PositionRecord /\ v - part.principal \in Nat BY FilledFacts
<1>4. q.gross_yield = r.gross_yield /\ q.principal_basis = BasisAfter(k, part)
  BY <1>2, Zenon DEF Filled, PositionRecord
<1>5. part.principal \in Nat
  <2>1. r.steps \in Nat \ {0}
    <3>1. p.steps \in Nat /\ p.steps > 0 BY PositionFacts DEF Due, Inv, PositionRecord
    <3> QED BY <1>1, <3>1, RedeemedFacts DEF Inv, SameTerms
  <2>2. part.principal = v \div r.steps BY DEF Instalment
  <2>3. PICK steps \in Nat \ {0}, value \in Nat : steps = r.steps /\ value = v BY <1>2, <2>1
  <2>4. value \div steps \in Nat BY Quotients
  <2> HIDE DEF v, r, part
  <2> QED BY <2>2, <2>3, <2>4
<1>6. q.gross_yield > p.gross_yield /\ q.principal_basis = p.principal_basis
         => q.principal_basis <= v - part.principal
  <2> SUFFICES ASSUME q.gross_yield > p.gross_yield, q.principal_basis = p.principal_basis
               PROVE  q.principal_basis <= v - part.principal
    OBVIOUS
  <2>1. v = p.principal_basis BY <1>1, <1>4, YieldMeansWhole
  <2>2. PICK b \in Nat : b = p.principal_basis BY PositionFacts DEF Inv, PositionRecord
  <2>3. BasisAfter(k, part) = RemainingBasis(b, b, part.principal)
    BY <2>1, <2>2 DEF BasisAfter
  <2>4. RemainingBasis(b, b, part.principal) = b
    <3> HIDE DEF q, part
    <3> QED BY <1>4, <2>2, <2>3
  <2>5. b # Err BY <2>2 DEF Err
  <2> HIDE DEF q, v, part, r
  <2>6. ~(part.principal > 0) BY <1>5, <2>2, <2>4, <2>5, BasisShrinks
  <2> QED BY <1>5, <2>1, <2>2, <2>6
<1> HIDE DEF q, v, part
<1> QED BY <1>3, <1>6, PutBackProtects DEF Inv, q, v, part

\* Only withdrawals, cancellations, harvests and fills realise yield.
LEMMA NextProtects == Inv /\ MultiplierOK /\ [Next]_vars => ProtectStep
<1> SUFFICES ASSUME Inv, MultiplierOK, [Next]_vars PROVE ProtectStep OBVIOUS
<1>1. \A k \in PositionIds : positions[k] \in PositionRecord /\ positions[k].gross_yield \in Nat
  BY PositionFacts DEF Inv, PositionRecord
<1>2. UNCHANGED positions => ProtectStep BY <1>1 DEF ProtectStep, Protected
<1>3. ASSUME NEW k \in PositionIds, NEW q, q.gross_yield = positions[k].gross_yield,
             positions' = [positions EXCEPT ![k] = q]
      PROVE  ProtectStep
  <2>1. ~(q.gross_yield > positions[k].gross_yield) BY <1>1, <1>3
  <2>2. Protected(positions[k], q, worth'[k]) BY <2>1 DEF Protected
  <2> QED BY <1>3, <2>2, WriteProtected DEF Inv
<1>4. CASE OwnerStep
  <2>1. ASSUME NEW k \in PositionIds, NEW owner, NEW amount, NEW t, NEW spent, NEW lost,
               Create(k, owner, amount, t, spent, lost)
        PROVE  ProtectStep
    <3>1. PICK q : positions' = [positions EXCEPT ![k] = q] BY <2>1 DEF Create
    <3>2. positions[k].status # "Active" BY <2>1 DEF Create
    <3>3. Protected(positions[k], q, worth'[k]) BY <3>2 DEF Protected
    <3> QED BY <3>1, <3>3, WriteProtected DEF Inv
  <2>2. ASSUME NEW k \in PositionIds, NEW amount, NEW spent, NEW lost,
               DepositMore(k, amount, spent, lost)
        PROVE  ProtectStep
    <3> DEFINE q == [positions[k] EXCEPT !.principal_basis = @ + spent, !.shares = @ + spent]
    <3>1. positions' = [positions EXCEPT ![k] = q]
      BY <1>1, <2>2 DEF DepositMore, PositionRecord, Inv, AccountsOK
    <3>2. q.gross_yield = positions[k].gross_yield BY <1>1 DEF PositionRecord
    <3> HIDE DEF q
    <3> QED BY <1>3, <3>1, <3>2
  <2>3. ASSUME NEW k \in PositionIds, NEW destination, NEW auto_packs,
               Preferences(k, destination, auto_packs, 1)
        PROVE  ProtectStep
    <3> DEFINE q == [positions[k] EXCEPT !.destination = destination, !.auto_packs = auto_packs,
                                         !.stock_index = 1]
    <3>1. positions' = [positions EXCEPT ![k] = q]
      BY <2>3 DEF Preferences, Inv, AccountsOK
    <3>2. q.gross_yield = positions[k].gross_yield BY <1>1 DEF PositionRecord
    <3> HIDE DEF q
    <3> QED BY <1>3, <3>1, <3>2
  <2>4. ASSUME NEW k \in PositionIds, Cancel(k)
        PROVE  ProtectStep
    <3> DEFINE r == Redeemed(k)
               total == PrincipalValue(k) + r.claimable
               basis == RemainingBasis(positions[k].principal_basis, PrincipalValue(k),
                                       PrincipalValue(k))
               q == [r EXCEPT !.principal_basis = basis, !.claimable = 0, !.status = "Cancelled",
                              !.cooldown = HarvestCooldown]
    <3>1. CanRedeem(k) /\ PutBack(k, q, 0, FALSE, total)
      BY <2>4 DEF Cancel, CanCancel, Cancelled, CancelBasis, CancelPays
    <3>2. r \in PositionRecord BY <3>1, RedeemedFacts DEF Inv
    <3> HIDE DEF r, basis, total
    <3>3. q.status = "Cancelled" BY <3>2 DEF PositionRecord
    <3>4. PICK n : positions' = [positions EXCEPT ![k] = n] /\ n.status = "Cancelled"
      <4>1. PICK spent \in 0..(0 + Overhead) :
               positions' = [positions EXCEPT ![k] =
                   [q EXCEPT !.shares = spent, !.invested_fee_basis = spent - 0,
                             !.pending_fees = 0]]
        BY <3>1 DEF PutBack
      <4> DEFINE n == [q EXCEPT !.shares = spent, !.invested_fee_basis = spent - 0,
                                !.pending_fees = 0]
      <4>2. n.status = "Cancelled" BY <3>2, <3>3 DEF PositionRecord
      <4>3. positions' = [positions EXCEPT ![k] = n] BY <4>1
      <4> HIDE DEF n
      <4> QED BY <4>2, <4>3
    <3>5. Protected(positions[k], n, worth'[k]) BY <3>4 DEF Protected
    <3> QED BY <3>4, <3>5, WriteProtected DEF Inv
  <2>5. ASSUME NEW k \in PositionIds, NEW amount, Claim(k, amount)
        PROVE  ProtectStep
    <3> DEFINE q == [positions[k] EXCEPT !.claimable = @ - amount]
    <3>1. positions' = [positions EXCEPT ![k] = q] BY <2>5 DEF Claim, Inv, AccountsOK
    <3>2. q.gross_yield = positions[k].gross_yield BY <1>1 DEF PositionRecord
    <3> HIDE DEF q
    <3> QED BY <1>3, <3>1, <3>2
  <2>6. ASSUME NEW k \in PositionIds, NEW take \in Asked(PrincipalValue(k)), Withdraw(k, take)
        PROVE  ProtectStep
    <3>1. take \in Nat BY <2>6 DEF Asked
    <3> QED BY <2>6, <3>1, WithdrawProtects
  <2> QED BY <1>4, <2>1, <2>2, <2>3, <2>4, <2>5, <2>6 DEF OwnerStep
<1>5. CASE SolverStep
  <2>1. ASSUME NEW k \in PositionIds, Harvest(k)
        PROVE  ProtectStep
    <3> DEFINE r == Redeemed(k)
               q == [r EXCEPT !.cooldown = HarvestCooldown]
    <3>1. CanRedeem(k) /\ PutBack(k, q, positions[k].principal_basis, TRUE, 0)
      BY <2>1 DEF Harvest
    <3>2. r \in PositionRecord BY <3>1, RedeemedFacts DEF Inv
    <3>3. HarvestCooldown \in Nat /\ positions[k].principal_basis \in Nat
      BY <1>1, TimeAssumption DEF PositionRecord
    <3> HIDE DEF r
    <3>4. q \in PositionRecord /\ q.principal_basis \in Nat BY <3>2, <3>3 DEF PositionRecord
    <3> HIDE DEF q
    <3>5. q.principal_basis = positions[k].principal_basis
             => q.principal_basis <= positions[k].principal_basis
      BY <3>3
    <3> QED BY <3>1, <3>3, <3>4, <3>5, PutBackProtects DEF Inv
  <2>2. ASSUME NEW k \in PositionIds, AutoPacks(k)
        PROVE  ProtectStep
    <3>1. PICK remainder, total :
             positions' = [positions EXCEPT ![k] =
                 [positions[k] EXCEPT !.claimable = remainder, !.allocated_yield = @ + total,
                                      !.cooldown = HarvestCooldown]]
      BY <1>1, <2>2 DEF AutoPacks, PositionRecord, Inv, AccountsOK
    <3> DEFINE q == [positions[k] EXCEPT !.claimable = remainder, !.allocated_yield = @ + total,
                                         !.cooldown = HarvestCooldown]
    <3>2. q.gross_yield = positions[k].gross_yield BY <1>1 DEF PositionRecord
    <3>3. positions' = [positions EXCEPT ![k] = q] BY <3>1
    <3> HIDE DEF q
    <3> QED BY <1>3, <3>2, <3>3
  <2>3. ASSUME NEW k \in PositionIds, NEW amount, NEW received, SpendYield(k, amount, received)
        PROVE  ProtectStep
    <3> DEFINE q == [positions[k] EXCEPT !.claimable = @ - amount, !.allocated_yield = @ + amount,
                                         !.stock_spent = @ + amount, !.stock_units = @ + received]
    <3>1. positions' = [positions EXCEPT ![k] = q]
      BY <1>1, <2>3 DEF SpendYield, PositionRecord, Inv, AccountsOK
    <3>2. q.gross_yield = positions[k].gross_yield BY <1>1 DEF PositionRecord
    <3> HIDE DEF q
    <3> QED BY <1>3, <3>1, <3>2
  <2>4. ASSUME NEW k \in PositionIds, NEW price \in Prices, Fill(k, price)
        PROVE  ProtectStep
    <3> DEFINE part == Instalment(k)
               limit == IF positions[k].kind = "Limit" THEN positions[k].target_price ELSE NoLimit
               minimum == OracleMinimum(part.available, price, Unit, positions[k].slippage_bps,
                                        MaxSlippage, limit, multiplier)
    <3>1. /\ Due(k) /\ part.fee # Err /\ BasisAfter(k, part) # Err /\ minimum # Err
          /\ PutBack(k, Filled(k, part, part.available, minimum),
                     PrincipalValue(k) - part.principal, TRUE, part.available)
      BY <2>4 DEF Fill
    <3>2. price \in Nat /\ positions[k].slippage_bps \in Nat /\ limit \in Nat \cup {NoLimit}
      BY <1>1, AmountAssumption DEF PositionRecord
    <3>3. part.available \in Nat BY <3>1, FilledFacts
    <3>4. minimum \in Nat
      <4> HIDE DEF part, limit
      <4> QED BY <3>1, <3>2, <3>3, MinimumCovers
    <3> HIDE DEF minimum
    <3> QED BY <3>1, <3>3, <3>4, FilledProtects
  <2>5. ASSUME NEW k \in PositionIds, NEW age, NEW quoted, NEW received \in Outputs,
               NEW input \in 1..Instalment(k).available, SwapOrder(k, input, age, quoted, received)
        PROVE  ProtectStep
    <3>1. received \in Nat BY AmountAssumption
    <3>2. input \in Nat BY <2>5 DEF SwapOrder
    <3>3. /\ Due(k) /\ Instalment(k).fee # Err /\ BasisAfter(k, Instalment(k)) # Err
          /\ PutBack(k, Filled(k, Instalment(k), input, received),
                     PrincipalValue(k) - Instalment(k).principal, TRUE,
                     input + (Instalment(k).available - input))
      BY <2>5 DEF SwapOrder
    <3> QED BY <3>1, <3>2, <3>3, FilledProtects
  <2> QED BY <1>5, <2>1, <2>2, <2>3, <2>4, <2>5 DEF SolverStep, SettleYield, SwapYield
<1>6. CASE Tick
  <2> SUFFICES ASSUME NEW k \in PositionIds
               PROVE  Protected(positions[k], positions'[k], worth'[k])
    BY DEF ProtectStep
  <2>1. positions'[k] = [positions[k] EXCEPT !.ttl = MostOf(@ - 1, 0),
                            !.next_fill = MostOf(@ - 1, 0), !.cooldown = MostOf(@ - 1, 0)]
    BY <1>6, Zenon DEF Tick
  <2>2. positions'[k].gross_yield = positions[k].gross_yield
    BY <1>1, <2>1 DEF PositionRecord
  <2> QED BY <1>1, <2>2 DEF Protected
<1>7. CASE WorldStep /\ ~Tick
  BY <1>2, <1>7 DEF WorldStep, ConfigureExecution, VaultGain, VaultLoss, SetPenalty
<1>8. CASE UNCHANGED vars BY <1>2, <1>8 DEF vars
<1>9. ASSUME NEW m \in Multipliers, Rescale(m) PROVE ProtectStep BY <1>2, <1>9 DEF Rescale
<1> QED BY <1>4, <1>5, <1>6, <1>7, <1>8, <1>9 DEF Next

\* Yield is realised without touching principal only when the shares that stay
\* are worth the whole basis.  (reinvest in positions.rs, with protect)
THEOREM PrincipalIsProtected == Spec => PrincipalProtected
<1>1. Inv /\ MultiplierOK /\ [Next]_vars =>
         [\A k \in PositionIds :
            /\ positions[k].status = "Active" /\ positions'[k].status = "Active"
            /\ positions'[k].principal_basis = positions[k].principal_basis
            /\ positions'[k].gross_yield > positions[k].gross_yield
            => worth'[k] >= positions'[k].principal_basis]_vars
  BY NextProtects DEF ProtectStep, Protected
<1> QED BY <1>1, PositionsInvariant, MultiplierInvariant, PTL DEF Spec, PrincipalProtected

-----------------------------------------------------------------------------
(* Ways out                                                                 *)

\* Shares that are gone were accounted for, and shares that stay are worth
\* something: without the second a redemption would find no principal, put
\* nothing back, and leave a basis no later redemption accepts.
Rooted(p, w) == (p.shares = 0 => Invested(p) = 0) /\ (p.shares > 0 => w > 0)
RootsInv == \A k \in PositionIds : Rooted(positions[k], worth[k])

LEMMA WriteRooted ==
    ASSUME AccountsOK, RootsInv, NEW k \in PositionIds, NEW q, NEW w, Rooted(q, w),
           positions' = [positions EXCEPT ![k] = q], worth' = [worth EXCEPT ![k] = w]
    PROVE  RootsInv'
<1> SUFFICES ASSUME NEW j \in PositionIds PROVE Rooted(positions'[j], worth'[j])
  BY DEF RootsInv
<1>1. /\ positions'[j] = IF j = k THEN q ELSE positions[j]
      /\ worth'[j] = IF j = k THEN w ELSE worth[j]
  BY DEF AccountsOK
<1> QED BY <1>1 DEF RootsInv

\* An instruction that leaves the vault alone.
LEMMA SameRoots ==
    ASSUME AccountsOK, RootsInv, NEW k \in PositionIds, NEW q, q.shares = positions[k].shares,
           q.principal_basis = positions[k].principal_basis,
           q.invested_fee_basis = positions[k].invested_fee_basis,
           positions' = [positions EXCEPT ![k] = q], UNCHANGED worth
    PROVE  RootsInv'
<1>1. Rooted(q, worth[k]) BY DEF RootsInv, Rooted, Invested
<1>2. worth' = [worth EXCEPT ![k] = worth[k]] BY DEF AccountsOK
<1> QED BY <1>1, <1>2, WriteRooted

\* What is put back is worth something; nothing is put back of no basis only.
LEMMA PutBackRoots ==
    ASSUME AccountsOK, RootsInv, NEW k \in PositionIds, NEW q \in PositionRecord,
           NEW principal \in Nat, NEW protect, NEW out, PutBack(k, q, principal, protect, out),
           principal = 0 => q.principal_basis = 0
    PROVE  RootsInv'
<1>1. PICK spent \in 0..(principal + Overhead), lost \in 0..Rounding :
         /\ IF principal = 0 THEN spent = 0 /\ lost = 0 ELSE spent > lost
         /\ positions' = [positions EXCEPT ![k] =
                 [q EXCEPT !.shares = spent, !.invested_fee_basis = spent - principal,
                           !.pending_fees = 0]]
         /\ worth' = [worth EXCEPT ![k] = spent - lost]
  BY DEF PutBack, Affords
<1> DEFINE n == [q EXCEPT !.shares = spent, !.invested_fee_basis = spent - principal,
                          !.pending_fees = 0]
<1>2. spent \in Nat /\ lost \in Nat BY AmountAssumption
<1>3. /\ n.shares = spent /\ n.principal_basis = q.principal_basis
      /\ n.invested_fee_basis = spent - principal
  BY DEF PositionRecord
<1>4. positions' = [positions EXCEPT ![k] = n] BY <1>1
<1> HIDE DEF n
<1>5. Rooted(n, spent - lost) BY <1>1, <1>2, <1>3 DEF Rooted, Invested
<1> QED BY <1>1, <1>4, <1>5, WriteRooted

\* A position that can be redeemed and has no principal has no basis.
LEMMA NoPrincipal ==
    ASSUME AccountsOK, RootsInv, NEW k \in PositionIds, PrincipalValue(k) = 0
    PROVE  positions[k].principal_basis = 0
<1>1. /\ positions[k].principal_basis \in Nat /\ positions[k].invested_fee_basis \in Nat
      /\ positions[k].shares \in Nat /\ worth[k] \in Nat
  BY PositionFacts DEF PositionRecord
<1>2. Rooted(positions[k], worth[k]) BY DEF RootsInv
<1> QED BY <1>1, <1>2 DEF PrincipalValue, LeastOf, Rooted, Invested

\* A withdrawal of everything, or of nothing from nothing, leaves no basis.
LEMMA AllTaken ==
    ASSUME AccountsOK, RootsInv, NEW k \in PositionIds
    PROVE  RemainingBasis(positions[k].principal_basis, PrincipalValue(k), PrincipalValue(k)) = 0
<1>1. PrincipalValue(k) \in Nat
  BY PositionFacts DEF PrincipalValue, LeastOf, PositionRecord
<1>2. CASE PrincipalValue(k) = 0
  <2>1. positions[k].principal_basis = 0 BY <1>2, NoPrincipal
  <2>2. RemainingBasis(0, 0, 0) = 0 BY DEF RemainingBasis
  <2> QED BY <1>2, <2>1, <2>2
<1>3. CASE PrincipalValue(k) # 0
  <2>1. PICK v \in Nat \ {0} : v = PrincipalValue(k) BY <1>1, <1>3
  <2>2. ~(v > v) /\ ~(v < v) /\ ~(v = 0) /\ v > 0 OBVIOUS
  <2>3. RemainingBasis(positions[k].principal_basis, v, v) = 0 BY <2>2, Zenon DEF RemainingBasis
  <2> QED BY <2>1, <2>3
<1> QED BY <1>2, <1>3

LEMMA FilledRoots ==
    ASSUME Inv, RootsInv, NEW k \in PositionIds, Due(k), NEW spent \in Nat, NEW received \in Nat,
           NEW out, Instalment(k).fee # Err, BasisAfter(k, Instalment(k)) # Err,
           PutBack(k, Filled(k, Instalment(k), spent, received),
                   PrincipalValue(k) - Instalment(k).principal, TRUE, out)
    PROVE  RootsInv'
<1> DEFINE v == PrincipalValue(k)
           part == Instalment(k)
           q == Filled(k, part, spent, received)
<1>1. q \in PositionRecord /\ v - part.principal \in Nat BY FilledFacts
<1>2. v \in Nat BY RedeemedFacts DEF Due, Inv
<1>3. part.principal \in Nat
  <2>1. Redeemed(k).steps \in Nat \ {0}
    <3>1. positions[k].steps \in Nat /\ positions[k].steps > 0
      BY PositionFacts DEF Due, Inv, PositionRecord
    <3> QED BY <3>1, RedeemedFacts DEF Inv, SameTerms, Due
  <2>2. part.principal = v \div Redeemed(k).steps BY DEF Instalment
  <2>3. PICK steps \in Nat \ {0}, value \in Nat : steps = Redeemed(k).steps /\ value = v
    BY <1>2, <2>1
  <2>4. value \div steps \in Nat BY Quotients
  <2> HIDE DEF v, part
  <2> QED BY <2>2, <2>3, <2>4
<1>4. q.principal_basis = BasisAfter(k, part)
  <2>1. Redeemed(k) \in PositionRecord BY RedeemedFacts DEF Due, Inv
  <2> QED BY <2>1, Zenon DEF Filled, PositionRecord
<1>5. v - part.principal = 0 => BasisAfter(k, part) = 0
  <2> SUFFICES ASSUME v - part.principal = 0 PROVE BasisAfter(k, part) = 0 OBVIOUS
  <2>1. part.principal = v
    <3> HIDE DEF v, part
    <3> QED BY <1>2, <1>3
  <2> QED BY <2>1, AllTaken DEF BasisAfter, Inv
<1> HIDE DEF q, v, part
<1> QED BY <1>1, <1>4, <1>5, PutBackRoots DEF Inv, q, v, part

\* A loss leaves something (LossFloor), and no instruction leaves shares worth
\* nothing or a basis without shares.
LEMMA NextRoots ==
    ASSUME LossFloor > 0, Inv, MultiplierOK, RootsInv, [Next]_vars
    PROVE  RootsInv'
<1>1. \A k \in PositionIds : positions[k] \in PositionRecord /\ worth[k] \in Nat
  BY PositionFacts DEF Inv
<1>2. UNCHANGED <<positions, worth>> => RootsInv' BY DEF RootsInv
<1>3. CASE OwnerStep
  <2>1. ASSUME NEW k \in PositionIds, NEW owner \in Keys, NEW amount \in Deposits,
               NEW t \in TermChoices, NEW lost \in 0..Rounding,
               NEW spent \in (amount - Rounding)..amount,
               Create(k, owner, amount, t, spent, lost)
        PROVE  RootsInv'
    <3> DEFINE q == NewPosition(owner, t, config.active_manifest, spent)
               w == worth[k] + spent - lost
    <3>1. positions' = [positions EXCEPT ![k] = q] BY <2>1 DEF Create
    <3>2. worth' = [worth EXCEPT ![k] = w] /\ spent \in 1..amount /\ lost < spent
      BY <1>1, <2>1 DEF Create, Deposited, Inv, AccountsOK
    <3>3. q.shares = spent BY DEF NewPosition, NoPosition
    <3>4. amount \in Nat /\ Rounding \in Nat BY AmountAssumption
    <3> HIDE DEF q
    <3>5. spent \in Nat /\ spent > 0 /\ lost \in Nat /\ w > 0 BY <1>1, <3>2, <3>4
    <3> HIDE DEF w
    <3>6. Rooted(q, w) BY <3>3, <3>5 DEF Rooted
    <3> QED BY <3>1, <3>2, <3>6, WriteRooted DEF Inv
  <2>2. ASSUME NEW k \in PositionIds, NEW amount \in Deposits, NEW lost \in 0..Rounding,
               NEW spent \in (amount - Rounding)..amount, DepositMore(k, amount, spent, lost)
        PROVE  RootsInv'
    <3> DEFINE q == [positions[k] EXCEPT !.principal_basis = @ + spent, !.shares = @ + spent]
               w == worth[k] + spent - lost
    <3>1. positions' = [positions EXCEPT ![k] = q]
      BY <1>1, <2>2 DEF DepositMore, PositionRecord, Inv, AccountsOK
    <3>2. worth' = [worth EXCEPT ![k] = w] /\ spent \in 1..amount /\ lost < spent
      BY <1>1, <2>2 DEF DepositMore, Deposited, Inv, AccountsOK
    <3>3. q.shares = positions[k].shares + spent /\ positions[k].shares \in Nat
      BY <1>1 DEF PositionRecord
    <3>4. amount \in Nat /\ Rounding \in Nat BY AmountAssumption
    <3> HIDE DEF q
    <3>5. spent \in Nat /\ spent > 0 /\ lost \in Nat /\ w > 0 BY <1>1, <3>2, <3>4
    <3> HIDE DEF w
    <3>6. Rooted(q, w) BY <3>3, <3>5 DEF Rooted
    <3> QED BY <3>1, <3>2, <3>6, WriteRooted DEF Inv
  <2>3. ASSUME NEW k \in PositionIds, NEW destination, NEW auto_packs,
               Preferences(k, destination, auto_packs, 1)
        PROVE  RootsInv'
    <3> DEFINE q == [positions[k] EXCEPT !.destination = destination, !.auto_packs = auto_packs,
                                         !.stock_index = 1]
    <3>1. positions' = [positions EXCEPT ![k] = q] /\ UNCHANGED worth
      BY <2>3 DEF Preferences, Inv, AccountsOK
    <3>2. /\ q.shares = positions[k].shares
          /\ q.principal_basis = positions[k].principal_basis
          /\ q.invested_fee_basis = positions[k].invested_fee_basis
      BY <1>1 DEF PositionRecord
    <3> HIDE DEF q
    <3> QED BY <3>1, <3>2, SameRoots DEF Inv
  <2>4. ASSUME NEW k \in PositionIds, NEW take \in Asked(PrincipalValue(k)), Withdraw(k, take)
        PROVE  RootsInv'
    <3> DEFINE v == PrincipalValue(k)
               basis == RemainingBasis(positions[k].principal_basis, v, take)
               q == Withdrawn(k, take)
    <3>1. /\ CanRedeem(k) /\ basis # Err /\ PutBack(k, q, v - take, FALSE, take)
      BY <2>4 DEF Withdraw, CanWithdraw
    <3>2. take \in Nat /\ v \in Nat /\ positions[k].principal_basis \in Nat
      BY <1>1, <2>4, <3>1, RedeemedFacts DEF Asked, Inv, PositionRecord
    <3>3. basis \in Nat /\ take <= v BY <3>1, <3>2, BasisLeft
    <3>4. Redeemed(k) \in PositionRecord BY <3>1, RedeemedFacts DEF Inv
    <3>5. HarvestCooldown \in Nat BY TimeAssumption
    <3>6. q \in PositionRecord /\ q.principal_basis = basis
      <4>1. q = [Redeemed(k) EXCEPT !.principal_basis = basis, !.cooldown = HarvestCooldown]
        BY DEF Withdrawn
      <4> HIDE DEF q, basis
      <4> QED BY <3>3, <3>4, <3>5, <4>1 DEF PositionRecord
    <3>7. v - take = 0 => basis = 0
      <4> SUFFICES ASSUME v - take = 0 PROVE basis = 0 OBVIOUS
      <4>1. take = v
        <5> HIDE DEF v
        <5> QED BY <3>2
      <4> QED BY <4>1, AllTaken DEF Inv
    <3>8. v - take \in Nat BY <3>2, <3>3
    <3> HIDE DEF q, v, basis
    <3> QED BY <3>1, <3>6, <3>7, <3>8, PutBackRoots DEF Inv
  <2>5. ASSUME NEW k \in PositionIds, Cancel(k)
        PROVE  RootsInv'
    <3> DEFINE q == Cancelled(k)
    <3>1. CanRedeem(k) /\ PutBack(k, q, 0, FALSE, CancelPays(k)) BY <2>5 DEF Cancel, CanCancel
    <3>2. Redeemed(k) \in PositionRecord BY <3>1, RedeemedFacts DEF Inv
    <3>3. CancelBasis(k) = 0 /\ HarvestCooldown \in Nat
      BY AllTaken, TimeAssumption DEF Inv, CancelBasis
    <3>4. q \in PositionRecord /\ q.principal_basis = 0
      <4>1. q = [Redeemed(k) EXCEPT !.principal_basis = 0, !.claimable = 0,
                                    !.status = "Cancelled", !.cooldown = HarvestCooldown]
        BY <3>3 DEF Cancelled
      <4>2. PICK r \in PositionRecord : r = Redeemed(k) BY <3>2
      <4>3. PICK r1 \in PositionRecord : r1 = [r EXCEPT !.principal_basis = 0]
        BY DEF PositionRecord
      <4>4. PICK r2 \in PositionRecord : r2 = [r1 EXCEPT !.claimable = 0]
        BY DEF PositionRecord
      <4>5. PICK r3 \in PositionRecord : r3 = [r2 EXCEPT !.status = "Cancelled"]
        BY DEF PositionRecord
      <4>6. [r3 EXCEPT !.cooldown = HarvestCooldown] \in PositionRecord
        BY <3>3 DEF PositionRecord
      <4>7. q = [r3 EXCEPT !.cooldown = HarvestCooldown] BY <4>1, <4>2, <4>3, <4>4, <4>5
      <4>8. q.principal_basis = 0 BY <4>1, <3>2 DEF PositionRecord
      <4> HIDE DEF q
      <4> QED BY <4>6, <4>7, <4>8
    <3> HIDE DEF q
    <3>5. 0 \in Nat OBVIOUS
    <3> QED BY <3>1, <3>4, <3>5, PutBackRoots DEF Inv
  <2>6. ASSUME NEW k \in PositionIds, NEW amount, Claim(k, amount)
        PROVE  RootsInv'
    <3> DEFINE q == [positions[k] EXCEPT !.claimable = @ - amount]
    <3>1. positions' = [positions EXCEPT ![k] = q] /\ UNCHANGED worth
      BY <2>6 DEF Claim, Inv, AccountsOK
    <3>2. /\ q.shares = positions[k].shares
          /\ q.principal_basis = positions[k].principal_basis
          /\ q.invested_fee_basis = positions[k].invested_fee_basis
      BY <1>1 DEF PositionRecord
    <3> HIDE DEF q
    <3> QED BY <3>1, <3>2, SameRoots DEF Inv
  <2> QED BY <1>3, <2>1, <2>2, <2>3, <2>4, <2>5, <2>6 DEF OwnerStep
<1>4. CASE SolverStep
  <2>1. ASSUME NEW k \in PositionIds, Harvest(k)
        PROVE  RootsInv'
    <3> DEFINE q == [Redeemed(k) EXCEPT !.cooldown = HarvestCooldown]
               basis == positions[k].principal_basis
    <3>1. CanRedeem(k) /\ PutBack(k, q, basis, TRUE, 0) BY <2>1 DEF Harvest
    <3>2. /\ Redeemed(k) \in PositionRecord /\ basis \in Nat
          /\ Redeemed(k).principal_basis = basis
      BY <1>1, <3>1, RedeemedFacts DEF Inv, SameTerms, PositionRecord
    <3>3. q \in PositionRecord /\ q.principal_basis = basis
      <4>1. HarvestCooldown \in Nat BY TimeAssumption
      <4> HIDE DEF basis
      <4> QED BY <3>2, <4>1 DEF PositionRecord
    <3> HIDE DEF q, basis
    <3> QED BY <3>1, <3>2, <3>3, PutBackRoots DEF Inv
  <2>2. ASSUME NEW k \in PositionIds, AutoPacks(k)
        PROVE  RootsInv'
    <3>1. PICK remainder, total :
             positions' = [positions EXCEPT ![k] =
                 [positions[k] EXCEPT !.claimable = remainder, !.allocated_yield = @ + total,
                                      !.cooldown = HarvestCooldown]]
      BY <1>1, <2>2 DEF AutoPacks, PositionRecord, Inv, AccountsOK
    <3> DEFINE q == [positions[k] EXCEPT !.claimable = remainder, !.allocated_yield = @ + total,
                                         !.cooldown = HarvestCooldown]
    <3>2. /\ q.shares = positions[k].shares
          /\ q.principal_basis = positions[k].principal_basis
          /\ q.invested_fee_basis = positions[k].invested_fee_basis
      BY <1>1 DEF PositionRecord
    <3>3. positions' = [positions EXCEPT ![k] = q] BY <3>1
    <3>4. UNCHANGED worth BY <2>2 DEF AutoPacks
    <3> HIDE DEF q
    <3> QED BY <3>2, <3>3, <3>4, SameRoots DEF Inv
  <2>3. ASSUME NEW k \in PositionIds, NEW amount, NEW received, SpendYield(k, amount, received)
        PROVE  RootsInv'
    <3> DEFINE q == [positions[k] EXCEPT !.claimable = @ - amount, !.allocated_yield = @ + amount,
                                         !.stock_spent = @ + amount, !.stock_units = @ + received]
    <3>1. positions' = [positions EXCEPT ![k] = q] /\ UNCHANGED worth
      BY <1>1, <2>3 DEF SpendYield, PositionRecord, Inv, AccountsOK
    <3>2. /\ q.shares = positions[k].shares
          /\ q.principal_basis = positions[k].principal_basis
          /\ q.invested_fee_basis = positions[k].invested_fee_basis
      BY <1>1 DEF PositionRecord
    <3> HIDE DEF q
    <3> QED BY <3>1, <3>2, SameRoots DEF Inv
  <2>4. ASSUME NEW k \in PositionIds, NEW price \in Prices, Fill(k, price)
        PROVE  RootsInv'
    <3> DEFINE part == Instalment(k)
               limit == IF positions[k].kind = "Limit" THEN positions[k].target_price ELSE NoLimit
               minimum == OracleMinimum(part.available, price, Unit, positions[k].slippage_bps,
                                        MaxSlippage, limit, multiplier)
    <3>1. /\ Due(k) /\ part.fee # Err /\ BasisAfter(k, part) # Err /\ minimum # Err
          /\ PutBack(k, Filled(k, part, part.available, minimum),
                     PrincipalValue(k) - part.principal, TRUE, part.available)
      BY <2>4 DEF Fill
    <3>2. price \in Nat /\ positions[k].slippage_bps \in Nat /\ limit \in Nat \cup {NoLimit}
      BY <1>1, AmountAssumption DEF PositionRecord
    <3>3. part.available \in Nat BY <3>1, FilledFacts
    <3>4. minimum \in Nat
      <4> HIDE DEF part, limit
      <4> QED BY <3>1, <3>2, <3>3, MinimumCovers
    <3> HIDE DEF minimum
    <3> QED BY <3>1, <3>3, <3>4, FilledRoots
  <2>5. ASSUME NEW k \in PositionIds, NEW age, NEW quoted, NEW received \in Outputs,
               NEW input \in 1..Instalment(k).available, SwapOrder(k, input, age, quoted, received)
        PROVE  RootsInv'
    <3>1. received \in Nat BY AmountAssumption
    <3>2. input \in Nat BY <2>5 DEF SwapOrder
    <3>3. /\ Due(k) /\ Instalment(k).fee # Err /\ BasisAfter(k, Instalment(k)) # Err
          /\ PutBack(k, Filled(k, Instalment(k), input, received),
                     PrincipalValue(k) - Instalment(k).principal, TRUE,
                     input + (Instalment(k).available - input))
      BY <2>5 DEF SwapOrder
    <3> QED BY <3>1, <3>2, <3>3, FilledRoots
  <2> QED BY <1>4, <2>1, <2>2, <2>3, <2>4, <2>5 DEF SolverStep, SettleYield, SwapYield
<1>5. CASE Tick
  <2> SUFFICES ASSUME NEW k \in PositionIds PROVE Rooted(positions'[k], worth'[k])
    BY DEF RootsInv
  <2>1. positions'[k] = [positions[k] EXCEPT !.ttl = MostOf(@ - 1, 0),
                            !.next_fill = MostOf(@ - 1, 0), !.cooldown = MostOf(@ - 1, 0)]
    BY <1>5, Zenon DEF Tick
  <2>2. /\ positions'[k].shares = positions[k].shares
        /\ positions'[k].principal_basis = positions[k].principal_basis
        /\ positions'[k].invested_fee_basis = positions[k].invested_fee_basis
    BY <1>1, <2>1 DEF PositionRecord
  <2>3. worth' = worth BY <1>5 DEF Tick
  <2> QED BY <2>2, <2>3 DEF Rooted, Invested, RootsInv
<1>6. ASSUME NEW k \in PositionIds, NEW n \in Moves, VaultGain(k, n) \/ VaultLoss(k, n)
      PROVE  RootsInv'
  <2>1. n \in Nat /\ n > 0 /\ LossFloor \in Nat BY AmountAssumption
  <2>2. positions[k].shares > 0 /\ UNCHANGED positions BY <1>6 DEF VaultGain, VaultLoss
  <2>3. PICK w \in Nat : worth' = [worth EXCEPT ![k] = w] /\ w > 0
    <3>1. CASE VaultGain(k, n)
      <4>1. worth[k] + n \in Nat /\ worth[k] + n > 0 BY <1>1, <2>1
      <4> QED BY <3>1, <4>1 DEF VaultGain
    <3>2. CASE VaultLoss(k, n)
      <4>1. worth[k] - n \in Nat /\ worth[k] - n > 0 BY <1>1, <2>1, <3>2 DEF VaultLoss
      <4> QED BY <3>2, <4>1 DEF VaultLoss
    <3> QED BY <1>6, <3>1, <3>2
  <2>4. positions[k].shares \in Nat BY <1>1 DEF PositionRecord
  <2>5. Rooted(positions[k], w) BY <2>2, <2>3, <2>4 DEF Rooted
  <2>6. positions' = [positions EXCEPT ![k] = positions[k]] BY <2>2 DEF Inv, AccountsOK
  <2> QED BY <2>3, <2>5, <2>6, WriteRooted DEF Inv
<1>7. CASE WorldStep /\ ~Tick
  BY <1>2, <1>6, <1>7 DEF WorldStep, ConfigureExecution, SetPenalty
<1>8. CASE UNCHANGED vars BY <1>2, <1>8 DEF vars
<1>9. ASSUME NEW m \in Multipliers, Rescale(m) PROVE RootsInv' BY <1>2, <1>9 DEF Rescale, cash
<1> QED BY <1>3, <1>4, <1>5, <1>7, <1>8, <1>9 DEF Next

\* The share of the yield is never more than the yield, whatever was carried.
LEMMA AlwaysRealizable ==
    ASSUME NEW w \in Nat, NEW basis \in Nat, NEW carry \in 0..(BPS - 1)
    PROVE  Realizable(w, basis, YieldShareBps, carry)
<1>1. /\ BPS \in Nat \ {0} /\ YieldShareBps \in Nat /\ YieldShareBps <= BPS
  BY BPSAssumption, RateAssumption
<1>2. PICK g \in Nat : g = Gross(w, basis)
  <2>1. Gross(w, basis) \in Nat BY DEF Gross, MostOf
  <2> QED BY <2>1
<1>3. PICK num \in Nat : num = g * YieldShareBps + carry BY <1>1
<1>4. num <= g * BPS + carry
  <2>1. g * YieldShareBps <= g * BPS /\ g * YieldShareBps \in Nat /\ g * BPS \in Nat BY <1>1
  <2> QED BY <1>1, <1>3, <2>1
<1>5. num \div BPS <= g
  <2>1. /\ num \div BPS \in Nat /\ num % BPS \in 0..(BPS - 1)
        /\ num = (num \div BPS) * BPS + (num % BPS)
    BY <1>1, Quotients
  <2>2. PICK q \in Nat : q = num \div BPS BY <2>1
  <2>3. SUFFICES ASSUME q > g PROVE FALSE BY <2>2
  <2>4. PICK d \in Nat : q = g + 1 + d
    <3>1. q - (g + 1) \in Nat BY <2>3
    <3> QED BY <3>1
  <2>5. q * BPS = g * BPS + BPS + d * BPS /\ d * BPS \in Nat /\ g * BPS \in Nat BY <1>1, <2>4
  <2> QED BY <1>1, <1>4, <2>1, <2>2, <2>5
<1>6. Realize(w, basis, YieldShareBps, carry).net = g - (num \div BPS)
  BY <1>2, <1>3 DEF Realize, FeeNumerator
<1>7. num \div BPS \in Nat BY <1>1, <1>3, Quotients
<1> QED BY <1>1, <1>2, <1>5, <1>6, <1>7 DEF Realizable

\* A payment out of what came in, with nothing put back, is affordable.
LEMMA AffordsAll ==
    ASSUME NEW k, NEW q, NEW out, position_cash[k] + worth[k] >= 0 + q.pending_fees + out
    PROVE  CanPutBack(k, q, 0, FALSE, out)
<1>1. 0 \in 0..(0 + Overhead) /\ 0 \in 0..Rounding BY AmountAssumption
<1>2. Affords(k, q, 0, FALSE, out, 0, 0) BY DEF Affords
<1> QED BY <1>1, <1>2 DEF CanPutBack

LEMMA ExitsOfRoots ==
    ASSUME Inv, RootsInv
    PROVE  ExitsStayOpen
<1> SUFFICES ASSUME NEW k \in PositionIds, positions[k].status = "Active"
             PROVE  /\ positions[k].kind # "Earn" => CanCancel(k)
                    /\ positions[k].kind = "Earn" /\ PrincipalValue(k) > 0
                          => CanWithdraw(k, PrincipalValue(k))
                    /\ positions[k].claimable > 0 => CanClaim(k, positions[k].claimable)
  BY DEF ExitsStayOpen
<1> DEFINE p == positions[k]
           v == PrincipalValue(k)
           r == Redeemed(k)
<1>1. /\ p \in PositionRecord /\ worth[k] \in Nat /\ position_cash[k] = p.claimable
      /\ p.principal_basis \in Nat /\ p.invested_fee_basis \in Nat /\ p.claimable \in Nat
      /\ p.fee_carry \in 0..(BPS - 1)
  BY PositionFacts DEF Inv, PositionGood, PositionRecord
<1>2. CanRedeem(k)
  <2>1. Invested(p) \in Nat BY <1>1 DEF Invested
  <2>2. Realizable(worth[k], Invested(p), YieldShareBps, p.fee_carry)
    <3> HIDE DEF p
    <3> QED BY <1>1, <2>1, AlwaysRealizable
  <2> QED BY <2>2 DEF CanRedeem, RootsInv, Rooted
<1>3. /\ r \in PositionRecord /\ v \in Nat
      /\ r.claimable + r.pending_fees + v = position_cash[k] + worth[k]
  BY <1>2, RedeemedFacts DEF Inv
<1>4. r.claimable \in Nat /\ r.pending_fees \in Nat BY <1>3 DEF PositionRecord
<1>5. RemainingBasis(p.principal_basis, v, v) = 0 BY AllTaken DEF Inv
<1>6. 0 # Err BY DEF Err
<1>7. p.kind # "Earn" => CanCancel(k)
  <2>1. Cancelled(k).pending_fees = r.pending_fees BY <1>3 DEF Cancelled, PositionRecord
  <2>2. CancelPays(k) = v + r.claimable BY DEF CancelPays
  <2> HIDE DEF v, r
  <2>3. position_cash[k] + worth[k] >= 0 + Cancelled(k).pending_fees + CancelPays(k)
    BY <1>1, <1>3, <1>4, <2>1, <2>2
  <2> QED BY <1>2, <1>5, <1>6, <2>3, AffordsAll DEF CanCancel, CancelBasis, v
<1>8. p.kind = "Earn" /\ v > 0 => CanWithdraw(k, v)
  <2>1. Withdrawn(k, v).pending_fees = r.pending_fees BY <1>3 DEF Withdrawn, PositionRecord
  <2>2. v - v = 0 BY <1>3
  <2> HIDE DEF v, r
  <2>3. position_cash[k] + worth[k] >= 0 + Withdrawn(k, v).pending_fees + v
    BY <1>1, <1>3, <1>4, <2>1
  <2>4. CanPutBack(k, Withdrawn(k, v), v - v, FALSE, v) BY <2>2, <2>3, AffordsAll
  <2> QED BY <1>2, <1>5, <1>6, <2>4 DEF CanWithdraw, v
<1>9. p.claimable > 0 => CanClaim(k, p.claimable) BY <1>1 DEF CanClaim
<1> QED BY <1>7, <1>8, <1>9

\* If losses always leave a position something, its owner can cancel an order,
\* withdraw all principal and claim all yield, whatever the administrators and
\* the vault's curator do.  LossFloor is needed: see OrdersCanBeCancelled.
\* (withdraw, claim and redeem_all in positions.rs)
THEOREM WaysOutAreOpen ==
    ASSUME LossFloor > 0
    PROVE  Spec => []ExitsStayOpen
<1>1. Init => RootsInv
  BY DEF Init, RootsInv, Rooted, Invested, NoPosition
<1>2. Inv /\ MultiplierOK /\ RootsInv /\ [Next]_vars => RootsInv' BY NextRoots
<1>3. Inv /\ RootsInv => ExitsStayOpen BY ExitsOfRoots
<1> QED BY <1>1, <1>2, <1>3, PositionsInvariant, MultiplierInvariant, PTL DEF Spec
=============================================================================
