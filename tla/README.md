# Henar in TLA+

Henar sells, saves in and plays for tokenized stocks on Solana.  What happens to
users' money is decided in four places of the repository:

* the **Stockroom program** (`programs/stockroom`, Rust/Anchor) and the arithmetic
  it delegates to (`crates/stockroom-math`);
* the **solver worker** (`services/solver`), which keeps submitting transactions for
  packs and positions;
* the **router** (`packages/router-core`, `packages/execution-guard`,
  `packages/tx-builder`, `apps/router`), which quotes an order, splits it, promises a
  minimum, plans the transaction and submits it;
* the parts of the **web application** (`src`) that build, review, sign and send:
  the protocol dialog, the trade ticket, and the RPC gate and read cache under them.

This directory models these, checks them with TLC on small instances, and proves
with TLAPS, for every instance, the safety properties of the program, of the worker
and of the services, the rounding rules of the arithmetic, and what the router's split,
selection and plan promise.  The rest of the repository renders pages and fetches market data.

Paths below are relative to the repository (`src/` in `PROJECT.json`).

    tlc -workers 2 -config MCPacksLucky.cfg MCPacks     # one run
    tlapm PacksProofs.tla                               # one proof module

## Inventory

### Stockroom program: configuration and manifests
*State*: one `Config` (admin, pending admin, `paused`, enabled products, pilot
owner, admission limit and admitted sum, active manifest) and one account per
manifest of stocks (`sealed`, list of mints with `pack_eligible`).
*Operations*: initialize, set_paused, configure_access, propose/accept_admin,
create/append/activate_manifest; `Config::admit` is called by every instruction
that takes new money.
*Hard*: the terms can be reconfigured between any two deposits; a manifest is
assembled over several transactions; packs hold indices into a manifest that may
no longer be active.
*Correct when*: admitted money never exceeds the limit in force, an active
manifest is sealed and never changes again, no manifest repeats a mint, access
terms change only under pause.

### Stockroom program: packs and Lucky
*State*: `PackBatch` and `Pack` accounts with their USDC token accounts, the ORAO
draw of a pack, the Lucky pool, the execution settings.
*Operations*: buy, buy from yield, gift, refund a batch, open, resolve, settle
(by a solver with stock, or by a routed swap), refund a pack; Lucky open, resolve,
bank, roll over, refund; configure, fund and drain the pool.
*Interaction*: draws are answered by an external oracle program, at any time or
never; solvers, owners, the house and the administrator submit independently.
*Hard*: late answers racing refunds at a deadline, the house moving the reserve
between a roll and its resolution, the fee charged at one of two moments, up to
three partial states of a roll.
*Correct when*: each account holds exactly what it may still have to pay, nobody
chooses between an answer and a refund, and every pack can end without the house.

### Stockroom program: positions
*State*: per position its terms, shares in a Kamino vault, principal basis, fee
basis, claimable yield, fee carry and fill counters, and its USDC account.
*Operations*: create, deposit, withdraw, cancel, claim, harvest, automatic packs,
yield spent on stock (solver or swap), order fill (oracle price or swap).
*Interaction*: every redemption and deposit is a call into the vault, which
rounds, gains, may lose, and may charge a withdrawal penalty.
*Hard*: redeem all, pay fees and reinvest happen in one instruction with
several early returns; yield must be told from principal that recovers; limits are per
displayed unit, and the issuer may change the display multiplier between order and fill.
*Correct when*: accounts match books, fees are exact however the yield is split,
limits hold, and an owner can always leave.

### stockroom-math
Pure integer arithmetic with checked overflow: fees with a carried remainder,
basis released on a withdrawal, pack allocation, the Lucky payout table, price
ratios, price caps, scaled limits.  *Correct when* every rounding goes to the side
the crate says it does.

### Solver worker
*State*: `worker.lock`, `journal.json`, the process's memory.
*Operations*: start, list jobs, reconcile the pending signatures of a job, build
and record and send, await, put off; stop and crash.
*Interaction*: the file system, and an RPC endpoint whose answers may be late,
missing or about a fork.
*Hard*: a crash between any two awaited calls; a transaction nobody reports but
that may still be included; a second process; work done by somebody else.
*Correct when* at most one transaction of a job can still take effect, and a job
is never held back for ever.

### Router core, execution guard and planner
*State*: none; a request is a function of the quotes of the venues.
*Operations*: rank single quotes, split an order over native pools
(`optimizeSplit`, `refineBoundary`), compose a two-hop path, cap and floor each leg
(`execution-guard`), select between single, split and path (`api.ts`), plan the
transaction (`planExecution`).
*Hard*: fees, floors and slippage are rounded leg by leg and promised as a whole;
a split needs every leg's guard; what is compared must be what is paid.
*Correct when* a split spends the order exactly and is never worse than one venue,
the plan keeps the promised minimum and fee, and the selected route is executable
when any is.

### Router service: state worker
*State*: the pool store with the slot of each entry, `currentSlot`, `syncSlot`,
`ready` and the stream's health; the subscription.
*Operations*: start, load a snapshot, update, disconnect and connect, `stateFor`.
*Interaction*: an RPC node for snapshots and a WebSocket for updates, in any order.
*Hard*: two snapshots may overlap; rows are read after the slot they are labelled with
and updates arrive between; a connection drops during either; an account may be missing
from a snapshot or not decode, and its pool then stays unsynced.
*Correct when* what is served is no older than the bound, and when all mail has
arrived the store is the chain.

### RPC gate and read cache
*State*: `active` and the queue of the gate; the value, its expiry and the read
under way of a cache key.
*Operations*: acquire, fetch, retry after a 429, release; call (fresh or not), expire,
evict, settle.
*Hard*: the woken waiter counts itself in its continuation, so a caller can slip in
before it; a refresh that fails puts the old value back over a newer one.
*Correct when* nobody waits beside a free slot, and no caller is told something
older than what was told before it asked.

### Submission policy (`tx-builder/submit.ts`)
*State*: the ladder of private submitters, the attempt, the collected failures.
*Operations*: submit to the next endpoint, retry or give up, check for expiry, fall
back to the public endpoint.
*Hard*: an endpoint may accept and its answer may be lost.
*Correct when* the public endpoint is the last resort of a policy that allows it.

### Protocol dialog and trade ticket (web application)
*State*: the wallet, the intent, the reviewed transaction, the generation of the
dialog; the ticket's terms, the market's and the router's review, the
operation under way.
*Operations*: review, confirm, re-prepare, close, change of wallet; change terms,
get a quote, buy on the market or on the router's route.
*Hard*: every `await` lets the wallet change, the user click and other answers come;
state captured before an await is used after it.
*Correct when* what is signed and sent is what is shown; of a router's route, which the
router builds, the dialog compares owner and amount.

### Everything else
| component | state and role | hard behaviour |
|---|---|---|
| `tx-builder/reconcile.ts`, `simulation.ts`, encoding | execution tracker, simulation gate, instruction building | reorderings of reports (below); otherwise pure |
| `http-retry.ts`, request caches, `CircuitBreaker`, `RouterHealth` | retries and counters around single requests | little that interleaves |
| venue adapters | quote formulas and decoding of third-party pools | numeric only |
| `packages/dbc-studio`, `src/lib/strategies` | launch configuration, planning | numeric only |
| `src/lib/protocol` | account builders, confirmation | `awaitConfirmation` (modelled with the worker) |
| pages, market data, issuers, admin | rendering, API routes, read-only fetching | none that touches the state above |
| `scripts`, `config`, `docs`, `supabase` | operations, data, documents | none |

`PROJECT.json` lists every component with its status, and the hazards of the
code at the lines where they bite.

## Modules

| module | models | relation |
|---|---|---|
| `StockroomMath` | `crates/stockroom-math`, price checks of `oracle.rs`, limits under a display multiplier (`oracle.rs`, `position_swap.rs`) | operators only; `Err` stands for `Result::Err` |
| `StockroomConfig` | configuration and manifests | state and actions of the configuration, composed by the next three |
| `Governance` | the configuration alone, with deposits that call `Config::admit` | extends `StockroomConfig` |
| `Packs` | `packs.rs`, `lucky.rs`, `pack_swap.rs` | extends `StockroomConfig` and `StockroomMath` |
| `PackPromise` | nothing: the abstract promise of a pack | implemented by `Packs` (`PromiseKept`) |
| `Positions` | `positions.rs`, `position_swap.rs`, `kamino.rs` | extends `StockroomConfig` and `StockroomMath` |
| `SolverWorker` | `services/solver`, `awaitConfirmation` | stands alone; the program is what is `due` |
| `SplitRoute` | `router-core/split.ts` | operators only |
| `RouteTerms` | ranking, guard, path, selection and plan of a request | operators only; extends `SplitRoute` |
| `StateWorker` | `apps/router`: `worker.ts`, `state-store.ts`, `server.ts` | stands alone |
| `RpcGate`, `ReadCache` | `src/lib/rpc-limiter.ts`, one key of `src/lib/read-cache.ts` | each alone |
| `Submission` | `submitWithPolicy` | stands alone |
| `ProtocolProvider`, `TradeTicket` | the dialog of `components/protocol-provider.tsx`, the market ticket of `components/stockroom.tsx` | each alone |
| `Rules` | nothing: the questions put to the operators of `StockroomMath` and `RouteTerms`, the reference definitions of the answers, and the properties | extends both |
| `MCRules` | the small venues, orders and curves of the questions | extends `Rules` |
| `MCServices` | the off-chain parts, one of them per behaviour (`focus`) | extends `MCSolverWorker` and the six services |
| `MCGovernance`, `MCPacks`, `MCPositions`, `MCSolverWorker` | instances, and properties that speak of sums, of progress or (`MCPositions`) of ENABLED | |
| `ConfigProofs`, `GovernanceProofs`, `PacksProofs`, `PositionsProofs`, `WorkerProofs`, `ClientProofs`, `RuleProofs` | theorems | each extends the modules it is about |
| `MathProofs` | lemmas on division, powers and sums that the other proofs share | extends `StockroomMath` |

`Packs` and `Positions` do not share a run: the program's packs and positions
meet only in the configuration, in `claimable` yield (`FromYield` in `Packs`
consumes it, `AutoPacks` in `Positions` produces packs) and in the treasury.  The parts
of `MCServices` share no state in the code either, and a behaviour runs one of them.

**How state corresponds: the program.**  An account is a record under a function from ids
(`batches`, `packs`, `positions`); its token account is a separate function
(`batch_cash`, `pack_cash`, `position_cash`), because the code moves the two in
separate statements and the escrow properties compare them.  One Anchor
instruction is one action: the runtime makes it atomic and a failing `require!`
or checked operation undoes it, so a failed instruction is a disabled action.
Deadlines are countdowns (`ttl`): `Tick` lowers them, and a comparison with the
clock is a comparison with 0.  A price or a quote is an input of the action that
uses it, of the age that action demands.  Arithmetic that can overflow goes
through `Add`, `Sub`, `Mul`, which return `Err` beyond `U64MAX`; where an operation
may answer `Err`, the action that uses it has the guard `# Err`.

The vault of `Positions` is external: `worth[k]` is what the shares of `k` would
pay now; `VaultGain` and `VaultLoss` move it, `Rounding` and `SetPenalty` are what
it may keep.  The stock's mint has a display
multiplier `mantissa * 2^shift`, which `Rescale` sets to another of `Multipliers` at any
time.  The draw of `Packs` is external too: `Fulfil` answers a request with
any bucket, at any time, including after its deadline.

**The worker and the services.**  One action is what runs between two awaits, or one file
write.  Solana is external: in `SolverWorker` a sent transaction may be processed while
its blockhash is valid, a fork may drop what is only processed, and a blockhash
expires.  `mishaps` counts crashes, failed calls, forks and work done by others.  In
`StateWorker` an account's content is the slot it was read at (`asOf`), next to the
slot it is labelled with (`slot`); a change may break an account, which then has no row in a
snapshot or does not decode until a later change (`chain.broken`, `Readable`).  `ReadCache`
knows a value by the version of the source it shows.  `Submission` keeps per
submitter the attempts and the last answer, lost answers included.  In the two
browser components a generation counter is kept as what it is compared for: a
call knows whether its generation is still the current one.  A change of the
wallet renders at once; its effect is a step of its own that runs before the next
click, and continuations may come before it.

**The router's operators.**  A curve is the function from units to output that a
venue's quote samples, `NoFill` where it answers null.  A venue adds its impact and one
Boolean for every guard check that is not about price (freshness, registration,
reference prices, extensions).  An ask has one intermediate.  The order of the
curves is the order of the list.  Whether the instructions fit a packet is not
modelled, so every plan of a modelled kind is taken to fit.

## Runs

| run | module / distinct states | question |
|---|---|---|
| `math` | `MCRules`, 31,645 | does each rule of the crate and of the router meet its reference definition on every bounded input |
| `governance` | `MCGovernance`, 59,568 | do budget, sealing and access terms survive every order of two admins' instructions and users' deposits |
| `packs_plain` | `MCPacks`, 533,192 up to symmetry | plain packs under two manifests: purchases, gifts, refunds, draws, settlement and expiry, with an administrator at work |
| `packs_lucky` | `MCPacks`, 159,204 | Lucky rounds with late answers and a house that moves the pool; refinement of `PackPromise`; every opened pack ends |
| `positions_earn` | `MCPositions`, 251,440 | an Earn position over a vault that gains and loses, with rounding fees |
| `positions_orders` | `MCPositions`, 187,152 | Limit and DCA orders filled, swapped or cancelled over a vault that rounds and charges penalties, while the display multiplier changes |
| `worker` | `MCSolverWorker`, 432,031 up to symmetry | two processes, crashes, stale locks, forks, expiries, lost answers |
| `services` | `MCServices`, 400,010 | the off-chain parts one at a time: freshness, progress, and that what is signed is what is shown |
| `positions_limit` | `MCPositions`, violation | does the limit include the fee, as the release note says |
| `positions_loss` | `MCPositions`, violation | can an order always be cancelled, as the docs say |
| `net_floor` | `MCRules`, violation | is a sell's net minimum what the user is left with |
| `resync` | `StateWorker`, violation | does every reconnection require a full resync |

Every property has a mutant: the operator `Mutant...` placed before the
definition it replaces is a plausible bug in that code, and the property fails
with it.

### Bounds and why they are enough

* **Rates.**  `BPS` is 5 or 10 instead of 10,000, and prices are below ten units, so
  that fees round in most states; the properties about fees compare numerators, so
  rounding is where they could fail.
* **Packs.**  Two batches are what a gift, or a yield batch next to a purchased one,
  needs; two packs per batch are what `next_open` needs to matter.  Lucky buckets are
  chosen so that a draw loses and wins (0 and 96); `math` covers all 100 buckets.
  `packs_plain` has two manifests that share stock A and index 2 but not what is eligible, and
  only one of them is active at a time: batches are bought under either and drawn after the
  other was activated.  Batches and manifests are interchangeable, hence the symmetry.
  `PackTimeout = 1` gives a moment before and one after each deadline; more ticks add
  no order of events.
* **House.**  `HouseCash = 12` covers one maximum reward and is short of two, so the pool
  can be too small.
* **Positions.**  One position: instructions name a single position and share only the
  configuration, the treasury and the vault's cash.  Gains and losses of 3 and withdrawals
  of 2 do not divide 5, the fee rate's denominator.  Two DCA steps give a first, a
  last, and a remainder.  `LossFloor = 1` keeps a share worth something;
  `positions_loss` sets it to 0.  `positions_orders` starts with a display multiplier of 1 or
  5/4 and changes it at will: under 5/4 the limit of 2 is 2.5, which one path rounds to 3 and
  the other to 2.  `math` takes shifts from -3 to 1.
* **Router.**  Orders of 1 to 40 units in a whole of 100 shares; constant-product pools
  deep and thin enough that a split helps, hurts or does not fill, a barred pool, an
  external venue better or worse than the native ones and one that is only shown, with
  or without a path through USDC.  `SearchFindsTheBest` asks about every pair of concave
  curves of length 6 with marginal outputs up to 3; `SearchIsOptimal` is the same for
  any length that the steps of the search suffice for.
* **Worker.**  Two processes, one pack that needs two transactions and one position that
  needs one; two mishaps, so that a crash can follow a fork or another crash.  A signature
  is used anew once it is dead and named nowhere, so four are never exhausted in a way
  that hides a behaviour.
* **Services.**  Two pools and two overlapping snapshots over three slots with two drops (a snapshot
  whose slot, rows and connection all differ, or an account that breaks and is repaired around
  one); four callers for a limit of two, each
  refused twice, so that two wait while two slip in; two readers and two reads over four
  versions, so that a read can be overtaken by one begun later; two private submitters of two
  attempts; two wallets and two intents with two calls under way; two traders, cash and
  two tokens.  The solver's part has one process and one job, without symmetry, which
  liveness does not allow.

### Fairness

* `packs_lucky` (`PatientSpec`): time passes, and for each pack somebody keeps submitting the
  instructions by which it can leave (refund, Lucky refund, bank, resolve of an answered
  draw).  The owner, or for resolve anybody, may do so.  Nothing is assumed of the
  house, the administrator, solvers or the draw.
* `services` (`ServicesSpec`), solver: the process manager restarts the worker and it makes its
  next call (WF of `WorkerStep`); the operator clears a stale lock, as `MAINNET.md` tells him
  (WF of `ClearLock`); `nextAttempt` is reached and blockhashes expire (WF of `Elapse`,
  `Expire`); of transactions recorded again and again one is sent while its blockhash is
  valid, and of those the network includes one (SF of `Send` and `Include`): a blockhash
  lives about a minute, building and sending take seconds.  A transaction that was
  processed is confirmed unless a fork drops it (WF of `Confirm`).
* `services`, router: the process is started and the provider reconnects (WF of `WorkerProgress`),
  of the calls of a snapshot each is answered (WF of `LoadReturn`), and an update under way
  on a connection that holds is delivered (WF of `HearUpdate`), without which a pool whose
  row was missing could stay unsynced after its account came back.  Updates may still come in
  any order, and be lost with their connection.

## What the runs found

1. **`positions_limit`.**  `docs/ORACLE_FREE_RELEASE_2026-09-13.md:20`: "Limit prices include the
   trading fee".  `position_swap.rs:263` adds the fee to the cost it compares; the oracle
   fill (`positions.rs:657`) compares the budget after the fee.  A limit order filled on
   that path may cost its owner more per unit, fee included, than the target price.
   `LimitRespected`, the same statement without the fee, holds on both paths up to the
   rounding of the scaled limit, and exactly under a whole multiplier, as in this run.
2. **`positions_loss`.**  `docs/EARN-PACKS.md:11` says that cancellation redeems tracked shares
   and pays principal and yield.  If the vault pays nothing for a DCA order's shares while
   yield is left to spend, a fill burns the shares and keeps the basis; `redeem_all`
   (`positions.rs:253`) then answers `StockroomError::State` to every later call, cancel
   included.  It takes a total loss of what the vault pays for the position.  Short of that,
   `ExitsStayOpen` holds, and is proved (`WaysOutAreOpen`).
3. **`net_floor`.**  `execution-guard/src/index.ts:103` and `tx-builder/src/simulation.ts:64-65` speak
   of the net minimum of a sell as what the user is left with.  The plan states it as the
   legs' floors less the fee on those floors (`planner.ts:214`), but the transaction
   transfers the fee on the expected output (`planner.ts:218`).  A sell that fills at its
   floors leaves less than the stated minimum.  `PlanKeepsThePromise` says what does hold:
   the plan states the minimum that the answer promised.
4. **`resync`.**  `worker.ts:8-10`: "requires a full resync (every pool refreshed) before serving
   again".  A connection that is lost and comes back while the first snapshot is under
   way starts no resync, because `syncSlot` is not set yet (`worker.ts:159`).  What is served
   then is still within the staleness bound, which `ServedIsRecent` shows and proves.

Met while modelling, and not stated as a run's property:

* `stockroom-math/src/lib.rs:255`: "A maximum execution price rounds down, so rounding cannot relax
  a user's limit".  The routed swap scales the limit with the function this says it of; the
  oracle fill scales it with the one that rounds up (`oracle.rs:85-87`).  Under a fractional
  multiplier such a fill may cost up to, but not including, one base unit of USDC (a
  millionth of a dollar) more per stock unit than the scaled limit.  `LimitRespected` and
  `ScaledLimitsHold` state exactly that allowance for the oracle path; for the routed swap
  `ScaledLimitsHold` has none.
* `api.ts:541-546` says its ladder of smaller plans "ends at a single venue, which always fits";
  the ladder lowers `maxLegs` of the split, and the path of the same request is tried as it was.
* `refineBoundary` stops when both probes are equal and never evaluates "all to the first
  leg"; orders of fewer units than the granularity are not split.  On curves that
  are concave and in use at both venues neither loses anything (`SearchFindsTheBest`), which
  is proved: see below what the proof found of the end of the interval and of the 60 steps.
* The curves of a split are in the order in which venues answered, and ties go to the
  first: the same quotes may give another split.
* `reconcile.ts` reads `legs[0].outputMint`, which for a path is the intermediate: a buy on a
  path that landed is reported as failed.  Its state machine lets UNKNOWN become QUOTED and
  refuses CONFIRMED, against `reconcile.ts:16-18`.
* A `fresh` call of `read-cache.ts` (line 43) joins a read that began before it.
* The RPC gate lets a caller in between a release and the woken waiter's continuation, so
  more than `Limit` calls may hold a slot for a moment.  `GateNeverStalls` does not depend on it.
* A state worker whose first load failed is never ready again by itself: the failure of the
  stream is recorded and not reset, and the socket stream never reports a disconnection.
  `RouterBecomesReady` excepts it, and a pool whose account is missing or does not decode:
  `tests/router/worker.test.ts:50-56` asserts that such a pool keeps the worker not ready.
* After a 5xx answer of a private submitter that had accepted, the policy's public fallback
  runs: the answer cannot be told from a refusal.  `PublicIsLastResort` counts answers.
* `protocol-provider.tsx:242` clears the signature after a refresh without comparing the
  generation; a refresh for a wallet that changed and changed back is taken as current.
* On the router's route the ticket checks neither expiry nor generation after signing; a
  lost answer of a protected submission leads to a public send of the same bytes.

## Proofs

| theorem | statement |
|---|---|
| `GovernanceInvariant`, `GovernanceTypeOK` | the configuration's inductive invariant and its types |
| `AdmissionBudgetHolds` | admitted money stays within the limit |
| `ActiveManifestIsSealed`, `ManifestMintsDistinct`, `SealedManifestsStayFrozen` | manifests are sealed, free of repeats, frozen |
| `AccessTermsStable` | access terms change only under pause |
| `PacksInvariant`, `PacksTypeOK` | the inductive invariant of batches, packs and balances; no balance goes below zero |
| `BatchesAreBacked`, `PacksAreBacked` | a batch holds the price of its unopened packs, a pack exactly its maximum liability |
| `FeesAreChargedOnce`, `LuckyIsBounded` | one fee per pack; two rolls at most double the stake twice |
| `DrawsAreEligible`, `DrawsAreFinal` | a drawn stock is an eligible entry of a sealed manifest; an answered roll can only be taken |
| `PacksKeepThePromise` | `Packs` implements `PackPromise` |
| `PositionsInvariant`, `PositionsTypeOK` | the inductive invariant of positions, cash and worth; no debit goes below zero |
| `PositionsAreBacked`, `YieldFeesAreExact`, `EndedOrdersHoldNothing` | accounts match books, fees are exact, ended orders are empty |
| `MoneyIsConserved`, `YieldWasEarned` | what users and the treasury hold is what was paid in and what the vault made; yield credited is at most what the vault earned |
| `LimitsAreRespected` | stock of a limit order costs less than one base unit of USDC more per unit than its limit under the mint's multiplier of the moment, and no more than the limit under a whole one |
| `PrincipalIsProtected` | yield is realised without touching principal only if the whole basis stays invested |
| `WaysOutAreOpen` | an order can be cancelled, all of an Earn position's principal withdrawn and its yield claimed in every reachable state, if losses leave a position something |
| `NeverTwoTransactions`, `DiskNamesLive`, `WorkerTypes` | one live transaction per job, named on disk, for any number of processes |
| `ServesOnlyRecent`, `QuietIsCurrent` | freshness of the state worker, and convergence of every pool that can be read once the mail is in |
| `GateIsFair` | the gate's count is right and nobody waits beside a free slot |
| `AnswersNeverGoBack` | no caller is told something older than what was told before it asked |
| `PublicComesLast`, `SubmissionTypes` | the public endpoint is the last resort, for any ladder |
| `BasisCoversEveryRecovery`, `LuckyReturnsNinetyFive` | a withdrawal never releases less basis than principal it pays; the payout table returns 95% of a stake |
| `MinimumIsThePrice`, `PriceCoversTheConfidence` | minimum outputs and conservative prices round to the side the crate says, whatever their exponents |
| `ScaledLimitsAreKept` | under any display multiplier an oracle fill stays within a base unit of the exact limit and a routed swap within the limit, whatever is rounded on the way |
| `SplitsAreSound` | a split spends the order exactly over distinct venues that fill their part, its shares make the whole, and it is never worse than one venue, whatever the curves |
| `SearchIsOptimal` | over two concave curves that are both in use, the search returns as much as the best division of the order, for any length its steps suffice for |
| `SelectsTheBest` | the selected route can be executed whenever any can, and pays at most the native preference less than the best of them, whatever the market |
| `PlansKeepPromises` | the plan of a selected route spends the order, charges the fee once, and states the minimum that was promised, within the user's ceiling |
| `DialogIsBusyWhileWorking`, `DialogSendsWhatItShows`, `TicketSignsWhatItShows` | what is signed and sent is what is shown (of a router's route: its owner and amount), by a wallet that is still the one the last effect saw |

They hold for all values of the constants that satisfy the named assumptions of the
modules (`BPSAssumption`, `U64Assumption`, `KeyAssumption`, `AccessAssumption`,
`ManifestAssumption`, `StockAssumption`, `DepositAssumption`, `PackAssumption`,
`CashAssumption`, `DrawAssumption`, `RateAssumption`, `AmountAssumption`, `MultiplierAssumption`,
`TimeAssumption`, `TermAssumption`, `NameAssumption`, `WorkAssumption`,
`WorkerAssumption`, `GateAssumption`, `CacheAssumption`, `SubmissionAssumption`,
`ProviderAssumption`, `TicketAssumption`, `QuestionAssumption`, `SplitQuestions`,
`TradeQuestions`, `CurveQuestions`, `StepsSuffice`, `SplitAssumption`, `TermsAssumption`,
`AccountAssumption`).  These say that
amounts are natural numbers, a multiplier a positive mantissa and a shift, rates at most one, names of nothing not names of something,
and that a venue returns for an amount a natural number or nothing: no more than the program's
types and the checks of `initialize` do.  Of the router's fee it is assumed to be less than
the whole, which `grossForNet` of `trade-fee.ts` divides by, and of its sweeps that there is one
(`MAX_REFINE_SWEEPS` is 4).  Nothing is assumed of the shape of a curve, which need not be
concave or even increase, but in `SearchIsOptimal`: there `CurveQuestions` makes the curves
concave, as the comment of `refineBoundary` does, and `StepsSuffice` gives the search the steps
to narrow the order down to neighbouring amounts.  `WaysOutAreOpen` has a hypothesis of its own,
`LossFloor > 0`.  TLC evaluates each assumption in some run.
`AccessTermsStable` and `FeesAreChargedOnce` are only proved; no run checks them.

### The arguments

**Configuration and packs.**  `ConfigInv` strengthens the configuration's type invariant by
`SealedWasCreated`: without it a sealed manifest could be created over, and the
active one would change.  The invariant of `Packs` is

    Inv == ConfigInv /\ BatchesInv /\ PacksInv /\ OpenedInOrder /\ BalancesInv

`PackEscrow` is not inductive.  That a settlement leaves exactly nothing needs to know
which of the fee, the stake and the budget a pack still has to pay in each of its
states, and that a Lucky stake is at most the first stake times the round;
`PackGood` says so for one pack and `BatchGood` for one batch (a purchased batch
carries the current unit fee, a yield batch none).  Opening writes the account
`<<b, next_open>>`, and only `OpenedInOrder` shows that no pack is there already.
`DrawsAreEligible` adds `PinInv`: the manifest a batch or pack is pinned to is sealed
and the index it drew is eligible in it; a second roll keeps the stock of the
first.  The refinement maps a pack to what its owner may still take away; each action
either leaves it alone or is one step of `PackPromise` (`PromiseStutter` and the lemmas
after it), with an invariant on the answers so that a draw is taken once.

**Positions.**  `Inv == ConfigInv /\ AccountsOK /\ BalancesOK`.  For one position `PositionGood`
says: its cash is its claimable yield, no fee is pending, the fee equation holds
exactly, a position that ended has no shares, worth or yield.  `RedeemedFacts` splits
what a redemption brings in into claimable, fees and principal with nothing left over, and
`PutBackStep` shows that what goes back, out and to the treasury is that sum; every
instruction on the vault is one of each.  `LimitsAreRespected` compares the cost with the
exact product of limit and multiplier in multiples of `Scale`, the power of two that the
shift divides by.  On the oracle path it rests on `OracleMinimumBounds` of `MathProofs`: the
price cap is at most the rounded-up limit, the delivery is rounded up, and a rounded-up
product is at most `Scale - 1` above the exact one (`ScaledPriceBounds`).  On the routed path
`PaysAtMostTheLimit` has no such term.  That the multiplier stays one of the mint's is an
invariant of its own (`MultiplierInvariant`), since only `Rescale` writes it.  `PrincipalIsProtected` rests on three lemmas: a redemption that finds yield found all the
principal (`YieldMeansWhole`); taking any part of a basis worth itself leaves less of it
(`BasisShrinks`); and a protected reinvestment is worth what it was asked to put
back (`PutBackProtects`).  So a step that keeps the basis put all of it back.

`ExitsStayOpen` speaks of the guards of `Cancel`, `Withdraw` and `Claim` (`CanCancel`, `CanWithdraw`,
`CanClaim`), which are conjuncts of these instructions and the only ones that may be
false; the others say what changes.  `WaysOutAreOpen` adds `RootsInv` to the invariant: where
no shares are left nothing is invested, and shares that are left are worth
something.  The second half is what `LossFloor > 0` gives; `OrdersCanBeCancelled`, in the
run where it is 0, fails for want of it.  With it a redemption either finds principal or finds
that there was none, so `remaining_basis` answers, and what came in pays the fees and the
owner (`AffordsAll`) without the vault being asked to take anything back.

**Books.**  `Conservation` and `YieldIsReal` need one more invariant, `BooksInv`, about two totals.
`Held` is all the USDC there is: in wallets, in the positions' accounts, what their shares are
worth, the vault, the treasury, the market and the packs; it is always what the wallets and the
vault had at the start.  `Credited` is the yield of all positions (taken, or in shares worth more
than was invested) with the interest the vault has still to pay; it is never more than the
interest the vault began with.  Every instruction is a `BooksStep`: it leaves `Held` as it was and
does not raise `Credited`.  A sum is a fold in an order nobody chose, so `MathProofs` first shows
that the order does not matter (`SumElement`); there is no induction, the lemmas look at a least
counterexample.

**Rules.**  A question of `Rules` is made of the constants (`Posed`), and the rest is about
operators.  The rules of the crate are lemmas on division.  For a split, `PlacedChunk` and
`ChunksAreTheOrder` say that what was placed is what was cut, `BoundaryDivides` that a probe of
the ternary search divides what two legs had, `OneLegChanges` that a move keeps the worth of all
other legs; so `Divisions` (a division of the order that is worth no less than the one before)
is kept by every pair and every sweep.  The legs are listed once each
(`LegsAreListed`), and truncated shares with the remainder on the last leg are the whole
(`SharesMakeTheWhole`), which also gives the fees of a buy's legs.  For a trade,
`Fits` is what the single route, the split and both paths have in common: what their
first legs spend is the order, what their last ones return is their gross output, and the
floors of one hop are the input of the next.  The chosen route is one of these
(`ChosenKeeps`), so the planner refuses none of them, and the sum of the legs'
floors is within the ceiling because each leg's is (`FloorsWithin`).  `SelectsTheBest` rests on
`LeadingIs` (the ranking is a strict order of the quotes of distinct venues, so
a leading one exists and has the greatest net output) and on `Obtainable` never
falling along the selection.

`SearchIsOptimal` is about the ternary search on integers.  The worth of a division is
concave in the first venue's amount (`WorthsBend`), so what lies beyond the better of two
probes, on the side of the other, is worth no more than the better one (`BetterBounds`).  The
invariant of the search, `OnTrack`, says that the best worth was seen or is still in the
interval, and that the interval's upper end, once it is no longer the whole order, is worth
no more than what was seen; each step keeps it and narrows the interval to `Narrowed`
of its width, whichever half is kept (`NarrowKeepsTrack`).  Two things
a test would not show came up.  A division that leaves the second venue nothing may be
missed; it is best only if the first venue's last unit earns more than the second's first
(`LastUnitLeads`), and then the greedy allocation would have given the first venue everything
(`FirstTakesAll`), against both being in use.  And the 60 steps of the code narrow any
order of up to 39,765,601,491 units down (39,765 USDC); beyond it the search may stop
with an interval of a few units, and the theorem says nothing.

**Solver worker.**  `LockOK` (a running process is the one the lock names), `LiveNamed` (every
transaction that can still take effect is named in the journal and in the memory of the
running process) and `Accounts` (until a job is reconciled, its live signature is
still to be read or was found unresolved; after that there is none but the one just signed) carry `OneLiveTransaction` through
every crash: a new transaction is built only by the holder of the lock, only when
everything the journal names is dead.

**State worker.**  `Accounted`: every change of a pool whose account can be read is in its store
entry, or in the mail, or happened before the present connection with a fresh snapshot under
way; an entry's label is at most what it shows.  `Standing` says when an account that was
broken can be read again: a change after what broke it is then among those accounted for, so a
row that is skipped or an update that does not decode leaves nothing owed.  Both properties
follow from it.

**Delivery.**  `GateInv` needs that the queue is exactly the callers that wait, each once (`QueueOK`).
The cache's invariant is that at most one read is current (`OneRead`), that nothing held
or under way is older than the best answer told before (`NothingOlder`), and that what a
caller may rely on was indeed told (`FloorsWereTold`).  A submission's turn is allowed by
the policy, the submitters before it have failed for good and those after it have not
been tried (`TurnAllowed`, `OthersInOrder`, `OwnAttempts`).

**Client.**  In the dialog at most one call is current (`Solo`) and a call that signs or sends carries
the transaction shown (`CarriesWhatIsShown`).  In the ticket, an operation was begun for the
terms shown unless an effect is to run (`BegunForTerms`), a review that is current is
the one shown (`CurrentIsShown`) and what is signed passed the checks (`AskedIsChecked`).

### Only model-checked

* Liveness: `EveryPackEnds`, `SolverFinishes`, `RouterBecomesReady`.  Fairness is beyond the prover.
* `OrdersCanBeCancelled`, which a run refutes, is stated with ENABLED.

Every other property of a passing run is stated by a theorem.

## What is not modelled

* The stock leg: tokens that a solver or a route delivers are compared with the
  minimum and counted, not held in accounts.  The owner of a stock account and the shape
  of routes and account lists are checked in the code by `require!`s that only
  refuse a transaction.
* Accounts: rent, discriminators, PDAs and account sizes.
* ORAO, Kamino, Pyth and Solana, which are external and behave as the handlers expect of
  them in shape, and in any way in value.
* Nodes behind one RPC address that disagree with each other, in `SolverWorker`.
* Encoding of instructions and the packet size that decides between plans in `apps/router`;
  parsing of simulations; `ExecutionTracker`, whose reports are described above.
* Deadlines and races between venue adapters, the pool registry, telemetry, `CircuitBreaker`
  and `RouterHealth`.
* `http-retry.ts` and the request caches of the API routes: loops and maps around one
  request.  An epoch of the request cache is shared by concurrent requests.
* Limit and DCA orders of the trade ticket, wallet access, strategies, the launch studio, venue
  quote formulas, market data, pages, scripts: I/O, arithmetic on third-party
  layouts, or presentation.

Most of the repository's lines are of this last kind, which is why the mapped lines are a
small share of the whole.

## Plan

Written so far, in this order: `StockroomMath`, `StockroomConfig` and `Governance`, `Packs` with
`PackPromise`, `Positions`, `SolverWorker`, `SplitRoute` and `RouteTerms`, `StateWorker`, `RpcGate`,
`ReadCache`, `Submission`, `ProtocolProvider`, `TradeTicket`, each with the proofs above.  Left:

1. `ExecutionTracker` (`reconcile.ts`) over the network of `SolverWorker`, with reports in any order.
2. Limit and DCA orders in `TradeTicket`, and the request cache of the API routes.
3. `SolverWorker` with nodes that disagree.
4. An abstract ledger of a position (principal, yield, fees) with `Positions` as its implementation.
