-------------------------- MODULE StockroomConfig --------------------------
(***************************************************************************)
(* The configuration account of the stockroom program and the stock        *)
(* manifests it points to: pause switch, product mask, pilot owner, the     *)
(* lifetime admission budget, the two-step admin handover, and the life of  *)
(* a manifest (created, appended to, sealed by its activation).             *)
(* Packs and Positions extend this module: they call CheckProduct,          *)
(* CheckPilot and Admit exactly where the handlers do.                      *)
(***************************************************************************)
EXTENDS Integers, Sequences, FiniteSets

CONSTANTS
    Keys,             \* public keys that sign or own something
    NoKey,            \* Pubkey::default()
    FirstAdmin,       \* the key that runs initialize
    AdminCandidates,  \* keys an admin may propose as its successor
    ProductSets,      \* product masks an admin may enable
    PilotChoices,     \* pilot owners an admin may set (NoKey opens the product)
    LimitChoices,     \* admission limits an admin may set
    InitialLimit,     \* the admission limit initialize writes
    ManifestIds,      \* versions of the manifest PDA
    NoManifest,       \* active_manifest before the first activation
    StockLists,       \* lists of stock specs an admin may submit
    MaxStocks         \* MAX_STOCKS

AllProducts == {"Earn", "Limit", "Dca", "StockYield", "Packs", "Lucky"}

ASSUME KeyAssumption ==
    /\ NoKey \notin Keys
    /\ FirstAdmin \in Keys
    /\ AdminCandidates \subseteq Keys
    /\ PilotChoices \subseteq Keys \cup {NoKey}
ASSUME AccessAssumption ==
    /\ \A ps \in ProductSets : ps \subseteq {"Earn", "Limit", "Dca", "StockYield", "Packs", "Lucky"}
    /\ LimitChoices \subseteq Nat
    /\ InitialLimit \in Nat
ASSUME ManifestAssumption == NoManifest \notin ManifestIds /\ MaxStocks \in Nat

\* A manifest entry: which mint, and whether a pack may draw it.
ASSUME StockAssumption ==
    StockLists \subseteq Seq([mint : STRING, pack_eligible : BOOLEAN])

VARIABLES
    config,       \* the singleton Config account
    manifests     \* the Manifest accounts, by version

configVars == <<config, manifests>>

StockSpec == [mint : STRING, pack_eligible : BOOLEAN]
ConfigRecord ==
    [admin : Keys, pending_admin : Keys \cup {NoKey}, active_manifest : ManifestIds \cup {NoManifest},
     paused : BOOLEAN, enabled_products : SUBSET AllProducts, pilot_owner : Keys \cup {NoKey},
     admission_limit : Nat, admitted_usdc : Nat]
ManifestRecord == [created : BOOLEAN, sealed : BOOLEAN, stocks : Seq(StockSpec)]

\* Every account has the fields its struct declares.
ConfigTypeOK ==
    /\ config \in ConfigRecord
    /\ manifests \in [ManifestIds -> ManifestRecord]

ConfigInit ==
    /\ config = [admin |-> FirstAdmin, pending_admin |-> NoKey, active_manifest |-> NoManifest,
                 paused |-> TRUE, enabled_products |-> {}, pilot_owner |-> FirstAdmin,
                 admission_limit |-> InitialLimit, admitted_usdc |-> 0]
    /\ manifests = [m \in ManifestIds |-> [created |-> FALSE, sealed |-> FALSE, stocks |-> <<>>]]

-----------------------------------------------------------------------------
(* What every handler asks of the configuration.                            *)

CheckProduct(products) == ~config.paused /\ products \subseteq config.enabled_products
CheckPilot(owner) == config.pilot_owner \in {NoKey, owner}

\* Wrong on purpose: compares the amount alone with the limit.
MutantAdmit(owner, amount, products) ==
    /\ CheckProduct(products)
    /\ CheckPilot(owner)
    /\ amount <= config.admission_limit
    /\ config' = [config EXCEPT !.admitted_usdc = @ + amount]

Admit(owner, amount, products) ==
    /\ CheckProduct(products)
    /\ CheckPilot(owner)
    /\ config.admitted_usdc + amount <= config.admission_limit
    /\ config' = [config EXCEPT !.admitted_usdc = @ + amount]

-----------------------------------------------------------------------------
(* Administration: every action is signed by the current admin, except      *)
(* AcceptAdmin, which the proposed successor signs.                         *)

\* Wrong on purpose: unpausing does not ask for an active manifest.
MutantSetPaused(paused) ==
    /\ config' = [config EXCEPT !.paused = paused]
    /\ UNCHANGED manifests

SetPaused(paused) ==
    /\ paused \/ config.active_manifest # NoManifest
    /\ config' = [config EXCEPT !.paused = paused]
    /\ UNCHANGED manifests

ConfigureAccess(products, pilot, limit) ==
    /\ config.paused
    /\ limit >= config.admitted_usdc /\ limit > 0
    /\ config' = [config EXCEPT !.enabled_products = products, !.pilot_owner = pilot,
                                !.admission_limit = limit]
    /\ UNCHANGED manifests

ProposeAdmin(pending) ==
    /\ config' = [config EXCEPT !.pending_admin = pending]
    /\ UNCHANGED manifests

AcceptAdmin ==
    /\ config.pending_admin # NoKey
    /\ config' = [config EXCEPT !.admin = config.pending_admin, !.pending_admin = NoKey]
    /\ UNCHANGED manifests

\* Wrong on purpose: looks for repeated mints in the submission only.
MutantValidStocks(stocks, existing) ==
    /\ stocks # <<>>
    /\ Len(existing) + Len(stocks) <= MaxStocks
    /\ \A i, j \in 1..Len(stocks) : i # j => stocks[i].mint # stocks[j].mint

\* validate_stocks: a submission is not empty, fits, and repeats no mint.
ValidStocks(stocks, existing) ==
    LET all == existing \o stocks
    IN  /\ stocks # <<>>
        /\ Len(all) <= MaxStocks
        /\ \A i, j \in 1..Len(all) : i # j => all[i].mint # all[j].mint

CreateManifest(m, stocks) ==
    /\ ~manifests[m].created
    /\ ValidStocks(stocks, <<>>)
    /\ manifests' = [manifests EXCEPT ![m] = [created |-> TRUE, sealed |-> FALSE, stocks |-> stocks]]
    /\ UNCHANGED config

\* Wrong on purpose: an activated manifest can still grow.
MutantAppendManifest(m, stocks) ==
    /\ manifests[m].created
    /\ ValidStocks(stocks, manifests[m].stocks)
    /\ manifests' = [manifests EXCEPT ![m].stocks = @ \o stocks]
    /\ UNCHANGED config

AppendManifest(m, stocks) ==
    /\ manifests[m].created /\ ~manifests[m].sealed
    /\ ValidStocks(stocks, manifests[m].stocks)
    /\ manifests' = [manifests EXCEPT ![m].stocks = @ \o stocks]
    /\ UNCHANGED config

ActivateManifest(m) ==
    /\ manifests[m].created /\ manifests[m].stocks # <<>>
    /\ manifests' = [manifests EXCEPT ![m].sealed = TRUE]
    /\ config' = [config EXCEPT !.active_manifest = m]

AdminStep ==
    \/ \E paused \in BOOLEAN : SetPaused(paused)
    \/ \E products \in ProductSets, pilot \in PilotChoices, limit \in LimitChoices :
          ConfigureAccess(products, pilot, limit)
    \/ \E pending \in AdminCandidates : ProposeAdmin(pending)
    \/ AcceptAdmin
    \/ \E m \in ManifestIds, stocks \in StockLists : CreateManifest(m, stocks)
    \/ \E m \in ManifestIds, stocks \in StockLists : AppendManifest(m, stocks)
    \/ \E m \in ManifestIds : ActivateManifest(m)

-----------------------------------------------------------------------------
(* Properties of the configuration, kept by every step of any instruction.  *)

\* The lifetime budget: configure_access never sets a limit below what was
\* admitted and admit never passes it, so no order of the two overdraws it.
AdmissionWithinLimit == config.admitted_usdc <= config.admission_limit

\* What buyers see is frozen: the active manifest is sealed and has stocks,
\* and the program only runs unpaused once there is one.
ActiveManifestSealed ==
    /\ config.active_manifest # NoManifest =>
          /\ manifests[config.active_manifest].created
          /\ manifests[config.active_manifest].sealed
          /\ manifests[config.active_manifest].stocks # <<>>
    /\ ~config.paused => config.active_manifest # NoManifest

\* No manifest lists one mint twice, however it was assembled, so a stock
\* index pinned by a pack or a position names one mint.
MintsDistinct ==
    \A m \in ManifestIds : \A i, j \in 1..Len(manifests[m].stocks) :
        i # j => manifests[m].stocks[i].mint # manifests[m].stocks[j].mint

\* A sealed manifest never changes again: packs and positions keep the index
\* of a stock in it for their whole life.
SealedManifestFrozen ==
    [][\A m \in ManifestIds : manifests[m].sealed => manifests'[m] = manifests[m]]_configVars

\* Admission is spent while the program runs and its terms move only while
\* it is paused, so no deposit is admitted under terms that changed with it;
\* what was spent never comes back.
AccessChangesOnlyWhilePaused ==
    [][/\ config'.admitted_usdc >= config.admitted_usdc
       /\ config'.admitted_usdc # config.admitted_usdc => ~config.paused /\ ~config'.paused
       /\ <<config'.enabled_products, config'.pilot_owner, config'.admission_limit>>
             # <<config.enabled_products, config.pilot_owner, config.admission_limit>>
             => config.paused /\ config'.paused]_configVars
=============================================================================
