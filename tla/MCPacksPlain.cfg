SPECIFICATION Spec
CONSTANTS
    alice = alice
    bob = bob
    b1 = b1
    b2 = b2
    m1 = m1
    m2 = m2
    NoKey = NoKey
    NoManifest = NoManifest
    BPS = 10
    U64MAX = 1000
    Keys = {alice, bob}
    FirstAdmin = alice
    AdminCandidates = {}
    ProductSets <- MCPlainProducts
    PilotChoices = {NoKey}
    LimitChoices = {10}
    InitialLimit = 10
    ManifestIds = {m1, m2}
    StockLists <- MCTwoLists
    MaxStocks = 3
    BatchIds = {b1, b2}
    MaxCount = 2
    PackPrice = 5
    PackFeeBps = 2
    PackTimeout = 1
    QuoteAge = 0
    MaxAge = 0
    BudgetChoices = {5}
    StakeChoices = {}
    PoolMoves = {}
    YieldSteps = {7}
    DrawBuckets = {99}
    DrawPicks = {1}
    WalletCash <- MCAliceRich
    HouseCash = 0
    VaultCash = 7
SYMMETRY MCSymmetry
INVARIANTS
    BatchEscrow
    DrawnStockEligible
