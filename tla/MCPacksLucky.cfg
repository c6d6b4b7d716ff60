SPECIFICATION PatientSpec
CONSTANTS
    alice = alice
    bob = bob
    b1 = b1
    b2 = b2
    m1 = m1
    m2 = m2
    NoKey = NoKey
    NoManifest = NoManifest
    BPS = 10
    U64MAX = 1000
    Keys = {alice}
    FirstAdmin = alice
    AdminCandidates = {}
    ProductSets <- MCOpenProducts
    PilotChoices = {NoKey}
    LimitChoices = {10}
    InitialLimit = 10
    ManifestIds = {m1}
    StockLists <- MCOneStock
    MaxStocks = 2
    BatchIds = {b1}
    MaxCount = 2
    PackPrice = 5
    PackFeeBps = 2
    PackTimeout = 1
    QuoteAge = 0
    MaxAge = 0
    BudgetChoices = {4}
    StakeChoices = {6}
    PoolMoves = {4}
    YieldSteps = {}
    DrawBuckets = {0, 96}
    DrawPicks = {0}
    WalletCash <- MCAliceRich
    HouseCash = 12
    VaultCash = 0
INVARIANTS
    PackEscrow
    LuckyAtMostFourStakes
PROPERTIES
    DrawsAreBlindAndFinal
    PromiseKept
    EveryPackEnds
