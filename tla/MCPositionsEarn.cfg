SPECIFICATION Spec
CONSTANTS
    alice = alice
    k1 = k1
    m1 = m1
    NoKey = NoKey
    NoManifest = NoManifest
    BPS = 5
    U64MAX = 1000
    Keys = {alice}
    FirstAdmin = alice
    AdminCandidates = {}
    ProductSets <- MCAllProducts
    PilotChoices = {NoKey}
    LimitChoices = {10}
    InitialLimit = 10
    ManifestIds = {m1}
    StockLists <- MCStockLists
    MaxStocks = 1
    PositionIds = {k1}
    TermChoices <- MCEarnTerms
    Deposits = {5}
    YieldShareBps = 1
    TradeFeeBps = 1
    MaxSlippage = 1
    LongestOrder = 2
    Intervals = {1}
    HarvestCooldown = 1
    HarvestMin = 2
    SettleMin = 2
    PackPrice = 3
    MaxCount = 2
    QuoteAge = 0
    MaxAge = 0
    BudgetChoices = {8}
    Overhead = 1
    Rounding = 0
    Moves = {3}
    Pieces = {2}
    LossFloor = 1
    Prices = {1}
    Multipliers <- MCWhole
    Outputs = {2}
    Unit = 1
    WalletCash <- MCWallet
    VaultCash = 6
INVARIANTS
    PositionEscrow
    YieldFeesExact
    YieldIsReal
    Conservation
    ExitsStayOpen
