SPECIFICATION Spec
CONSTANTS
    alice = alice
    bob = bob
    NoKey = NoKey
    NoManifest = NoManifest
    m1 = m1
    m2 = m2
    Keys = {alice, bob}
    FirstAdmin = alice
    AdminCandidates = {alice, bob}
    PilotChoices = {NoKey, bob}
    LimitChoices = {0, 2, 3}
    InitialLimit = 2
    Deposits = {1, 2}
    ManifestIds = {m1, m2}
    MaxStocks = 2
    ProductSets <- MCProductSets
    StockLists <- MCStockLists
INVARIANTS
    AdmissionWithinLimit
    ActiveManifestSealed
    MintsDistinct
PROPERTIES
    SealedManifestFrozen
