SPECIFICATION Spec
CONSTANTS
    BPS = 10
    U64MAX = 100000
    Amounts = {0, 1, 2, 3, 5, 7, 8, 12}
    Micro = 6
    MaxSlip = 1
    Unit = 4
    Values = {1, 3, 8}
    Confidences = {0, 1, 2}
    Exponents <- MCExponents
    Ratios = {1, 3}
    Mantissas = {1, 3, 5}
    Shifts <- MCShifts
    Whole = 100
    MaxSweeps = 4
    FeeBps = 7
    BaseSlippage = 6
    MaxSlippage = 20
    MaxImpact = 12
    HopMargin = 1
    HopMaxSlippage = 5
    NativePreference = 4
    Granularity = 6
    RefineSteps = 12
    DefaultLegs = 3
    Sizes = {1, 9, 17, 25, 33, 40}
    Gain = 3
    Length = 6
    Pools <- MCPools
    Trades <- MCTrades
    Splits <- MCSplits
    Curves <- MCCurves
INVARIANTS
    BasisCoversRecovery
    LuckyReturnIs95Percent
    MinimumEnforcesThePrice
    PriceIsConservative
    ScaledLimitsHold
    SplitIsSound
    SearchFindsTheBest
    PlanKeepsThePromise
    SelectionNeverWorse
