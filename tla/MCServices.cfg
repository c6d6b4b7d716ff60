SPECIFICATION ServicesSpec
CHECK_DEADLOCK FALSE
CONSTANTS
    pack = pack
    position = position
    Workers = {w1}
    Nobody = Nobody
    Jobs = {pack}
    PackJobs = {pack}
    NoJob = NoJob
    Signatures = {s1, s2, s3}
    NoSignature = NoSignature
    Work <- MCWork
    MaxMishaps = 2
    Pools = {p, q}
    Loads = {a, b}
    StaleAfter = 1
    MaxSlot = 2
    MaxDrops = 2
    Callers = {c1, c2, c3, c4}
    Limit = 2
    Retries = 2
    Readers = {r1, r2}
    Reads = {n1, n2}
    MaxVersion = 3
    Privates <- MCPrivates
    Public = "rpc"
    MaxAttempts = 2
    Owners = {o1, o2}
    NoOwner = NoOwner
    Intents = {i1, i2}
    NoIntent = NoIntent
    Tasks = {k1, k2}
    Traders = {t1, t2}
    Tokens = {usdc, x, y}
    Cash = usdc
    Sizes = {m}
    Blank = Blank
INVARIANTS
    ServedIsRecent
    QuietMeansCurrent
    GateNeverStalls
    ReadsNeverGoBack
    PublicIsLastResort
    BusyMeansWorking
PROPERTIES
    SendsWhatIsShown
    SignedForTheTicket
    SolverFinishes
    RouterBecomesReady
