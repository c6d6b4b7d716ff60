SPECIFICATION WorkerSpec
CHECK_DEADLOCK FALSE
CONSTANTS
    Pools = {p}
    Loads = {a, b}
    StaleAfter = 1
    MaxSlot = 2
    MaxDrops = 1
INVARIANTS
    ReadyMeansResynced
