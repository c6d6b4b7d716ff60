SPECIFICATION Spec
SYMMETRY Alike
CONSTANTS
    pack = pack
    position = position
    Workers = {w1, w2}
    Nobody = Nobody
    Jobs = {pack, position}
    PackJobs = {pack}
    NoJob = NoJob
    Signatures = {s1, s2, s3, s4}
    NoSignature = NoSignature
    Work <- MCWork
    MaxMishaps = 2
INVARIANTS
    OneLiveTransaction
    JournalNamesLive
