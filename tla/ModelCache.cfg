SPECIFICATION FairSpec
CONSTANTS
    Task = {t1, t2}
    none = none
    v1 = v1
    m = m
    n = n
    cpu = cpu
    Key <- MCKeys
    NoVersion = none
    MaxModels = 2
    LoadPermits = 1
    MaxCalls = 3
INVARIANTS
    CacheBounded
    MissesAccounted
    SingleFlight
PROPERTIES
    LruSpec
    CallsReturn
