SPECIFICATION Spec
CONSTANTS
    PoolNames <- MCShortPools
    CacheNames <- MCLongNames
    MaxCaches = 2
    MaxAgents = 2
    PoolCut = 2
    CacheCut = 2
CHECK_DEADLOCK FALSE
INVARIANTS
    FullyProvisioned
