SPECIFICATION Spec
CONSTANTS
    PoolNames <- MCPoolNames
    CacheNames <- MCCacheNames
    MaxCaches = 2
    MaxAgents = 2
    PoolCut = 2
    CacheCut = 2
CHECK_DEADLOCK FALSE
INVARIANTS
    NamesSuffice
