SPECIFICATION FairSpec
CONSTANTS
    PoolNames = {n1, n2}
    AgentIds = {a1, a2, a3}
    None = None
    PoolLag = 1
    LostReplies = TRUE
    MaxFaults = 1
INVARIANTS
    TypeOK
    PlaceholderInItsPool
PROPERTIES
    RegisteredUnderFinalizer
    NoLostUpdate
    DeletionCompletes
    SecretLossReported
    PlaceholderAdopted
