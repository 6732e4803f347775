SPECIFICATION FairSpec
CONSTANTS
    PoolNames = {n1}
    AgentIds = {a1, a2, a3}
    None = None
    PoolLag = 1
    LostReplies = FALSE
    MaxFaults = 0
PROPERTIES
    PlaceholderKept
