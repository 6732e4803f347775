SPECIFICATION Spec
CONSTANTS
    PoolNames = {n1}
    AgentIds = {a1, a2, a3}
    None = None
    PoolLag = 0
    LostReplies = FALSE
    MaxFaults = 0
SYMMETRY Symmetry
INVARIANTS
    NoPlaceholderLeft
