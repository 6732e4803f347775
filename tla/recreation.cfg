SPECIFICATION FairRecreationSpec
CONSTANTS
    Pods = {p1, p2}
    Jobs = {j1}
    None = None
    NumCaches = 1
    MinAgents = 1
    MaxAgents = 1
    PodLag = 0
    PvcLag = 0
    LostReplies = TRUE
    MaxFaults = 1
    MaxPools = 2
INVARIANTS
    MaxAgentsRespected
PROPERTIES
    FormerPodsGo
