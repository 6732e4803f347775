SPECIFICATION FairSpec
CONSTANTS
    Pods = {p1, p2}
    Jobs = {j1, j2}
    None = None
    NumCaches = 0
    MinAgents = 0
    MaxAgents = 2
    PodLag = 0
    PvcLag = 0
    LostReplies = TRUE
    MaxFaults = 1
PROPERTIES
    JobServed
