SPECIFICATION Spec
CONSTANTS
    Pods = {p1, p2, p3}
    Jobs = {j1, j2}
    None = None
    NumCaches = 1
    MinAgents = 0
    MaxAgents = 2
    PodLag = 0
    PvcLag = 1
    LostReplies = FALSE
    MaxFaults = 0
SYMMETRY Symmetry
INVARIANTS
    Exclusive
