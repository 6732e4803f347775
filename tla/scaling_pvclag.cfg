SPECIFICATION Spec
CONSTANTS
    Pods = {p1, p2}
    Jobs = {j1}
    None = None
    NumCaches = 2
    MinAgents = 2
    MaxAgents = 2
    PodLag = 0
    PvcLag = 2
    LostReplies = TRUE
    MaxFaults = 1
SYMMETRY Symmetry
INVARIANTS
    TypeOK
    LabelsAgree
    FullyCached
    SlotsNotOversold
PROPERTIES
    LeaseUnlessMisled
