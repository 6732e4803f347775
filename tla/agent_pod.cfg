SPECIFICATION FairSpec
CONSTANTS
    Pods = {p1, p2}
    MaxFaults = 2
CHECK_DEADLOCK FALSE
INVARIANTS
    TypeOK
    NoAgentLeft
PROPERTIES
    ExitSparesBuild
    EndsAfterJob
