CONSTANTS
    Pods = {p1}
    AssignmentCount = 2
    TaskCount = 2
    Attempts = {a1, a2}
    Variants = {v1}
    MaxIds = 5
    MaxFaults = 1
    None = None
SPECIFICATION FairSpec
PROPERTIES
    Recovers
CHECK_DEADLOCK FALSE
