CONSTANTS
    Pods = {p1, p2}
    AssignmentCount = 2
    TaskCount = 1
    Attempts = {a1, a2}
    Variants = {v1, v2}
    MaxIds = 4
    MaxFaults = 1
    None = None
SYMMETRY Symmetry
SPECIFICATION Spec
INVARIANTS
    MarkersSound
CHECK_DEADLOCK FALSE
