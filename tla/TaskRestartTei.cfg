CONSTANTS
    Backends = {"tei"}
    Variants = {v1}
    Identities = {i1}
    MaxIds = 5
    Commands = {"embed", "quarantine", "restore"}
    MaxFaults <- TaskFaults
    MaxDamage = 0
    NoFile = NoFile
    Corrupt = Corrupt
    AssignmentCount = 1
    TaskCount = 1
    Attempts = {a1}
    MaxPodFaults = 0
SPECIFICATION RestoringSpec
PROPERTIES
    EveryTaskRestarts
CHECK_DEADLOCK FALSE
