CONSTANTS
    Backends = {"lmstudio", "tei"}
    Variants = {v1, v2}
    Identities = {i1, i2}
    MaxIds = 5
    Commands = {"embed", "quarantine", "restore", "finalize"}
    MaxFaults <- TaskFaults
    MaxDamage = 1
    NoFile = NoFile
    Corrupt = Corrupt
    AssignmentCount = 2
    TaskCount = 2
    Attempts = {a1}
    MaxPodFaults = 3
SPECIFICATION RecoverySpec
INVARIANTS
    NoCompletedTaskRepeated
PROPERTIES
    NothingOverwritten
    OkMeansComplete
    QuarantineSparesComplete
    HostConverges
    PodsRecover
CHECK_DEADLOCK FALSE
