CONSTANTS
    RuntimeLimit = 7
    CostLimit = 6
    AdmissionLimit = 2
    PollInterval = 2
    MaxCall = 1
    MaxDeletes = 2
    MaxErrors = 3
SPECIFICATION SupervisorFairSpec
INVARIANTS
    OkMeansDone
    NoSilentLeak
    WatchdogBound
PROPERTIES
    Returns
CHECK_DEADLOCK FALSE
