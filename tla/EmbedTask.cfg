\* Four batches over two slots: a slow first batch fills the reorder buffer while
\* one is left to spawn.  An existing or rival shard may have other bytes than ours.
CONSTANTS
    RowCount = 4
    BatchSize = 1
    MaxInFlight = 2
    MaxAttempts = 2
    Variants = {v1, v2}
    WrongModel = WrongModel
    BadVector = BadVector
    TaskError = TaskError
SPECIFICATION FairSpec
INVARIANTS
    LoopNeverStarves
    StatsExact
    DoneIsOwnResult
PROPERTIES
    PublishesOnce
    Termination
