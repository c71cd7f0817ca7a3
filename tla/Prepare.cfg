SPECIFICATION Spec
CONSTANTS
    BatchRows = 2
    MinParallelBatchRows = 2
    MinBatchRangeRows = 1
    BenchmarkSizes <- MCSizes
    Bytes <- MCBytes
    SelectionKey <- MCKey
    Sources <- MCSources
    Metric = 3
    Requests <- MCRequests
    Workers = 2
    DocumentRunRows = 1
    DocumentShardRows = 2
    OccurrenceShardRows = 2
    MaxCandidates = 3
    Kind <- MCKind
INVARIANTS
    PreparedExact
    CensusExact
    BenchmarkExact
    RefusedForCause
