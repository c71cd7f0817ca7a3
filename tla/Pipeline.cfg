\* One request per kind of plan, two directories, one file copied by hand.
SPECIFICATION PipelineSpec
CONSTANTS
    Tokens <- MCTokens
    FullDims <- MCFullDims
    MaxWorkers = 2
    Corpora <- MCCorpora
    Requests <- MCRequests
    Areas = {a1, a2}
    Executions <- MCExecutions
    DerivedDims = {1024}
    WorkerCounts = {0, 2, 3}
    MaxCopies = 1
INVARIANTS
    IndexHoldsItsCorpus
    TasksPartitionCorpus
    AssignmentsNearShare
    SummaryMeasuresRun
SYMMETRY Symmetry
CHECK_DEADLOCK FALSE
