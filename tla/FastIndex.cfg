\* Two assemblies of one output, one file copied over it, every query.
SPECIFICATION Spec
CONSTANTS
    Ln <- MCLn
    FusionScale = 1000000
    Processes = {p1, p2}
    Inputs <- MCInputs
    Writers = {"streams", "scalable", "bound", "bound_scalable"}
    Strays <- MCStrays
    Queries <- MCQueries
    MaxTime = 9
    MaxTopN = 3
    MaxEvidence = 2
    MaxStarts = 2
INVARIANTS
    HitsExact
    OpenedAsPublished
PROPERTY PublishedStays
SYMMETRY Symmetry
CHECK_DEADLOCK FALSE
