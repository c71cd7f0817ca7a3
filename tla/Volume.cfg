CONSTANTS
    Stagers = {"s1", "s2"}
    ObjectCount = 3
    Large = {1}
    Bundle <- SharedModel
    PartCount = 3
    Concurrency = 2
    PartAttempts = 2
    MaxFaults = 4
    ModelFiles = 3
    ModelSize <- ThreeSizes
    Templates <- CandidateTemplates
    MaxDownloads = 2
    MaxAttempts = 2
    MaxModelFaults = 2
    Tokens = {}
    MaxWorkers = 2
    MarkerBytes = 7
    TheBundle <- RunBundle
    Completed <- RunMarkers
    Strange <- OtherMarkers
    Fetchers = {"f1", "f2"}
    MaxFetchFaults = 2
    MaxPrefixes = 2
    MaxRuns = 2
    MaxOutputs = 2
    MaxContainers = 3
    Commands = {"c1", "c2"}
    MaxStarts = 2
    MaxDeletes = 2
    MaxChallengeFaults = 2
SPECIFICATION VolumeSpec
INVARIANTS
    BundleLast
    TreeExact
    FetchedExact
    PolicyMeasured
    ChallengeAnswered
PROPERTIES
    RerunsComplete
CHECK_DEADLOCK FALSE
