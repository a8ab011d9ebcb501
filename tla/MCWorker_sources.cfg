SPECIFICATION Spec
CONSTANTS
    P1 = P1
    S1 = S1
    S2 = S2
    S3 = S3
    None = none
    SpecFile = {S1, S2, S3}
    SpecLists <- Lists
    Package = {P1}
    Project = P1
    MaxCommit = 3
    MaxDistro = 2
    DtCommit <- Dates
    SharedDistgit = FALSE
    Settings <- FewOptions
    Upstream <- Upstreams
    MaxRetries = 0
    Workers = 2
    Stop = FALSE
    Day = 0
    MaxTime = 2
    MaxRename = 0
    MaxRuns = 2
    MaxImport = 0
    MaxTrouble = 0
INVARIANT
    SourcesMatch
CHECK_DEADLOCK FALSE
