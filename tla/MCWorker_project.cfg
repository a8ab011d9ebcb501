SPECIFICATION Spec
CONSTANTS
    P1 = P1
    S1 = S1
    S2 = S2
    S3 = S3
    None = none
    SpecFile = {S1, S2, S3}
    SpecLists <- Lists
    Package = {P1}
    Project = P1
    MaxCommit = 2
    MaxDistro = 3
    DtCommit <- Dates
    SharedDistgit = FALSE
    Settings <- FewOptions
    Upstream <- Upstreams
    MaxRetries = 1
    Workers = 2
    Stop = FALSE
    Day = 0
    MaxTime = 2
    MaxRename = 1
    MaxRuns = 2
    MaxImport = 1
    MaxTrouble = 1
INVARIANTS
    TypeOK
    RequirementsFirst
PROPERTIES
    MailsApart
    RefreshIsUpstream
    OwnPushesAreKnown
CHECK_DEADLOCK FALSE
