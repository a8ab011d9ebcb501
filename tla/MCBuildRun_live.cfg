SPECIFICATION FairSpec
CONSTANTS
    Package = {p}
    MaxCommit = 2
    MaxDistro = 2
    DtCommit <- DistinctDates
    SharedDistgit = FALSE
    Main = main
    Importer = {i1}
    None = none
    MaxRetries = 1
    Stop = FALSE
    SyncMayFail = FALSE
    ForeignKeys = TRUE
    Targets <- FullRuns
    Workers = 1
    Sequential = FALSE
    MaxPush = 2
    MaxOrder = 0
    Bootstrap = {}
    AllowForce = FALSE
    MaxCrash = 1
    MaxRecheck = 0
INVARIANTS
    RetriesBounded
PROPERTIES
    TipsAreBuilt
    PublishedUnlessStale
