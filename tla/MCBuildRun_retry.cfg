SPECIFICATION FairSpec
CONSTANTS
    Package = {p}
    MaxCommit = 2
    MaxDistro = 1
    DtCommit <- DistinctDates
    SharedDistgit = FALSE
    Main = main
    Importer = {}
    None = none
    MaxRetries = 1
    Stop = FALSE
    SyncMayFail = FALSE
    ForeignKeys = TRUE
    Targets <- FullRuns
    Workers = 2
    Sequential = FALSE
    MaxPush = 2
    MaxOrder = 0
    Bootstrap = {}
    AllowForce = FALSE
    MaxCrash = 0
    MaxRecheck = 0
PROPERTIES
    RetriesAreRetried
