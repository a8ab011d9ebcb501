SPECIFICATION FairSpec
CONSTANTS
    Package = {p, q}
    MaxCommit = 1
    MaxDistro = 1
    DtCommit <- DistinctDates
    SharedDistgit = FALSE
    Main = main
    Importer = {}
    None = none
    MaxRetries = 0
    Stop = FALSE
    SyncMayFail = FALSE
    ForeignKeys = TRUE
    Targets <- FullRuns
    Workers = 1
    Sequential = FALSE
    MaxPush = 1
    MaxOrder = 0
    Bootstrap = {}
    AllowForce = FALSE
    MaxCrash = 1
    MaxRecheck = 0
PROPERTIES
    SuccessIsPublished
