SPECIFICATION Spec
CONSTANTS
    Package = {p, q}
    MaxCommit = 2
    MaxDistro = 1
    DtCommit <- DistinctDates
    SharedDistgit = FALSE
    Main = main
    Importer = {i1}
    None = none
    MaxRetries = 1
    Stop = FALSE
    SyncMayFail = FALSE
    ForeignKeys = TRUE
    Targets <- FullRuns
    Workers = 1
    Sequential = FALSE
    MaxPush = 2
    MaxOrder = 0
    Bootstrap = {}
    AllowForce = FALSE
    MaxCrash = 0
    MaxRecheck = 0
PROPERTIES
    ImportIsNewer
SYMMETRY Projects
