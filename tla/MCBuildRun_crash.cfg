SPECIFICATION Spec
CONSTANTS
    Package = {p, q}
    MaxCommit = 2
    MaxDistro = 1
    DtCommit <- DistinctDates
    SharedDistgit = FALSE
    Main = main
    Importer = {}
    None = none
    MaxRetries = 0
    Stop = FALSE
    SyncMayFail = TRUE
    ForeignKeys = TRUE
    Targets <- FullRuns
    Workers = 2
    Sequential = FALSE
    MaxPush = 2
    MaxOrder = 1
    Bootstrap = {p, q}
    AllowForce = FALSE
    MaxCrash = 1
    MaxRecheck = 0
INVARIANTS
    TypeOK
    NothingBuiltTwice
    CleanDirectory
    ConsistentIsRecorded
PROPERTIES
    ImplementsRepository
SYMMETRY Projects
