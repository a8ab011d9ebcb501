SPECIFICATION Spec
CONSTANTS
    Package = {p, q}
    MaxCommit = 2
    MaxDistro = 2
    DtCommit <- SameDates
    SharedDistgit = FALSE
    Main = main
    Importer = {}
    None = none
    MaxRetries = 0
    Stop = TRUE
    SyncMayFail = TRUE
    ForeignKeys = TRUE
    Targets <- FullRuns
    Workers = 1
    Sequential = TRUE
    MaxPush = 3
    MaxOrder = 0
    Bootstrap = {}
    AllowForce = TRUE
    MaxCrash = 0
    MaxRecheck = 1
INVARIANTS
    HistoryOrder
    VotedRowStays
    NothingBuiltTwice
SYMMETRY Projects
