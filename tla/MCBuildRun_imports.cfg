SPECIFICATION Spec
CONSTANTS
    Package = {p, q}
    MaxCommit = 1
    MaxDistro = 1
    DtCommit <- DistinctDates
    SharedDistgit = FALSE
    Main = main
    Importer = {i1, i2}
    None = none
    MaxRetries = 0
    Stop = FALSE
    SyncMayFail = FALSE
    ForeignKeys = TRUE
    Targets <- AnyRuns
    Workers = 2
    Sequential = FALSE
    MaxPush = 1
    MaxOrder = 0
    Bootstrap = {}
    AllowForce = FALSE
    MaxCrash = 0
    MaxRecheck = 1
INVARIANTS
    LockHeld
    TempInUse
    BlockInv
PROPERTIES
    ConsistentIsClean
    VoteIsDeserved
SYMMETRY Projects
