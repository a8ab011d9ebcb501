SPECIFICATION Spec
CONSTANTS
    P1 = P1
    P2 = P2
    C1 = C1
    C2 = C2
    Package = {P1, P2}
    MaxCommit = 1
    MaxDistro = 1
    DtCommit <- Dates
    SharedDistgit = FALSE
    Client = {t1, t2}
    None = none
    Name = {n}
    Component = {C1, C2}
    ComponentOf <- Components
    UseComponents = TRUE
    AggFile <- OneFile
    MaxBatch = 2
    LinkMayFail = TRUE
    ForeignKeys = TRUE
    MaxKill = 1
    Job = {j1, j2}
    NotGiven = notgiven
    MaxVotes = 3
    User = {u}
    Group = {w, g}
    Memberships = {{w}, {g}}
    Writers = {w}
    CacheTimeout = 1
    MaxRetry = 2
    Patience = 0
    MaxTime = 1
    Table <- SmallTable
    MaxCalls = 2
    MaxAdmin = 1
INVARIANTS
    TypeOK
    RolesAreFresh
    AggTempInUse
    PipelineOrder
PROPERTIES
    RollBackRestores
    RecordedIsLinked
SYMMETRY ClientSymmetry
CHECK_DEADLOCK FALSE
