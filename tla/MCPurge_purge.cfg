SPECIFICATION Spec
CONSTANTS
    P1 = P1
    P2 = P2
    C = C
    Package = {P1, P2}
    MaxCommit = 2
    MaxDistro = 1
    DtCommit <- Dates
    SharedDistgit = FALSE
    Client = {t}
    None = none
    Name = {n}
    Component = {C}
    ComponentOf <- OneComponent
    UseComponents = TRUE
    AggFile <- TwoFiles
    MaxBatch = 1
    LinkMayFail = FALSE
    ForeignKeys = TRUE
    MaxKill = 0
    Start <- Tables
    OlderThan = 1
    ExcludeDirs = {"consistent"}
    MaxRetries = 0
    MaxDay = 2
    MaxPromos = 1
    MaxBuilds = 2
    MaxTrouble = 1
INVARIANTS
    TypeOK
    NewestSuccessKept
    LinksAreComplete
    FlagsMatchDirs
    AggregatesKept
PROPERTIES
    PromotedExists
CHECK_DEADLOCK FALSE
