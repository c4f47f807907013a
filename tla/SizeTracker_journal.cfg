CONSTANTS
    m1 = m1
    m2 = m2
    a = a
    b = b
    h1 = h1
    h2 = h2
    Tool = Tool
    Mounts <- TwoMounts
    Files <- TwoFiles
    Handlers <- TwoHandlers
    MountOf <- OneEach
    MaxSize = 2
    MaxOps = 3
    MaxErrors = 1
    Settings <- AllSettings
SPECIFICATION FairSpec
INVARIANTS
    Accounted
    LimitKept
    ToolRepairs
PROPERTIES
    CatchesUp
CHECK_DEADLOCK FALSE
