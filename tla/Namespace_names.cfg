CONSTANTS
    t1 = t1
    t2 = t2
    Threads <- TwoThreads
    Files <- MCFiles
    Dirs <- MCDirs
    MaxSize = 2
    PageSize = 1
    MaxTime = 1
    Mounts <- AllMounts
SPECIFICATION Spec
INVARIANTS
    OwnChangesSeen
    ListingsTrue
    TimeoutHonoured
PROPERTY
    RenameKeeps
CHECK_DEADLOCK FALSE
