CONSTANTS
    t1 = t1
    t2 = t2
    Threads <- TwoThreads
    Files <- MCFiles
    Dirs <- MCDirs
    MaxSize = 2
    PageSize = 1
    MaxTime = 1
    Mounts <- BackgroundMounts
SPECIFICATION Spec
PROPERTY
    CopyDone
CHECK_DEADLOCK FALSE
