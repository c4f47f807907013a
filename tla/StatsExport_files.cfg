CONSTANTS
    Comps = {c1}
    Threads = {1, 2}
    ChanCap = 1
    PipeCap = 1
    Keep = 2
    FileMax = 2
    FileCount = 3
    Mounts <- AllMounts
SPECIFICATION Spec
CHECK_DEADLOCK FALSE
INVARIANTS EventsKept OutputWhole
