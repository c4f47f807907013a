CONSTANTS
    h1 = h1
    h2 = h2
    Handles <- MCHandles
    MaxSize = 6
    Mounts <- FaultyMounts
SPECIFICATION Spec
INVARIANTS
    SecondFlushStores
CHECK_DEADLOCK FALSE
