CONSTANTS
    h1 = h1
    h2 = h2
    Handles <- MCHandles
    MaxSize = 6
    Mounts <- AllMounts
SPECIFICATION Spec
INVARIANTS
    StoredAsAsked
    ReadsOwn
    FlushedStored
CHECK_DEADLOCK FALSE
