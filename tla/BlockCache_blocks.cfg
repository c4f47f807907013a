CONSTANTS
    h1 = h1
    h2 = h2
    Handles <- TwoHandles
    PoolSize = 3
    HighPriority = 0
    BlockSize = 2
    MaxBlocks = 3
    MaxEtag = 4
    MIN_PREFETCH = 1
    MIN_RANDREAD = 1
    MIN_WRITE_BLOCK = 1
    MAX_FAIL_CNT = 1
    Mounts <- AllMounts
SPECIFICATION Spec
INVARIANTS
    ReadsLatest
    FlushedCommitted
    BlocksKept
    WaitsServed
CHECK_DEADLOCK FALSE
