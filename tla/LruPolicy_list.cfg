CONSTANTS
    a = a
    b = b
    c1 = c1
    Marker = Marker
    Async = Async
    Evictor = Evictor
    None = None
    Names <- TwoNames
    Nodes <- ThreeNodes
    Callers <- OneCaller
    maxEviction = 8
    Opened <- OtherName
    Purged <- OneName
    Pends <- OtherName
    Asked <- OneName
SPECIFICATION Spec
INVARIANTS
    ListIntact
    CachedListed
    SnapshotRestores
CHECK_DEADLOCK FALSE
