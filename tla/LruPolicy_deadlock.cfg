CONSTANTS
    a = a
    b = b
    c1 = c1
    Marker = Marker
    Async = Async
    Evictor = Evictor
    None = None
    Names <- OneName
    Nodes <- TwoNodes
    Callers <- OneCaller
    maxEviction = 8
    Opened <- OneName
    Purged <- OneName
    Pends <- NoName
    Asked <- OneName
SPECIFICATION FairSpec
PROPERTIES
    EvictionEnds
CHECK_DEADLOCK FALSE
