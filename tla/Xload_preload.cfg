CONSTANTS
    root = root
    d = d
    a = a
    b = b
    z = z
    l1 = l1
    s1 = s1
    s2 = s2
    w1 = w1
    w2 = w2
    u1 = u1
    u2 = u2
    None = None
    Root = root
    Dirs <- MCDirs
    Files <- MCFiles
    Above <- MCAbove
    Blocks <- MCBlocks
    Listers <- MCListers
    Splitters <- MCSplitters
    Workers <- MCWorkers
    Users <- MCUsers
    MaxVersion = 2
    Mounts <- AllMounts
SPECIFICATION FairSpec
PROPERTIES
    FilesWhole
    OpensEnd
    Preloaded
CHECK_DEADLOCK FALSE
