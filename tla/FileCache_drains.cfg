CONSTANTS
    f1 = f1
    f2 = f2
    h1 = h1
    h2 = h2
    Service = Service
    None = None
    Files <- OneFile
    Handles <- OneHandle
    CountMod = 8
    MaxVer = 2
    MaxDirty = 1
    Mounts <- DrainMounts
SPECIFICATION FairSpec
PROPERTIES
    NoUnaskedDeletion
    PendingDrains
