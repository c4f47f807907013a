CONSTANTS
    f1 = f1
    f2 = f2
    h1 = h1
    h2 = h2
    Service = Service
    None = None
    Files <- TwoFiles
    Handles <- TwoHandles
    CountMod = 8
    MaxVer = 3
    MaxDirty = 2
    Mounts <- SafeMounts
SPECIFICATION Spec
INVARIANTS
    TypeOK
    HandleCountExact
    DirtyCountExact
    UnsyncedProtected
    DataSurvives
    ReadsLatest
    QuiescentSynced
PROPERTIES
    CloudNeverRegresses
CHECK_DEADLOCK FALSE
