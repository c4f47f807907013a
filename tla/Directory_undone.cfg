CONSTANTS
    Names = {1, 2, 3, 4}
    Handles = {1, 2}
    MaxVer = 2
    Mounts <- UndoMounts
SPECIFICATION Spec
CHECK_DEADLOCK FALSE
INVARIANT DirectoriesFound
