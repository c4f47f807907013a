CONSTANTS
    Names = {1, 2, 3, 4}
    Handles = {1, 2}
    MaxVer = 2
    Mounts <- AllMounts
SPECIFICATION Spec
CHECK_DEADLOCK FALSE
INVARIANTS ListedOnce DirectoryKept CloudSettled
