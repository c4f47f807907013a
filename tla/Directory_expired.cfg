CONSTANTS
    Names = {1, 2, 3, 4}
    Handles = {1, 2}
    MaxVer = 2
    Mounts <- MissedMounts
SPECIFICATION Spec
CHECK_DEADLOCK FALSE
INVARIANT FilesInDirectories
