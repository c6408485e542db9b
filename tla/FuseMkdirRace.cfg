CONSTANTS
    ProcessNum = 2
    ThreadNum = 1
    MountPolls = 2
SPECIFICATION Spec
INVARIANT ClientRunsOnMountPoint
