CONSTANTS
    Keys = {1, 2, 3, 4, 5}
    TableLimit = 1
    FileLimit = 2
    LevelLimit <- OneThenEight
    Workloads <- Gap
    Faults = FALSE
SPECIFICATION Spec
INVARIANT CompactedConsecutive
CHECK_DEADLOCK FALSE
