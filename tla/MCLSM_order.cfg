CONSTANTS
    Keys = {1, 2, 3}
    TableLimit = 2
    FileLimit = 2
    LevelLimit <- OneThenEight
    Workloads <- AnyInserts
    Faults = FALSE
SPECIFICATION Spec
INVARIANT LevelsOrdered
CHECK_DEADLOCK FALSE
