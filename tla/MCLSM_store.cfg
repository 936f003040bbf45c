CONSTANTS
    Keys = {0, 1, 2, 3, 4, 5, 6, 7, 8, 9, 10, 11, 12, 13, 14, 15, 16, 17, 18, 19}
    TableLimit = 1
    FileLimit = 3
    LevelLimit <- OneThenTwo
    Workloads <- Mixed
    Faults = TRUE
SPECIFICATION FairSpec
INVARIANTS EntriesOnce LevelsBounded OrderedIfInOrder StoredIfInOrder
PROPERTY FlushEnds
CHECK_DEADLOCK FALSE
