CONSTANTS
    Threads = {t1, t2, t3}
    SSTThreads = {t1, t2, t3}
    kDefaultReaderNum = 3
    Parts = {"min", "max", "data"}
    LongParts = {"data"}
    MaxReads = 3
SPECIFICATION Spec
INVARIANTS OwnPart ReadersKept
SYMMETRY Symmetry
CHECK_DEADLOCK FALSE
