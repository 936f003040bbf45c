CONSTANTS
    Threads = {t1, t2, t3, t4, t5}
    Option = "Allow"
    MaxSpurious = 0
SPECIFICATION FairSpec
INVARIANTS MutualExclusion NoStranded
PROPERTIES ImplementsSharedLock WriterGetsIn ReadersGetIn
