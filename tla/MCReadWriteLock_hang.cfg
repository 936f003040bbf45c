CONSTANTS
    Threads = {t1, t2, t3}
    Option = "Disallow"
    MaxSpurious = 0
SPECIFICATION FairSpec
CHECK_DEADLOCK FALSE
PROPERTY WriterGetsIn
