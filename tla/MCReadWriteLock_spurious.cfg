CONSTANTS
    Threads = {t1, t2, t3}
    Option = "Allow"
    MaxSpurious = 1
SPECIFICATION Spec
INVARIANT MutualExclusion
