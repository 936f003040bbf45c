CONSTANTS
    Workers = {w1, w2}
    Submitters = {s1, s2}
    Tasks = {k1, k2}
    NoTask = NoTask
SPECIFICATION FairSpec
CHECK_DEADLOCK FALSE
PROPERTY ShutdownWakesAll
