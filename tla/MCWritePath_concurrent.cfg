CONSTANTS
    Clients = {c1, c2}
    Workers = {w1, w2}
    Ops <- ThreeConcurrent
    TableLimit = 1
    MaxFailures = 0
SPECIFICATION FairSpec
CHECK_DEADLOCK FALSE
PROPERTY EveryCallReturns
