CONSTANTS
    Clients = {c1}
    Workers = {w1, w2}
    Ops <- FourInserts
    TableLimit = 1
    MaxFailures = 1
SPECIFICATION FairSpec
CHECK_DEADLOCK FALSE
PROPERTY EveryCallReturns
