CONSTANTS
    Clients = {c1, c2}
    Workers = {w1, w2}
    Ops <- InsertsAndDeletes
    TableLimit = 1
    MaxFailures = 0
SPECIFICATION Spec
CHECK_DEADLOCK FALSE
INVARIANT EntryIdsUnique
