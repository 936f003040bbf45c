CONSTANTS
    Clients = {c1, c2}
    Workers = {w1, w2}
    Ops <- AnyAfterInsert
    TableLimit = 1
    MaxFailures = 1
SPECIFICATION Spec
CHECK_DEADLOCK FALSE
SYMMETRY Symmetry
INVARIANTS WritesHitActiveTable NothingLost InsertIdsUnique Level0Ordered OneImmutable
PROPERTY MissOnlyDuringFlush
