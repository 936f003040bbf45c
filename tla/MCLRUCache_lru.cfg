CONSTANTS
    Keys = {1, 2, 3}
    Values = {"v", "w"}
    Buffers = {b1, b2, b3}
    Shape <- ShapeOf
    KeySize <- One
    ValueSize <- Bytes
    Capacity = 2
    kDefaultBlockSize = 4
    MayReuse = FALSE
    MaxPuts = 4
SPECIFICATION Spec
SYMMETRY Symmetry
INVARIANTS LeastRecentEvicted IndexMatchesList HitIsLatest RefsExact
CHECK_DEADLOCK FALSE
