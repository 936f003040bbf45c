CONSTANTS
    Keys = {1, 2, 3}
    Values = {"v", "w"}
    Buffers = {b1, b2, b3}
    Shape <- ShapeOf
    KeySize <- One
    ValueSize <- Bytes
    Capacity = 2
    kDefaultBlockSize = 4
    MayReuse = TRUE
    MaxPuts = 4
SPECIFICATION Spec
SYMMETRY Symmetry
INVARIANT IndexLive
CHECK_DEADLOCK FALSE
