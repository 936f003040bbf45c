CONSTANTS
    Hash <- OneHash
    hash_k_ = 1
    BitsPerKey = 8
    kMaxBufferSize = 3
    SizeOf <- OneOrTwo
    BlkLimit = 1
    FileLimit = 4
    Inputs <- OneToThree
SPECIFICATION Spec
INVARIANTS NoDanglingEntry AgreesWithMerge FilesInBounds
CHECK_DEADLOCK FALSE
