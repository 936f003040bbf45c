CONSTANTS
    Hash <- SmallHash
    hash_k_ = 2
    BitsPerKey = 6
    kMaxBufferSize = 3
    SizeOf <- OneTwoOrFour
    BlkLimit = 2
    Contents <- Files
    QueryKeys = {1, 2, 3, 4, 5, 6, 7}
SPECIFICATION FairSpec
INVARIANTS LayoutExact FoundIfPresent
PROPERTY SearchEnds
CHECK_DEADLOCK FALSE
