SPECIFICATION WalkSpec
CONSTANTS
    PTR_SIZE = 2
    USIZE_MAX = 31
    Words = {0, 3, 4, 5, 6, 31}
    PodSizes = {0, 2, 4}
    MaxWords = 6
INVARIANTS
    InBounds
    DepthBounded
CHECK_DEADLOCK FALSE
