SPECIFICATION TablesSpec
CONSTANTS
    PTR_SIZE = 4
    USIZE_MAX = 2000000000
    WordSize = 4
    AlignOfU64 = 8
    HeapAddress = 1000000001
    ChassisIds = {2, 3}
    ChassisShape <- MCChassisShape
    PortShape <- MCPortShape
    NoiseWord = {0, 1000000000}
    MaxStr = 19
    NameLens = {0, 1, 2, 3, 4, 5, 6, 15}
    MaxIfs = 1
    MaxNeighbors = 2
INVARIANTS
    HardwareRoundTrip
    ChassisShared
    ChangeMatchesHardware
    LayoutsNotConfused
CHECK_DEADLOCK FALSE
