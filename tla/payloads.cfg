SPECIFICATION TablesSpec
CONSTANTS
    PTR_SIZE = 8
    USIZE_MAX = 2000000000
    WordSize = 8
    AlignOfU64 = 8
    HeapAddress = 1000000001
    ChassisIds = {2, 3}
    ChassisShape <- MCChassisShape
    PortShape <- MCPortShape
    NoiseWord = {0, 1000000000}
    MaxStr = 19
    NameLens = {0, 1, 2, 3, 4, 5, 6, 15}
    MaxIfs = 2
    MaxNeighbors = 1
INVARIANTS
    HardwareRoundTrip
    LayoutsNotConfused
    ChangeMatchesHardware
    InterfacesRoundTrip
    RequestsAsMarshalled
    WholeOrNothing
CHECK_DEADLOCK FALSE
