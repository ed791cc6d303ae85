SPECIFICATION ConsumerSpec
CONSTANTS
    eth0 = eth0
    eth1 = eth1
    d = d
    long = long
    junk = junk
    Iface = {eth0, eth1, junk}
    Descr = {d, long}
    LongDescr = {long}
    Bad = Bad
    NonUtf8 = {eth1}
    Garbled = junk
    HeaderCells = 2
    HMSG_MAX_SIZE = 2
    InitialIfs <- MCInitialIfs
    Faults = {"undecodable", "wrong_type", "reject"}
    MaxFlaps = 1
    MaxNotes = 2
    MaxCalls = 2
    Async = FALSE
PROPERTIES
    CallReturns
    NoteDelivered
    IterationEnds
CHECK_DEADLOCK FALSE
