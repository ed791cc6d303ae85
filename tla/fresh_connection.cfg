SPECIFICATION Spec
CONSTANTS
    eth0 = eth0
    eth1 = eth1
    d = d
    long = long
    junk = junk
    Iface = {eth0, eth1}
    Descr = {d}
    LongDescr = {}
    Bad = Bad
    NonUtf8 = {}
    Garbled = eth0
    HeaderCells = 2
    HMSG_MAX_SIZE = 2
    InitialIfs <- MCInitialIfs
    Faults = {"undecodable", "wrong_type", "reject"}
    MaxFlaps = 2
    MaxNotes = 2
    MaxCalls = 3
    Async = FALSE
INVARIANT FreshConnectionPerRequest
CHECK_DEADLOCK FALSE
