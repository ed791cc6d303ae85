SPECIFICATION Spec
CONSTANTS
    eth0 = eth0
    eth1 = eth1
    d = d
    long = long
    junk = junk
    Iface = {eth0}
    Descr = {d}
    LongDescr = {}
    Bad = Bad
    NonUtf8 = {}
    Garbled = eth0
    HeaderCells = 2
    HMSG_MAX_SIZE = 1
    InitialIfs <- MCOneIf
    Faults = {"undecodable", "reject"}
    MaxFlaps = 0
    MaxNotes = 1
    MaxCalls = 3
    Async = TRUE
INVARIANTS
    SessionInv
    ReplyLag
    NoNoteLost
    SubscribedInStep
    OutcomeOfReply
PROPERTY IoErrorLasts
CHECK_DEADLOCK FALSE
