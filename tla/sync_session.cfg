SPECIFICATION Spec
CONSTANTS
    eth0 = eth0
    eth1 = eth1
    d = d
    long = long
    junk = junk
    Iface = {eth0, eth1}
    Descr = {d, long}
    LongDescr = {long}
    Bad = Bad
    NonUtf8 = {}
    Garbled = eth0
    HeaderCells = 2
    HMSG_MAX_SIZE = 2
    InitialIfs <- MCInitialIfs
    Faults = {"undecodable", "wrong_type", "reject", "none_payload"}
    MaxFlaps = 2
    MaxNotes = 2
    MaxCalls = 3
    Async = FALSE
INVARIANTS
    TypeOK
    AnswersThisCall
    StaysFramed
    SetPortOutcome
    TooLongFails
    IoErrorIsFinal
    AllInterfacesComplete
    AllInterfacesInOrder
    NoNoteLost
    EndMeansHungUp
PROPERTIES
    EndIsFinal
    FetchedIsAsked
    ImplementsExchange
CHECK_DEADLOCK FALSE
