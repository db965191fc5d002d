CONSTANTS
    Messages = {m1, m2}
    MsgLen = 2
    Base = 100
    CheapPrepend = 1
    InitSize = 3
    ExtraSize = 4
    MaxSubs = 1
    MaxConns = 1
    MaxCalls = 2
    MaxQueue = 2
SPECIFICATION Spec
CHECK_DEADLOCK FALSE
INVARIANTS
    StreamIntegrity
    InputIntegrity
    WritingIffOutput
    FinIsLast
    MapCoversOpen
    RemoveDefined
    RegisteredIsHeld
    ReclaimedWasAnnounced
PROPERTIES
    ClosedIsReclaimed
    ShutdownCompletes
