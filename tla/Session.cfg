SPECIFICATION Spec
CONSTANTS
    Buffers = 1
    Entities = 1
    SockBuf = 1
    MaxSend = 2
    MaxServe = 2
    MaxMixed = 1
INVARIANTS
    TypeOK
    SentInOrder
    ReceivedInOrder
    EntitiesAreAccounted
PROPERTIES
    ExitEnds
    RecvMsgReturns
CHECK_DEADLOCK FALSE
