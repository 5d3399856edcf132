SPECIFICATION SafeSpec
CONSTANTS
    a = a
    b = b
    x = x
    y = y
    Clients = {a, b}
    Names = {x}
    NameOf <- SameName
    TotalEntity = 2
    MaxClients = 2
    MaxData <- TwoMessages
    MaxTear <- Never
    MaxReuse <- Never
    SockBuf = 2
    NoClient = NoClient
INVARIANTS
    SendQueueHasDataOnly
CHECK_DEADLOCK FALSE
