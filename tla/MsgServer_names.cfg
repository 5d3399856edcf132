SPECIFICATION Spec
CONSTANTS
    a = a
    b = b
    x = x
    y = y
    Clients = {a, b}
    Names = {x, y}
    NameOf <- OwnName
    TotalEntity = 2
    MaxClients = 2
    MaxData <- TwoMessages
    MaxTear <- Never
    MaxReuse <- Never
    SockBuf = 2
    NoClient = NoClient
INVARIANTS
    TypeOK
    EntityHasOneOwner
    TableMatchesConnections
    DeliveredInOrder
PROPERTIES
    LogOutIsFinal
CHECK_DEADLOCK FALSE
