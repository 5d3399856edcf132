SPECIFICATION Spec
CONSTANTS
    a = a
    b = b
    x = x
    y = y
    Clients = {a, b}
    Names = {x, y}
    NameOf <- OwnName
    TotalEntity = 1
    MaxClients = 2
    MaxData <- OneMessage
    MaxTear <- TearOnce
    MaxReuse <- ReuseOnce
    SockBuf = 1
    NoClient = NoClient
INVARIANTS
    RegistrationSettles
PROPERTIES
    ReadsGoOn
    
CHECK_DEADLOCK FALSE
