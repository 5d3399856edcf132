SPECIFICATION Spec
CONSTANTS
    server = server
    alpha = alpha
    beta = beta
    epoll = epoll
    send = send
    Writers = {epoll, send, alpha, beta}
    Processes = {server, alpha, beta}
    ProcessOf <- WithServer
    MaxLen = 1
    MaxEnd = 5
INVARIANTS
    TypeOK
    OneWriter
    WaitsAreAcyclic
CHECK_DEADLOCK FALSE
