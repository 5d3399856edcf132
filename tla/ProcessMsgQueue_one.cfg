SPECIFICATION Spec
CONSTANTS
    Producers = {p1, p2}
    Consumers = {c1}
    MaxPush = 2
    EventRange = 8
    MaxQuit = 1
    MaxOther = 1
    NoProcess = NoProcess
INVARIANTS
    TypeOK
    EventAccounting
    NoLostPermit
PROPERTIES
    ImplementsFIFO
    PopsGoOn
CHECK_DEADLOCK FALSE
