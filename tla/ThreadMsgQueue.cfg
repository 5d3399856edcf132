SPECIFICATION Spec
CONSTANTS
    Producers = {p1, p2}
    Consumers = {c1, c2}
    MaxPush = 2
    MaxSpurious = 1
    NoThread = NoThread
INVARIANTS
    TypeOK
    EventAccounting
    NoLostWakeUp
PROPERTIES
    ImplementsChannel
CHECK_DEADLOCK FALSE
