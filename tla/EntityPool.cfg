SPECIFICATION Spec
CONSTANTS
    TotalEntity = 3
    Fillers = {f1}
    Releasers = {r1, r2}
    Address = {a1, a2, a3, a4}
    MaxThrow = 1
    NULL = NULL
    NoThread = NoThread
INVARIANTS
    TypeOK
    MsgInUseIsKept
    OccupiedIsAccountedFor
PROPERTIES
    AcquireSucceeds
CHECK_DEADLOCK FALSE
