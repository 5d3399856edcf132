SPECIFICATION Spec
CONSTANTS
    Threads = {t1, t2}
    PoolSize = 24
    Alignment = 4
    PoolHeader = 8
    NodeHeader = 4
    LargeHeader = 8
    MaxSmall = 12
    SizeRange = 1024
    Sizes = {3, 9, 20}
    MaxCall = 4
    NoThread = NoThread
INVARIANTS
    TypeOK
    BlocksApart
    DestroyFreesAll
PROPERTIES
    AllocationEnds
CHECK_DEADLOCK FALSE
