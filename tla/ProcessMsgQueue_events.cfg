SPECIFICATION SafeSpec
CONSTANTS
    Producers = {p1}
    Consumers = {c1, c2}
    MaxPush = 1
    EventRange = 4
    MaxQuit = 0
    MaxOther = 0
    NoProcess = NoProcess
INVARIANTS
    EventsAreAvailable
CHECK_DEADLOCK FALSE
