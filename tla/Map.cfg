SPECIFICATION MapSpec
CONSTANTS
    Keys = {1, 2, 3, 4, 5, 6, 7, 8, 9, 10}
    Values = {0, 1}
    Value0 = 0
    NoValue = NoValue
    Written = {5}
    MaxValued = 5
INVARIANTS
    MapTypeOK
    RedBlack
    SentinelIsSound
    VisitsAreComplete
PROPERTIES
    ImplementsDictionary
    FixUpClimbs
