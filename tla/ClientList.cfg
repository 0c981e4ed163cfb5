SPECIFICATION Spec
CONSTANTS
    NConn = 3
    NoFile = 6
    MaxNick = 1
    MaxOp = 2
CHECK_DEADLOCK FALSE
INVARIANTS
    TypeOK
    NeverTwice
    DiesOfDeparture
PROPERTIES
    ReachesStayers
    WhoisFinds
    OwnMessage
