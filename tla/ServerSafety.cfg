SPECIFICATION Spec
CONSTANTS
    c1 = c1
    c2 = c2
    c3 = c3
    Conn = {c1, c2, c3}
    NoConn = NoConn
    MAXCLI = 3
    NoFile = 6
    Commands = {}
    MaxSay = 0
SYMMETRY Clients
CHECK_DEADLOCK FALSE
INVARIANTS
    TypeOK
    TableMatchesKernel
    EventsAreCurrent
    NeverOverrun
    ListMatchesTable
PROPERTIES
    ServesSessions
