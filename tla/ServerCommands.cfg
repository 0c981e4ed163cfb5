SPECIFICATION Spec
CONSTANTS
    c1 = c1
    c2 = c2
    Conn = {c1, c2}
    NoConn = NoConn
    MAXCLI = 3
    NoFile = 6
    Commands = {"all", "file", "yes"}
    MaxSay = 2
SYMMETRY Clients
CHECK_DEADLOCK FALSE
INVARIANTS
    ServedWhileOpen
PROPERTIES
    ServesSessions
