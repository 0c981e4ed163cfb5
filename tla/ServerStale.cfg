SPECIFICATION Spec
CONSTANTS
    c1 = c1
    c2 = c2
    Conn = {c1, c2}
    NoConn = NoConn
    MAXCLI = 3
    NoFile = 6
    Commands = {"say"}
    MaxSay = 1
SYMMETRY Clients
CHECK_DEADLOCK FALSE
INVARIANTS
    OneReaderPerConnection
