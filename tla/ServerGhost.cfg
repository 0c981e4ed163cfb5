SPECIFICATION FairSpec
CONSTANTS
    c1 = c1
    c2 = c2
    Conn = {c1, c2}
    NoConn = NoConn
    MAXCLI = 3
    NoFile = 6
    Commands = {}
    MaxSay = 0
CHECK_DEADLOCK FALSE
PROPERTIES
    DepartedReaped
