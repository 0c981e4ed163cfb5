SPECIFICATION Spec
CONSTANTS
    Lines <- MCLines
    MaxTyped = 2
    MaxOther = 1
CHECK_DEADLOCK FALSE
INVARIANTS
    TypeOK
    MessagesShown
PROPERTIES
    ServerUnderstands
    LinesSent
    LinesServed
    EndsWithServer
