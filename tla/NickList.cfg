SPECIFICATION Spec
CONSTANTS
    h1 = h1
    h2 = h2
    h3 = h3
    Handler = {h1, h2, h3}
    FdOf <- Descriptors
    Nick <- Name
    FirstWord <- NameWord
    Null = Null
    Junk = Junk
    MaxNick = 1
    MaxNode = 4
CHECK_DEADLOCK FALSE
INVARIANTS
    TypeOK
    ForwardLinks
    AdminFirst
    NoFreedLinked
    DuplicatesOverlap
PROPERTIES
    NicknamesRemoved
