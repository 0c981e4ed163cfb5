SPECIFICATION FairSpec
CONSTANTS
    h1 = h1
    h2 = h2
    h3 = h3
    Handler = {h1, h2}
    FdOf <- Descriptors
    Nick <- Nicknames
    FirstWord <- Words
    Null = Null
    Junk = Junk
    MaxNick = 1
    MaxNode = 3
CHECK_DEADLOCK FALSE
INVARIANTS
    DuplicatesOverlap
PROPERTIES
    RegistrationEnds
