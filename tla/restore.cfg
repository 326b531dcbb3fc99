\* All files of three lines, two commands of another client
SPECIFICATION Spec
CONSTANTS
    SetNames = {"a", "b"}
    MaxElem = 3
    Files <- Mixed
    Existing = {"a"}
    BufSize = 3
    Batch = 2
    MaxForeign = 2
    MaxFull = 1
    SharedNext = FALSE
INVARIANTS TypeOK
PROPERTIES InOrder Ends
CHECK_DEADLOCK FALSE
