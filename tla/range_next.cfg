\* A packet leaves its element in next while the mutex is released
SPECIFICATION Spec
CONSTANTS
    SetNames = {"a"}
    MaxElem = 3
    Files <- RangeFiles
    Existing = {"a"}
    BufSize = 3
    Batch = 2
    MaxForeign = 0
    MaxFull = 1
    SharedNext = TRUE
INVARIANT OnlyAsked
CHECK_DEADLOCK FALSE
