\* Lifetime of tables: a packet, gc, a dump and commands beside resizes that may fail
CONSTANTS
    Elems = {x1}
    Cidr <- OneCidr
    Tables = {t1, t2}
    NULL = NULL
    Packets = {p1}
    Dumpers = {d1}
    KernelOps <- AddDel
    UserOps = {"add", "del", "flush"}
    Timeouts = TRUE
    Faults = {"nomem", "full"}
    MaxBits = 2
    MaxAd = 2
    MaxNets = 2
SPECIFICATION FairQuietSpec
INVARIANTS
    TypeOK
    UrefExact
    TableAlive
    NoTableLost
    ReplayAlone
PROPERTIES
    ResizeEnds
    OldTableFreed
