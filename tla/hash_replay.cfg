\* Contents of the set and its prefix sizes: everything that can happen to two elements
CONSTANTS
    x1 = x1
    Elems = {x1, x2}
    Cidr <- OneCidr
    Tables = {t1, t2}
    NULL = NULL
    Packets = {p1, p2}
    Dumpers = {}
    KernelOps <- FirstOnly
    UserOps = {"add", "del", "flush"}
    Timeouts = TRUE
    Faults = {"nomem", "full"}
    MaxBits = 2
    MaxAd = 2
    MaxNets = 3
SPECIFICATION ReplaySpec
CHECK_DEADLOCK FALSE
SYMMETRY Symmetry
VIEW Relevant
INVARIANTS
    SettledExact
    CidrBooked
