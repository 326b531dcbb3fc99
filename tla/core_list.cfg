\* list:set sets with a timeout: members, gc timer, destruction of lists
CONSTANTS
    Sets = {s1, s2, s3}
    NULL = NULL
    Names = {a, b, c}
    Kinds = {"plain", "list"}
    Rules = {r1}
    Elems = {e1, e2}
    Dumpers = {}
    Clients = {}
    Packets = {p1}
    Timeouts = TRUE
    MaxSets = 2
    IP_SET_INC = 1
    IdMod = 5
SPECIFICATION QuietSpec
SYMMETRY Symmetry
INVARIANTS
    RefsAccounted
    HeldIndexLive
    LockedMemberLive
    NoNestedLists
\* a packet or a put stopped by BUG_ON stays where it is
CHECK_DEADLOCK FALSE
