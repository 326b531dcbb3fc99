\* Liveness: commands that wait under the nfnl mutex, reclaiming of sets
CONSTANTS
    Sets = {s1, s2}
    NULL = NULL
    Names = {a, b}
    Kinds = {"plain", "list"}
    Rules = {r1}
    Elems = {e1}
    Dumpers = {d1}
    Clients = {}
    Packets = {p1}
    Timeouts = TRUE
    MaxSets = 1
    IP_SET_INC = 1
    IdMod = 4
SPECIFICATION FairSpec
PROPERTIES
    DestroyedSetFreed
    NfnlReleased
CHECK_DEADLOCK FALSE
