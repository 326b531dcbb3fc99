\* Sets without members: rules, swaps, a dump, a retried command, a packet
CONSTANTS
    Sets = {s1, s2, s3}
    NULL = NULL
    Names = {a, b, c}
    Kinds = {"plain"}
    Rules = {r1, r2}
    Elems = {}
    Dumpers = {d1}
    Clients = {c1}
    Packets = {p1}
    Timeouts = FALSE
    MaxSets = 1
    IP_SET_INC = 1
    IdMod = 4
SPECIFICATION Spec
SYMMETRY Symmetry
INVARIANTS
    TypeOK
    TableExact
    PinsAccounted
    DumpIndexPinned
    PacketSetAlive
    DestroyAllQuiet
    DumpCoversPlain
PROPERTY PinnedSetKept
