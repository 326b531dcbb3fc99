\* Three sets, a list of up to three nodes, dumped again and again
SPECIFICATION Spec
CONSTANTS
    Ids = {a, b, c}
    ListId = l
    Nobody = Nobody
    MaxMembers = 3
    MaxReplaced = 0
    Dumps = TRUE
SYMMETRY Interchange
VIEW WithoutAnswer
INVARIANT DumpMisses
