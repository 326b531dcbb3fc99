\* Three sets, a list of up to four nodes, two replacements
SPECIFICATION Spec
CONSTANTS
    Ids = {a, b, c}
    ListId = l
    Nobody = Nobody
    MaxMembers = 4
    MaxReplaced = 2
    Dumps = FALSE
SYMMETRY Interchange
VIEW WithoutAnswer
INVARIANTS TypeOK RefsExact ElementsCounted
PROPERTY ListKept
