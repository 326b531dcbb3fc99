\* Three elements in one bucket, a command, a packet and a test
SPECIFICATION Spec
CONSTANTS
    e1 = e1
    e2 = e2
    e3 = e3
    e4 = e4
    Elems = {e1, e2, e3}
    NoElem = NoElem
    Client = Client
    Packets = {p}
    Testers = {q}
    HKEY <- Collide
    Buckets = 1
    Locks = 1
    InitSize = 2
    Creations <- GrowOrForce
    MaxElem = 2
    CountMod = 16
    MaxBusy = 2
SYMMETRY Interchange
VIEW WithoutAnswer
INVARIANTS TypeOK Counted
PROPERTY Kept

