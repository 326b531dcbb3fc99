\* Two regions of two buckets, one element in the second bucket
SPECIFICATION Spec
CONSTANTS
    e1 = e1
    e2 = e2
    e3 = e3
    e4 = e4
    Elems = {e4}
    NoElem = NoElem
    Client = Client
    Packets = {}
    Testers = {}
    HKEY <- Collide
    Buckets = 4
    Locks = 2
    InitSize = 2
    Creations <- GrowOrForce
    MaxElem = 2
    CountMod = 16
    MaxBusy = 1
INVARIANT Counted
