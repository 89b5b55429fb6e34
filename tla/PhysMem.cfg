SPECIFICATION Spec
CONSTANTS
    Threads = {t1, t2}
    Boot = t1
    NoThread = none
    PGSIZE = 4
    End = 5
    PHYSTOP = 24
    Strays = {0, 4, 10, 24}
INVARIANTS
    FreeListIntact
    EachPageOnce
PROPERTIES
    OwnerDataIntact
    ImplementsPageAlloc
