SPECIFICATION APSpec
CONSTANTS
    Threads = {t1}
    Boot = t1
    NoThread = none
    PGSIZE = 4
    End = 5
    PHYSTOP = 24
    Strays = {}
    Counts = {1, 2}
INVARIANT
    NoSharedPage
