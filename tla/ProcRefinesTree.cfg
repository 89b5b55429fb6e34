SPECIFICATION Spec
CONSTANTS
    NPROC = 5
    MaxPid = 5
    Statuses = {7, 8}
    TotalPages = 16
    Calls = {"create", "wait", "exit", "yield"}
INVARIANTS
    NoLostWakeup
    ParentAlive
    PagesConserved
PROPERTIES
    ImplementsProcTree
