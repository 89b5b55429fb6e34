SPECIFICATION PreemptiveSpec
CONSTANTS
    NPROC = 3
    MaxPid = 3
    Statuses = {7}
    TotalPages = 12
    Calls = {"create", "wait", "exit", "sleep", "intr_on"}
PROPERTIES
    NoStarvation
    OrphansReaped
    WaitReturns
