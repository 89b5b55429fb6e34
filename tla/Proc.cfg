SPECIFICATION Spec
CONSTANTS
    NPROC = 3
    MaxPid = 5
    Statuses = {7}
    TotalPages = 12
    Calls = {"create", "wait", "exit", "yield", "sleep", "return", "intr_on", "intr_off"}
INVARIANTS
    TypeOK
    NoPanic
    OneRunner
    InterruptStatePreserved
    ChildStillThere
    IdleOnlyWhenNothingRunnable
PROPERTIES
    TrapTransparent
