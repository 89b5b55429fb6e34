SPECIFICATION STSpec
CONSTANTS
    NPROC = 4
    MaxPid = 4
    Statuses = {88}
    TotalPages = 16
    Calls = {"create", "wait", "exit"}
PROPERTIES
    SchedulerRegainsControl
