SPECIFICATION Spec
CONSTANTS
    c1 = c1
    c2 = c2
    l1 = l1
    l2 = l2
    Cpus = {c1, c2}
    Locks = {l1, l2}
    NoCpu = NoCpu
    NoLock = NoLock
    Nestable <- OrderedNesting
INVARIANTS
    TypeOK
    MutualExclusion
    InterruptsOffInCriticalSection
    NoPanic
    InterruptStateRestored
    WaitsOnlyForOthers
SYMMETRY Symmetry
