SPECIFICATION Spec
CONSTANTS
    Procs <- MCProcs
    MappedAt <- PageOne
    Values <- MCValues
    \* not so in kvminit(): user mode would not be reached at all, and what
    \* this run is about, the page mapped at TRAPFRAME, would not show
    KernelMapsTrampoline = TRUE
INVARIANTS
    RegistersRestored
