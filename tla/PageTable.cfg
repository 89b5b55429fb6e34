SPECIFICATION Spec
CONSTANTS
    Frames = {f1, f2, f3, f4, f5, f6, f7, f8, f9}
    Foreign = {tramp, low, text, uart}
    text = text
    uart = uart
    trampoline = tramp
    PageOne = low
    Idx = {0, 1}
    Kernel = kernel
    User = user
    Null = null
    TRAMPOLINE <- Top
    TRAPFRAME <- BelowTop
    KernelMaps <- MCKernelMaps
    ExtraMaps <- MCExtraMaps
INVARIANTS
    EachFrameOneUse
    NoPanic
PROPERTIES
    ImplementsAddressSpace
