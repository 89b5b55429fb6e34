SPECIFICATION MCSpec
CONSTANTS
    MsgLen = 2
    FIFODepth = 2
    MaxCalls = 1
    MaxTicks = 1
    MaxFaults = 2
    LL = 1048576
    INT = 256
    Nibbles = 5
    BufSize = 7
    Raws <- MCRaws
    MaxLen = 5
INVARIANTS
    OutputIntact
    PrintfNeverPanics
    HangsOnlyInWindow
    PrintsValue
    FormatFollowed
PROPERTIES
    PanicReported
