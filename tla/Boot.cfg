SPECIFICATION MCSpec
CONSTANTS
    Slack = 3
    TickGap = 9
    SbssWords = 2
    BssWords = 3
    LoaderZeroes = TRUE
    TextSizes = {2, 10}
    DataSizes = {1, 21}
    NPROC = 64
    U64 = 32
    SV39 = 16
    PGSIZE = 4
    PAs = {0, 4, 6, 28}
    RxDepth = 2
    MaxInput = 3
    MaxOutput = 2
    MaxDisk = 1
    MaxStray = 2
INVARIANTS
    HandlerReady
    MapSound
    SurvivesPaging
    MapsExactly
PROPERTIES
    Completes
    InterruptsServed
