CONSTANTS
    MinLength = 2
    MaxFreq = 7
    Texts = {}
    MinNear = 3
    Threshold = 70
    Cases <- Various
INIT CmdInit
NEXT CmdNext
CHECK_DEADLOCK FALSE
INVARIANTS
    ScanExact
    EdgesAreLatest
    GraphIsWhole
    ClassesAreComplete
    OrderDoesNotMatter
    NearComponents
