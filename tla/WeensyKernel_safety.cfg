CONSTANTS
    NPages = 22
    NProc = 4
    Starts = {2, 3}
    KernelStart = 3
    StackTop = 6
    IOStart = 7
    IOEnd = 8
    KernelEndByte = 1
    UserPages = 5
    HighStart = 4
    Programs <- ShortOrLong
SPECIFICATION Spec
CHECK_DEADLOCK FALSE
INVARIANTS
    PagesHaveOneUse
    KernelIsSpared
    AllocNeverPanics
    RunnerIsComplete
PROPERTIES
    NobodyStarves
