CONSTANTS
    Sessions <- ManySessions
    Loads <- SomeLoads
    ExitCodes <- SomeCodes
    MaxSamples <- FewSamples
    Walls <- SomeWalls
    Outputs <- SomeOutputs
SPECIFICATION SessionSpec
CHECK_DEADLOCK FALSE
INVARIANTS
    NoStrayContainer
    SnapshotHolds
    FiguresAreReal
    ReportIsHonest
    SubmissionIsRun
PROPERTY SessionEnds
