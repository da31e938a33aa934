\* Every command of the security toolkit, with the scanners in any order.
SPECIFICATION EngineSpec
CHECK_DEADLOCK FALSE
CONSTANTS
    Endings <- SomeEndings
    Plugins <- AllPlugins
    Suffix <- SomeSuffixes
    Hidden <- SomeHidden
    Commands <- SomeCommands
    Results <- SomeResults
INVARIANTS
    ReportIsTrue
    CommandIsObeyed
    FindingsSurvive
    NothingLeftBehind
PROPERTIES
    CommandEnds
