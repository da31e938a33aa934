CONSTANTS
    Follower = {f1, f2}
    HeartbeatEvery = 5
    MinTimeout = 15
    MaxTimeout = 30
    MaxDelay = 3
    MaxLosses = 1
SPECIFICATION Spec
CHECK_DEADLOCK FALSE
INVARIANTS
    NoUsurper
    Detection
PROPERTIES
    ElectionStarts
