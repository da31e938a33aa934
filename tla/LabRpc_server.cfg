CONSTANTS
    Call = {c1}
    End = {e1}
    Server = {srv}
    None = None
    MaxObjects = 3
SPECIFICATION Spec
CHECK_DEADLOCK FALSE
INVARIANTS
    AckedIsKept
PROPERTIES
    ImplementsAtMostOnce
    HungCallsReturn
    HealthyCallsSucceed
