CONSTANTS
    Call = {c1, c2}
    End = {e1}
    Server = {srv}
    None = None
    MaxObjects = 1
SPECIFICATION Spec
CHECK_DEADLOCK FALSE
PROPERTIES
    CallsReturn
