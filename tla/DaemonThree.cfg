SPECIFICATION Spec
CONSTANTS
    p1 = p1
    p2 = p2
    p3 = p3
    None = None
    Processes = {p1, p2, p3}
    Modes <- AllPlain
    MayFail = {}
INVARIANTS OneInstance
CHECK_DEADLOCK FALSE
