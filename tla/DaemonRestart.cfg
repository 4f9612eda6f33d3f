SPECIFICATION FairSpec
CONSTANTS
    p1 = p1
    p2 = p2
    p3 = p3
    None = None
    Processes = {p1, p2}
    Modes <- AllPlain
    MayFail = {}
PROPERTIES RestartServes
CHECK_DEADLOCK FALSE
