SPECIFICATION FairSpec
CONSTANTS
    r1 = r1
    r2 = r2
    r3 = r3
    a = a
    b = b
    br = br
    None = None
    Requests = {r1, r2}
    Names = {a, b}
    Bridges = {br}
    IdPrefix <- NoPrefix
    Predefined = {}
    MayFail = {}

PROPERTIES CleanupRemovesNetwork
CHECK_DEADLOCK FALSE
