SPECIFICATION Spec
CONSTANTS
    r1 = r1
    r2 = r2
    r3 = r3
    r4 = r4
    d = d
    m = m
    n = n
    None = None
    Requests = {r1, r2}
    Networks = {d, m, n}
    Default = d
    Overlap <- TwoConnects
    MayFail = {}
INVARIANTS IndexIsMaximum
CHECK_DEADLOCK FALSE
