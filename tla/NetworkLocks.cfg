SPECIFICATION Spec
CONSTANTS
    r1 = r1
    r2 = r2
    r3 = r3
    a = a
    b = b
    br = br
    None = None
    Requests = {r1, r2, r3}
    Names = {a}
    Bridges = {br}
    IdPrefix <- NoPrefix
    Predefined = {}
    MayFail = {"FilterNetworks", "createOptions", "UsedNetworkInfo", "CreateNetwork", "NetworkID", "setBridgeName", "AddRule", "HandleRemove", "RemoveNetwork"}
INVARIANTS TypeOK MutualExclusion RefCountExact AnswerTruthful
PROPERTIES OrphanOnlyByStaleRemove ImplementsStore
SYMMETRY Symmetry
CHECK_DEADLOCK FALSE
