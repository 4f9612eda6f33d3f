SPECIFICATION FairSpec
CONSTANTS
    p1 = p1
    p2 = p2
    p3 = p3
    None = None
    Processes = {p1, p2}
    Modes <- TwoModes
    MayFail = {"setup", "chown"}
INVARIANTS OneInstance NothingLeftOnExit
PROPERTIES SocketLostOnlyByLateCleanup StopsOnSignal
CHECK_DEADLOCK FALSE
