SPECIFICATION TransfersFairSpec
CONSTANTS
    s1 = s1
    Sessions = {s1}
    Kinds = {"events", "stats", "follow", "exec", "load", "pull"}
    StatsCap = 2
    MaxItems = 5
    MayFail = {"errCh", "collect", "status", "viewer", "exec", "load", "pull"}
INVARIANT UnresolvedHasStatus
PROPERTIES Chained ClientLossNoticed EndNoticed FeederEndsUnlessSending StdinEndPassedOn ExecReturns LoadReturns
CHECK_DEADLOCK FALSE
