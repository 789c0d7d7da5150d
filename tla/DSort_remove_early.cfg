SPECIFICATION Spec
CONSTANTS
    Targets = {t1, t2}
    Stranger = stranger
    ProxyNode = proxy
    MaxFaults = 1
    LossyNetwork = FALSE
    LossyReplies = FALSE
    EarlyClients = TRUE
    StrayRequests = {}
    ClientRequests <- StartRemove
INVARIANT
    RemoveOnlyAfterCleanup
CHECK_DEADLOCK FALSE
