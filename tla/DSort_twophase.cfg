SPECIFICATION Spec
CONSTANTS
    Targets = {t1, t2}
    Stranger = stranger
    ProxyNode = proxy
    MaxFaults = 1
    LossyNetwork = TRUE
    LossyReplies = TRUE
    EarlyClients = TRUE
    StrayRequests = {}
    ClientRequests <- StartAbort
INVARIANT
    InitBeforeSort
SYMMETRY TargetSymmetry
CHECK_DEADLOCK FALSE
