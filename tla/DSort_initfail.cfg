SPECIFICATION Spec
CONSTANTS
    Targets = {t1, t2, t3}
    Stranger = stranger
    ProxyNode = proxy
    MaxFaults = 1
    LossyNetwork = FALSE
    LossyReplies = FALSE
    EarlyClients = FALSE
    StrayRequests = {}
    ClientRequests <- StartOnly
INVARIANT
    NoStartAfterFailedInit
CHECK_DEADLOCK FALSE
