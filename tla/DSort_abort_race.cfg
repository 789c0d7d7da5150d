SPECIFICATION FairSpec
CONSTANTS
    Targets = {t1, t2}
    Stranger = stranger
    ProxyNode = proxy
    MaxFaults = 0
    LossyNetwork = FALSE
    LossyReplies = FALSE
    EarlyClients = TRUE
    StrayRequests = {}
    ClientRequests <- StartAbort
PROPERTY
    JobEnds
CHECK_DEADLOCK FALSE
