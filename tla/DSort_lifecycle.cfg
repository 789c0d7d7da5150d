SPECIFICATION FairSpec
CONSTANTS
    Targets = {t1, t2}
    Stranger = stranger
    ProxyNode = proxy
    MaxFaults = 1
    LossyNetwork = TRUE
    LossyReplies = FALSE
    EarlyClients = FALSE
    StrayRequests = {}
    ClientRequests <- StartRemove
INVARIANTS
    RemoveSuccessMeansGone
    RemoveOnlyAfterCleanup
PROPERTY
    JobEnds
CHECK_DEADLOCK FALSE
