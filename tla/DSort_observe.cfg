SPECIFICATION Spec
CONSTANTS
    Targets = {t1, t2}
    Stranger = stranger
    ProxyNode = proxy
    MaxFaults = 1
    LossyNetwork = TRUE
    LossyReplies = FALSE
    EarlyClients = TRUE
    StrayRequests = {}
    ClientRequests <- StartObserve
INVARIANTS
    TypeOK
    ArchivedAsDoneMeansAllDone
    ListAnswersDecode
SYMMETRY TargetSymmetry
CHECK_DEADLOCK FALSE
