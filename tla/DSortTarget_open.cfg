SPECIFICATION TargetSpec
CONSTANTS
    Targets = {t1, t2}
    Stranger = stranger
    MaxFaults = 1
    LossyNetwork = TRUE
    StrayRequests <- AnyRequest
INVARIANTS
    TargetTypeOK
    SortRunsUnderLiveManager
PROPERTY
    ManagerMovesForward
SYMMETRY TargetSymmetry
CHECK_DEADLOCK FALSE
