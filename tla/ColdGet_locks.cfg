SPECIFICATION ColdFairSpec
CONSTANTS
    Threads = {c1, c2, c3}
    NoThread = nobody
    MaxFaults = 3
    LoadFaults = TRUE
    Modes <- AllModes
    NoProps = NoProps
    Buckets <- SomeBuckets
    Registered <- SomeProviders
INVARIANTS
    ColdTypeOK
    SuccessMeansLoadedAndShared
    NoLockLeftBehind
PROPERTIES
    EveryCallReturns
    FetchedOnce
    RefetchOnlyAfterUnlockedMiss
CHECK_DEADLOCK FALSE
