SPECIFICATION PromoteSpec
CONSTANTS
    Callers = {c1, c2, c3}
    near = near
    far = far
    a = a
    b = b
    NoFile = NoFile
    NoCksum = NoCksum
    MaxFaults = 3
    Sources <- TwoSources
    SameMpath <- NearOnly
    Contents <- TwoContents
    Original <- NearAFarB
    Params <- AllParams
INVARIANTS
    PromoteTypeOK
    SourceGoneMeansPromoted
    WorkFileLeftOnlyByMismatch
PROPERTY
    SourceKeptUnlessAsked
SYMMETRY CallerSymmetry
CHECK_DEADLOCK FALSE
