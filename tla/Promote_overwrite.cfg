SPECIFICATION PromoteSpec
CONSTANTS
    Callers = {c1, c2}
    near = near
    far = far
    a = a
    b = b
    NoFile = NoFile
    NoCksum = NoCksum
    MaxFaults = 0
    Sources <- TwoSources
    SameMpath <- NearOnly
    Contents <- TwoContents
    Original <- NearAFarB
    Params <- KeepDst
PROPERTY
    NoOverwriteUnlessAsked
CHECK_DEADLOCK FALSE
