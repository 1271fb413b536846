CONSTANTS
    W = 4
    Data = {}
    NullEntry = NullEntry
    Blank = Blank
    NoMeta = NoMeta
    NoLandmarks = NoLandmarks
    EmptyCN = "none"
    CertLifetime = 3
    LandmarkLifetime = 1
    Procs = {p}
    Absent = Absent
    Empty = Empty
    Garbled = Garbled
    Mixtures <- MCMixtures
    CNs = {"a"}
    Names = {"32473.100"}
    MaxActives = {1}
    Leftover = {2}
    OldKey = OldKey
    Times = {0}
    MaxSize = 3
    MaxKeys = 2
    MaxCrashes = 1
SPECIFICATION Spec
PROPERTY InitNeedsNoFile
