CONSTANTS
    W = 4
    Data = {}
    NullEntry = NullEntry
    Blank = Blank
    NoMeta = NoMeta
    NoLandmarks = NoLandmarks
    EmptyCN = "none"
    CNs = {"none", "a"}
    CertLifetime = 3
    LandmarkLifetime = 1
    IndexBits = 4
    NoExtensions = NoExtensions
    LogNumber = 1
    Names <- MCNames
    IdOf <- MCIdOf
    Overlong = {Long}
    Typed = Typed
    Retyped = Retyped
    Other = Other
    Long = Long
    MaxActives = {1}
    MaxSize = 4
    MaxCosigners = 2
    Times = {0}
SYMMETRY Interchangeable
SPECIFICATION Spec
INVARIANTS
    StateFileLoads
    IssuedCertificatesKeepTheirVerdict
    HashesChangeOnlyByPruning
PROPERTIES
    HistoryIsOnlyErased
    IssuableStaysIssuable
