CONSTANTS
    W = 4
    Data = {}
    NullEntry = NullEntry
    NoExtensions = NoExtensions
    IndexBits = 2
    LogNumbers <- MCLogNumbers
    Contents <- MCContents
    Keys <- MCKeys
    FaultyKeys <- MCFaultyKeys
    KeyLists <- MCKeyLists
    Trusted <- MCTrusted
    Policies <- MCPolicies
    MaxActive = 2
    MaxSize <- MCMaxSize
    MaxLandmarks <- MCMaxLandmarks
    Ranges <- MCRanges
    MaxRevoked = 1
    Times = {0, 1}
SPECIFICATION Spec
INVARIANTS
    TypeOK
    OnlyLoggedEntriesAreAccepted
    GenuineCertificatesAreAccepted
    LandmarkCertificatesFollowTheirLandmark
    RevocationIsExact
