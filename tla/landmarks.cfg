CONSTANTS
    W = 5
    MaxActive = 2
    Lifetime = 3
    Spacing = 2
    MaxSize = 7
    MaxTime = 4
SPECIFICATION Spec
INVARIANTS
    TypeOK
    LandmarksAreOrdered
    EveryEntryHasItsLandmark
    ActiveLandmarksAreTheNewest
    LandmarkSubtreesAreDistinct
    RecommendedMaximumSuffices
PROPERTY EntriesKeepTheirLandmark
