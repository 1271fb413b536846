CONSTANTS
    ByteBits = 2
    W = 3
    HashSize = 2
    OffsetBytes = 2
    Exts <- MCExts
    Offsets <- MCOffsets
    Inclusions <- MCInclusions
    Signatures <- MCSignatures
    LogNumbers <- MCLogNumbers
    LandmarkNums <- MCLandmarkNums
    Fields <- MCFields
    Serials <- MCSerials
    MaxId = 6
    MaxParts = 3
    MaxDamaged = 24
SPECIFICATION Spec
INVARIANTS
    IdsPrintUniquely
    LogsAndLandmarksHaveTheirOwnIds
    ProofsSurviveExactlyWhenWellFormed
    ReadableMessagesAreCanonical
    CertificatesRebuildTheirEntry
CHECK_DEADLOCK FALSE
