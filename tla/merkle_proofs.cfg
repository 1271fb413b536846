CONSTANTS
    W = 5
    MaxEntries = 9
SPECIFICATION Spec
INVARIANTS
    TypeOK
    SubtreeHashIsMTH
    RefusesExactlyBadRequests
    InclusionProofsStayValid
    InclusionProofsBindIndexToEntry
    ConsistencyProofsAreAccepted
    ConsistencyProofsBindSubtreeToRoot
    ValidityExactOnWords
    CoverIsTight
