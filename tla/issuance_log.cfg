CONSTANTS
    d1 = d1
    d2 = d2
    NullEntry = NullEntry
    Data <- MCData
    MaxSize = 5
SPECIFICATION Spec
INVARIANTS
    TypeOK
    ServedEntriesAreLeaves
    CheckpointsStayConsistent
PROPERTY ImplementsTransparencyLog
