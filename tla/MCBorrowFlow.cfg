SPECIFICATION Spec
CONSTANTS
    Functions <- MCBodies
    Fields <- MCFields
    Kind <- MCKind
    Params <- MCParams
INVARIANTS
    TypeOK
    BorrowsAreValid
    SummaryIsSound
    NamesInSight
PROPERTY
    BorrowckEnds
