SPECIFICATION Spec
CONSTANTS
    Functions <- StaleCopies
    Fields <- MCFields
    Kind <- MCKind
    Params <- LocalOwner
INVARIANT
    EveryBorrowIsValid
