SPECIFICATION Spec
CONSTANTS
    Programs <- MCPrograms
    Inputs <- MCInputs
    ByteValues = 4
    WordValues = 8
    SizeValues = 32
INVARIANTS
    TypeOK
    OperandsStay
    FoldIsExact
CHECK_DEADLOCK FALSE
