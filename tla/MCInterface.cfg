SPECIFICATION Spec
CHECK_DEADLOCK FALSE
CONSTANTS
    MaxTypeParams = 2
    Modules <- AllModules
    Whole <- WholeFloats
    Scientific <- LargeFloats
    Unescaped <- EscapedStrings
INVARIANTS
    TypeOK
    RoundTrip
    OperatorsGroup
PROPERTIES
    ParserEnds
