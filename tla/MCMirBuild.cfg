SPECIFICATION Spec
CONSTANTS
    Programs <- MCPrograms
    MaxInstantiations = 4
    MaxParams = 3
    SummaryBits = 2
INVARIANTS
    TypeOK
    InstancesAreComplete
    CallersAreTold
PROPERTIES
    BuildEnds
CHECK_DEADLOCK FALSE
