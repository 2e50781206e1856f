SPECIFICATION Spec
CONSTANTS
    Functions <- MCBodies
    Fields <- MCFields
INVARIANTS
    TypeOK
    DeadIsNeverUsed
    LivenessIsExact
PROPERTIES
    LivenessEnds
