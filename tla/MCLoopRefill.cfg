SPECIFICATION Spec
CONSTANTS
    Names = {"p"}
    Shapes <- LoopRefill
    DeadCode = FALSE
    MaxBackJumps = 2
INVARIANTS
    ReleasesAreSound
