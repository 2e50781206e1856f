SPECIFICATION Spec
CONSTANTS
    Names = {"p", "q"}
    Shapes <- AllShapes
    DeadCode = FALSE
    MaxBackJumps = 2
INVARIANTS
    TypeOK
    UsesFindAnObject
    GuardsAreEmitted
    BodiesAreWellFormed
    ReleasesAreSound
PROPERTIES
    KeepsThePromise
