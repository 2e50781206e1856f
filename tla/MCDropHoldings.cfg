SPECIFICATION Spec
CONSTANTS
    BlockCount = 3
    Functions <- MCFunctions
    Values <- MCValues
INVARIANTS
    TypeOK
    DropsAreJudgedRightly
    SweepMergesAllEdges
PROPERTIES
    AnalysisEnds
