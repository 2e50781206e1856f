SPECIFICATION ArenaSpec
CONSTANTS
    BlockSize = 3
    Sizes = {1, 2, 4, 5}
    MaxBlocks = 5
    MaxHeld = 4
    ScratchUse = TRUE
INVARIANTS
    ArenaTypeOK
    RangesAreDisjoint
    RangesAreReserved
    LaterBlocksAreFree
