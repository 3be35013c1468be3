SPECIFICATION Spec
CONSTANTS
    Blocks <- Faces
    FrameSize = 2
    SniffSize = 3
    MaxBlocks = 3
INVARIANTS
    ReadsWholeBlocks
    StatusIsHonest
    LocatorsHold
CHECK_DEADLOCK FALSE
