SPECIFICATION Spec
CONSTANTS
    Blocks <- Faces
    FrameSize = 2
    SniffSize = 3
    MaxBlocks = 3
INVARIANT CutsDoNotRaise
CHECK_DEADLOCK FALSE
