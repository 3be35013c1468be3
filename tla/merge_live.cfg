SPECIFICATION MCSpec
CONSTANTS
    SeqSpace = 16
    None = None
    Pids = {1, 2}
    MaxLen = 3
    Records <- AllRecords
    Shapes <- SmallShapes
    Overlaps = FALSE
    LateOrigins = FALSE
    Keepalives = FALSE
    LateSyns = FALSE
PROPERTIES
    MergeCompletes
CHECK_DEADLOCK FALSE
