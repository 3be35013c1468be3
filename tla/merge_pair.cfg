SPECIFICATION MCSpec
CONSTANTS
    SeqSpace = 16
    None = None
    Pids = {1, 2}
    MaxLen = 3
    Records <- AllRecords
    Shapes <- PairShapes
    Overlaps = FALSE
    LateOrigins = FALSE
    Keepalives = FALSE
    LateSyns = FALSE
INVARIANTS
    NoRecordAfterItsAck
    MergeVerifies
    StallsOnlyOnCycles
PROPERTIES
    ImplementsCausalOrder
CHECK_DEADLOCK FALSE
