SPECIFICATION MCSpec
CONSTANTS
    SeqSpace = 16
    None = None
    Pids = {1, 2, 3}
    MaxLen = 3
    Records <- AllRecords
    Shapes <- ThreeShapes
    Overlaps = FALSE
    LateOrigins = TRUE
    Keepalives = FALSE
    LateSyns = FALSE
INVARIANTS
    TypeOK
    ClockMergeSorted
CHECK_DEADLOCK FALSE
