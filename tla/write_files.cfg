SPECIFICATION MCSpec
CONSTANTS
    SeqSpace = 16
    None = None
    Pids = {0, 1, 2}
    Sids = {0, 1}
    SourceIds = {0, 1}
    DecoderIds = {0}
    Inputs = {0}
    MaxOffset = 3
    Header <- PlainHeader
    Producer <- AnyProducer
    Pair = {0, 1}
    MaxBlocks = 11
    Names <- FileScenarios
INVARIANTS
    SequencedFileVerifies
    FileReadsClean
    RecordsConserved
    CleanFileIsWhole
CHECK_DEADLOCK FALSE
