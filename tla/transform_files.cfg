SPECIFICATION MCSpec
CONSTANTS
    SeqSpace = 16
    None = None
    Sids = {0}
    Pids = {0, 1}
    SourceIds = {0, 1}
    DecoderIds = {0}
    Inputs = {0, 1}
    MaxOffset = 8
    Header <- OutputHeader
    Producer <- NoProducer
    Pair = {0, 1}
    MaxBlocks = 40
    Pairings <- MergePairings
    DecodedFiles <- RewriteInputs
INVARIANTS
    MergeKeepsPlaces
    TransformCovers
    CoverageCheckIsExact
    SeamsAreDeclared
    ResolvesToInput
CHECK_DEADLOCK FALSE
