SPECIFICATION MCSpec
CONSTANTS
    SeqSpace = 8
    None = None
    Pids = {0, 1}
    Sids = {0}
    SourceIds = {0, 1}
    DecoderIds = {0, 1}
    Inputs = {0}
    MaxOffset = 3
    Headers = {}
    Blocks <- AllBlocks
    MaxBlocks = 11
    Names <- AllNames
INVARIANTS
    DependentsIsolated
    CoverageFromIndex
    NotesAgree
    VerdictIsWholeFile
    StrictIsSilent
CHECK_DEADLOCK FALSE
