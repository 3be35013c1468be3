SPECIFICATION MCSpec
CONSTANTS
    SeqSpace = 8
    None = None
    Pids = {0, 1}
    Sids = {0, 1}
    SourceIds = {0}
    DecoderIds = {0, 1}
    Inputs = {0, 1, 2, 3}
    MaxOffset = 5
    Header <- DerivedHeader
    Producer <- AnyDecoder
    InputFiles <- AnyInput
    Pair = {0, 1}
    MaxBlocks = 16
    Names = {"holed", "paired"}
INVARIANTS
    DecodeTypeOK
    ClosedStageCovers
    ReaderAgrees
    FillsAreHonest
    LedgerIsFile
    SeamsAreBreaks
CHECK_DEADLOCK FALSE
