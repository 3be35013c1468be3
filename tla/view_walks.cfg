SPECIFICATION MCSpec
CONSTANTS
    SeqSpace = 16
    None = None
    Walkers = {1, 2}
    Views <- AllViews
INVARIANTS
    MeasuredIsStream
    RunsFavorOld
    AnswersAreOfTheStream
    UnitsArePlaced
    TimesAreOfAcceptedBytes
CHECK_DEADLOCK FALSE
