CONSTANTS
    ImageSize = 1
    Picture <- WithBoth
    NoFrame = NoFrame
    TornHeader = TornHeader
    SeqLimit = 4
    Target <- White
    Others <- Both
    WorkLimit = 3
    JobLimit = 2
    Resets = FALSE
    OtherLimit = 4
    FaultLimit = 1
CHECK_DEADLOCK FALSE
SPECIFICATION LinkSpec
PROPERTIES
    CompletedIsRecorded
    CleanedIsShown
