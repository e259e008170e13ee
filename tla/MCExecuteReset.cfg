CONSTANTS
    ImageSize = 1
    Picture <- WithMono
    NoFrame = NoFrame
    TornHeader = TornHeader
    SeqLimit = 4
    Target <- White
    Others <- Mono
    WorkLimit = 3
    JobLimit = 1
    Resets = TRUE
    OtherLimit = 4
    FaultLimit = 1
CHECK_DEADLOCK FALSE
SPECIFICATION LinkSpec
PROPERTIES
    OldCompleteIsNotSuccess
