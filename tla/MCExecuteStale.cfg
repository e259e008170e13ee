CONSTANTS
    ImageSize = 1
    Picture <- WithMono
    NoFrame = NoFrame
    TornHeader = TornHeader
    SeqLimit = 4
    Target <- White
    Others <- Mono
    WorkLimit = 4
    JobLimit = 1
    Resets = FALSE
    OtherLimit = 2
    FaultLimit = 1
CHECK_DEADLOCK FALSE
SPECIFICATION FairLinkSpec
PROPERTIES
    JobCompletes
