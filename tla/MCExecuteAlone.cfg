CONSTANTS
    ImageSize = 1
    Picture <- WithMono
    NoFrame = NoFrame
    TornHeader = TornHeader
    SeqLimit = 4
    Target <- White
    Others <- Mono
    WorkLimit = 6
    JobLimit = 1
    Resets = TRUE
    OtherLimit = 0
    FaultLimit = 3
CHECK_DEADLOCK FALSE
SPECIFICATION FairLinkSpec
PROPERTIES
    CompletedIsShown
    FieldHeldDuringRefresh
    JobCompletes
