CONSTANTS
    ImageSize = 2
    Picture <- MonoPictures
    NoFrame = NoFrame
    TornHeader = TornHeader
    SeqLimit = 3
SPECIFICATION FairSpec
INVARIANTS
    TypeOK
    RecordIsShown
    RecordWasSent
    ReadyIsDurable
    ReadyAcceptsExecute
    RefreshIsOfOnePicture
PROPERTIES
    BusySettles
