CONSTANTS
    ImageSize = 2
    Picture <- GrayPictures
    NoFrame = NoFrame
    TornHeader = TornHeader
    SeqLimit = 4
SPECIFICATION Spec
INVARIANTS
    RecordIsShown
    RefreshIsOfOnePicture
