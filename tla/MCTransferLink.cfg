CONSTANTS
    ImageSize = 2
    Picture = {p1, p2}
    None = None
    TransferID = {1, 2, 3, 4, 5, 6}
    PrepareLimit = 1
    LateLimit = 2
    PowerLossLimit = 2
SPECIFICATION FairSpec
INVARIANTS
    TypeOK
    BufferHoldsAnnounced
    AtMostOneFrameAhead
    OnlyUnknownTransferRefused
PROPERTIES
    ConfirmedImageIsCommitted
    UploadCompletes
CHECK_DEADLOCK FALSE
