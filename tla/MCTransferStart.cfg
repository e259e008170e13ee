CONSTANTS
    ImageSize = 2
    Picture = {p1}
    None = None
    TransferID = {1, 2, 3, 4, 5, 6}
    PrepareLimit = 1
    LateLimit = 1
    PowerLossLimit = 0
SPECIFICATION Spec
PROPERTIES
    StartDiscardsSession
CHECK_DEADLOCK FALSE
