CONSTANTS
    TicketLimit = 2
    UserLimit = 4
SPECIFICATION Spec
INVARIANTS
    OneTransferAtATime
    OpenIsOwned
PROPERTIES
    FieldKeptDuringTransfer
    FreshCardOnly
    ReaderSettles
CHECK_DEADLOCK FALSE
