CONSTANTS
    Card = {c1, c2}
    None = None
    Factory = {c1}
    Protected = {{}, {c1, c2}}
    Last = 3
    FaultLimit = 2
    OtherLimit = 1
SPECIFICATION FairSpec
INVARIANTS
    TypeOK
    HalfWrittenIsJournaled
    NoGarbageToRead
    NoOtherSessionInRecovery
    SuccessIsWritten
PROPERTIES
    OnlyPlannedBlocksRewritten
    RecoveryEnds
