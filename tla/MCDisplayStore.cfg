CONSTANTS
    Frame = {f1, f2}
    NoFrame = NoFrame
    TornHeader = TornHeader
    GenHalf = 5
    RestageLimit = 3
SPECIFICATION Spec
INVARIANTS
    TypeOK
    RecordSurvivesReboot
    StagedSurvivesReboot
PROPERTY
    ImplementsRegister
