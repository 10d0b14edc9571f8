SPECIFICATION FairSpec
CONSTANTS
    Parts = 2
    BufferParts = 3
    SeqMod = 3
    MaxRequests = 4
INVARIANTS
    IndInv
    TypeOK
    FrameOrder
    AnswersInOrder
    InStep
    SequenceNumbers
    DisconnectEndsSession
PROPERTIES
    ApiSpec
    CallReturns
    ConnectReadsItsAnswer
