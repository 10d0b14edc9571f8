SPECIFICATION Spec
CONSTANTS
    Frames <- Answers
    MaxFrames = 2
INVARIANTS
    TypeOK
    FrameIsRead
    OneFrameOnly
    DamageDetected
    WrongByteDetected
    WrongByteOnWireDetected
CHECK_DEADLOCK FALSE
