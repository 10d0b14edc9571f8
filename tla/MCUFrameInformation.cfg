SPECIFICATION Spec
CONSTANTS
    Frames <- ParameterUa
    MaxFrames = 1
INVARIANT
    UFrameInformation
CHECK_DEADLOCK FALSE
