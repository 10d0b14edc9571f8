SPECIFICATION Spec
CONSTANTS
    Frames <- PhysicalUa
    MaxFrames = 1
INVARIANT
    PhysicalAddressIsRead
CHECK_DEADLOCK FALSE
