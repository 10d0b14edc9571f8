SPECIFICATION Spec
CONSTANTS
    Parts = 2
    BufferParts = 3
    SeqMod = 2
    MaxRequests = 2
INVARIANT
    ConnectNeedsUA
