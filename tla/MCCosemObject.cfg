SPECIFICATION Spec
CONSTANTS
    Classes <- AllClasses
    MaxSets = 2
INVARIANTS
    IndInv
    TypeOK
    AcknowledgedIsRead
