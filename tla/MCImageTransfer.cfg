SPECIFICATION Spec
CONSTANTS
    Identifiers = {old, new}
    Blocks = {a, b}
    MaxSize = 2
    MaxStored = 3
SYMMETRY Symmetry
INVARIANTS
    IndInv
    TypeOK
    HoldsWhatItAcknowledged
    ActivatedIsVerified
PROPERTIES
    FailureIsFinal
