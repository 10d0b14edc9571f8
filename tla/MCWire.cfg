SPECIFICATION Spec
CONSTANTS
    MaxDepth = 3
    Values <- MCValues
    Aarqs <- MCAarqs
    Aares <- MCAares
    Elements <- MCElements
    Texts <- MCTexts
    Secrets <- MCSecrets
    Controls <- MCControls
    Codes <- MCCodes
    Tails <- MCTails
INVARIANTS
    TypeOK
    WholeIsRead
    CutIsABeginning
    DecodedIsSound
    DamageRefused
    CounterCarries
CHECK_DEADLOCK FALSE
