SPECIFICATION Spec
CONSTANTS
    MaxDepth = 8
    Values <- MCValues
    Aarqs <- MCAarqs
    Aares <- MCAares
    Elements <- MCElements
    Texts <- MCTexts
    Secrets <- MCSecrets
    Controls <- MCControls
    Codes <- MCCodes
    Tails <- MCTails
INVARIANT
    Sm4TestVector
CHECK_DEADLOCK FALSE
