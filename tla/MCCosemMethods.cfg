SPECIFICATION Spec
CONSTANTS
    MaxAdded = 4
    CountMod = 3
    Bytes = {0, 1, 2, 3, 200}
    MaxEdits = 4
INVARIANTS
    TypeOK
    NumberIsLength
    AppendedInOrder
    LoadObeysOrders
    ActiveIsWhatWasActivated
