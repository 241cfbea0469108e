SPECIFICATION Spec
CONSTANTS
    Texts = {a, b}
    MaxPrompts = 1
    MaxChunks = 1
    MaxNotes = 11
    MaxGeneration = 1
    MaxLosses = 0
    MaxPendingEchoes = 64
INVARIANTS
    NeverShownTwice
CHECK_DEADLOCK FALSE
