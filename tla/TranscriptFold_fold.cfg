SPECIFICATION Spec
CONSTANTS
    Texts = {a, b}
    MaxPrompts = 2
    MaxChunks = 2
    MaxNotes = 11
    MaxGeneration = 1
    MaxLosses = 1
    MaxPendingEchoes = 1
INVARIANTS
    AnswersOnceInOrder
    EveryPromptIsShown
    ThinkingEnds
SYMMETRY TextSymmetry
CHECK_DEADLOCK FALSE
