CONSTANTS
    Budget = 1
    MaxReplay = 1
    MaxChunks = 2
    MaxTurns = 2
    Bases = {0, 1}
SPECIFICATION Spec
INVARIANTS
    NothingLiveLost
    ReplayIsDiscarded
    OutcomeIsTheTurns
PROPERTIES
    CatchesUp
CHECK_DEADLOCK FALSE
