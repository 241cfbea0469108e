CONSTANTS
    MaxPrompts = 2
    MaxDeliveries = 1
    MaxChannels = 1
    MaxGeneration = 0
    MaxRecovered = 0
    Adapters = {FALSE}
    StopReasons = {"Completed", "Other"}
SPECIFICATION Spec
INVARIANT SuccessIsItsOwnTurn
CHECK_DEADLOCK FALSE
