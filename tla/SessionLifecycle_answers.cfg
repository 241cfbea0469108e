CONSTANTS
    MaxPrompts = 1
    MaxDeliveries = 2
    MaxChannels = 2
    MaxGeneration = 1
    MaxRecovered = 1
    Adapters = {FALSE}
    StopReasons = {"Completed"}
SPECIFICATION Spec
PROPERTIES
    QueuedIsResolved
    BusyEnds
    DeliveryIsAnswered
CHECK_DEADLOCK FALSE
