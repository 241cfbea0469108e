CONSTANTS
    MaxPrompts = 2
    MaxDeliveries = 2
    MaxChannels = 2
    MaxGeneration = 1
    MaxRecovered = 1
    Adapters = {TRUE, FALSE}
    StopReasons = {"Completed"}
SPECIFICATION Spec
INVARIANTS
    TypeOK
    QueueWaitsForAChannel
    HandedOverOnce
    KeepsSubmissionOrder
    DeliveriesAccounted
PROPERTIES
    OneDeliveryAtATime
    ArchivedIsFrozen
CHECK_DEADLOCK FALSE
