CONSTANTS
    Marker = Marker
    Conns = {c1}
    MaxAttach = 1
    Cap = 2
    HighWater = 3
    MaxEvents = 4
    MaxGeneration = 0
SPECIFICATION Spec
PROPERTIES
    StalledSubscriberSeesEof
CHECK_DEADLOCK FALSE
