CONSTANTS
    Marker = Marker
    Conns = {c1, c2}
    MaxAttach = 2
    Cap = 2
    HighWater = 3
    MaxEvents = 4
    MaxGeneration = 1
SPECIFICATION Spec
INVARIANTS
    NoSilentGap
CHECK_DEADLOCK FALSE
