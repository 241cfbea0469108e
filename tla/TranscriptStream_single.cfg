CONSTANTS
    Marker = Marker
    Conns = {c1}
    MaxAttach = 2
    Cap = 2
    HighWater = 2
    MaxEvents = 4
    MaxGeneration = 1
SPECIFICATION Spec
INVARIANTS
    TypeOK
    SeqStable
    MemoryBounded
    FloorHeld
    PrefixMeetsResident
    NeverGappedMidStream
    NeverRepeats
PROPERTIES
    ImplementsFeed
    EvictedOnlyWhenWedged
    StopHonoured
    CatchesUp
CHECK_DEADLOCK FALSE
