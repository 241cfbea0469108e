CONSTANTS
    MaxEvents = 3
    MaxPrompts = 2
    MaxLines = 6
    MaxFailures = 1
    MaxStops = 2
SPECIFICATION Spec
INVARIANTS
    AlwaysReadable
    PromisesSurvive
    DiskFollowsActor
CHECK_DEADLOCK FALSE
