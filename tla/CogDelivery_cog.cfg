CONSTANTS
    MaxAttempts = 2
    Capacity = 2
    MaxOutside = 1
    Takeover = FALSE
    MaxClaims = 3
    MaxHostFence = 2
    MaxIncarnation = 2
SPECIFICATION Spec
INVARIANTS
    JournalLeads
    JournalBelievesCog
    AwaitingHasATurn
PROPERTIES
    NeverRedispatched
    AppendNeverRefused
    ResultIsReported
CHECK_DEADLOCK FALSE
