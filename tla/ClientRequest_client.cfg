CONSTANTS
    Calls = {c1, c2}
    Fires = {f1}
SPECIFICATION Spec
INVARIANTS
    RoutedToItsCaller
    FiredIsWritten
PROPERTIES
    CallEnds
CHECK_DEADLOCK FALSE
