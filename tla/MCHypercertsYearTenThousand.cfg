SPECIFICATION Spec
CONSTANTS
    Uris = {1, 2, 3}
    Feeds = {"hypercerts"}
    Instants <- MCAnyInstants
    Limits = {1, 2}
    FirstInstant = 1
    LastInstant = 4
    YearLength = 3
INVARIANTS
    ReturnedCursorAccepted
CHECK_DEADLOCK FALSE
