SPECIFICATION FairSpec
CONSTANTS
    Uris = {1, 2, 3}
    Feeds = {"hypercerts", "maearth"}
    Instants <- MCInstants
    Limits = {1, 2}
    FirstInstant = 1
    LastInstant = 4
    YearLength = 3
INVARIANTS
    TypeOK
    NothingSkipped
PROPERTIES
    ImplementsTraversal
    TraversalEnds
CHECK_DEADLOCK FALSE
