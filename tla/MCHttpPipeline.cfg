SPECIFICATION Spec
CONSTANTS
    r1 = r1
    r2 = r2
    ann = ann
    bob = bob
    None = None
    Requests <- MCRequests
    Messages <- MCMessages
    Limit = 2
    Feeds = {"hypercerts", "maearth"}
SYMMETRY Symmetric
INVARIANTS
    TypeOK
    BodyLimitExact
    PagesAreTheCallers
    TokensSpentLast
    ErrorsCounted
CHECK_DEADLOCK FALSE
