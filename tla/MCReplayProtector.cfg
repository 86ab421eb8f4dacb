SPECIFICATION Spec
CONSTANTS
    alice = alice
    bob = bob
    j1 = j1
    j2 = j2
    j3 = j3
    BadJti = BadJti
    getFeed = getFeed
    getFeedSkeleton = getFeedSkeleton
    Issuers = {alice, bob}
    Jtis = {j1, j2, j3}
    Tokens <- MCTokens
    Methods <- MCMethods
    r1 = r1
    r2 = r2
    Requests = {r1, r2}
    Instants <- MCInstants
    MsPerSecond = 2
    MaxPerIssuer = 2
    MaxEntries = 3
SYMMETRY MCSymmetry
INVARIANTS
    TypeOK
    BooksKept
    CacheMirrorsUses
PROPERTIES
    AcceptedOnce
    ImplementsTokenUse
