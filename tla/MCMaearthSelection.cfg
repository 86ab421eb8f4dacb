SPECIFICATION Spec
CONSTANTS
    viewer = viewer
    ann = ann
    bob = bob
    overlong = overlong
    None = None
    Catalog <- MCCatalog
    Dids <- MCDids
    Viewer = viewer
    ProjectUris <- MCProjectUris
    ActivityUris <- MCActivityUris
    PostUris <- MCPostUris
    Misshapen <- MCMisshapen
    Floor = 0
    Skew = 1
    LastNow = 1
INVARIANTS
    TypeOK
    FoundOnce
    NobodyBreaksTheFeed
PROPERTIES
    MediatedFollowsAreSilent
    StrangersSpeakForThemselves
    NeverRedated
CHECK_DEADLOCK FALSE
