SPECIFICATION Spec
CONSTANTS
    Catalogs <- MCCatalogs
    Dids <- MCDids
    SelfUri <- MCSelfUri
    SmallImageMax = 1
    LargeImageMax = 2
    SmallBlobMax = 2
    None = None
INVARIANTS
    TypeOK
    PageAnswered
    OnlyCheckedBlobs
PROPERTIES
    AnswerOfTwoMoments
