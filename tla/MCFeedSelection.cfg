SPECIFICATION Spec
CONSTANTS
    viewer = viewer
    evaluator = evaluator
    ann = ann
    bob = bob
    out = out
    labeler = labeler
    None = None
    Catalogs <- MCCatalogs
    Dids <- MCDids
    Viewer = viewer
    Evaluators = {evaluator}
    Labelers = {labeler}
    HasPolicy = TRUE
    AllowedQualities <- MCQualities
    IncludeUnrated = TRUE
    PairWindow = 2
    LastNow = 1
INVARIANTS
    TypeOK
    ActivityRepresentedOnce
    NewestAnswerDecides
PROPERTIES
    OutsidersHaveNoSay
CHECK_DEADLOCK FALSE
