SPECIFICATION FairSpec
CONSTANTS
    alice = alice
    bob = bob
    None = None
    Dids <- MCDids
    Requests <- MCRequests
    HypercertsKinds = {"cert.create", "update.create"}
    MaearthKinds = {"post", "repost"}
    Qualities = {"standard"}
    DefaultLimit = 1
    MaxLimit = 2
    MaxPage = 4
    MaxEvaluators = 1
    MaxKinds = 2
    MaxItems = 3
INVARIANTS
    TypeOK
PROPERTIES
    AdviceUndoesNothing
    AnswersAsPiped
    AdviceConverges
