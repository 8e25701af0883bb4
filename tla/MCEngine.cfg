SPECIFICATION FairSpec
CONSTANTS
    Targets <- MCTargets
    Values <- MCValues
    Recipes <- MCRecipes
    Items <- MCItems
    Profiles <- Pair
    ProbeValues <- MCProbeValues
    AfterValues <- MCAfterValues
    NoValue = NoValue
    NoRecipe = NoRecipe
    MaxUndoAttempts = 1
    MaxOps = 2
INVARIANTS
    TypeOK
    OutcomeHonest
    OneInFlight
    RetriesBounded
    IInv
PROPERTIES
    PullOkComplete
    RecoverOkSettles
    CommandsWindDown
    LogSpec
    CommandsReturn
