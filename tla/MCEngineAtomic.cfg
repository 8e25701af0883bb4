SPECIFICATION Spec
CONSTANTS
    Targets <- MCTargets
    Values <- MCValues
    Recipes <- MCRecipes
    Items <- MCItems
    Profiles <- Pair
    ProbeValues <- MCProbeValues
    AfterValues <- MCAfterValues
    NoValue = NoValue
    NoRecipe = NoRecipe
    MaxUndoAttempts = 1
    MaxOps = 1
PROPERTY
    PullAtomic
