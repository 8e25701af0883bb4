SPECIFICATION CandylaneSpec
CONSTANTS
    Targets <- MCTargets
    Values <- MCValues
    Recipes <- MCRecipes
    Items <- MCItems
    Profiles <- OneDotfile
    ProbeValues <- MCProbeValues
    AfterValues <- MCAfterValues
    InitialFiles <- MCInitialFiles
    InitialSources <- MCInitialSources
    InitialPackages <- MCInitialPackages
    NoValue = NoValue
    NoRecipe = NoRecipe
    Absent = "absent"
    Null = "null"
    Ran = "ran"
    Offers = {"1.0"}
    Upgrade = "user's"
    MaxUndoAttempts = 1
    MaxOps = 1
    UnsafeTargets <- MCUnsafeTargets
    MaxEdits = 0
PROPERTY
    DroppedBackupsRestored
