SPECIFICATION CandylaneSpec
CONSTANTS
    Targets <- MCTargets
    Values <- MCValues
    Recipes <- MCRecipes
    Items <- MCItems
    Profiles <- OneDotfile
    ProbeValues <- MCProbeValues
    AfterValues <- MCAfterValues
    InitialFiles <- MCOneFile
    InitialSources <- MCOneSource
    InitialPackages <- MCInitialPackages
    NoValue = NoValue
    NoRecipe = NoRecipe
    Absent = "absent"
    Null = "null"
    Ran = "ran"
    Offers = {"1.0"}
    Upgrade = "user's"
    MaxUndoAttempts = 1
    MaxOps = 3
    UnsafeTargets <- MCUnsafeTargets
    MaxEdits = 1
INVARIANTS
    CandylaneTypeOK
    OriginalsKept
    EffectsOnRecord
    CopiedBeforeOverwritten
    MachineInv
PROPERTY
    UndoRestores
