SPECIFICATION Spec
CONSTANTS
    MaxHosts = 3
    TaskIds = {1, 2}
    Templates <- MCTemplates
    Latencies = {500}
    JettyLimits = {16}
    Imports <- MCImports
    Recipes <- MCRecipes
    DefaultRecipe <- Plain
    OldCheckpoints <- MCOldCheckpoints
    MaxRequests = 3
    MaxImage = 2
    MaxCheckpoints = 4
    RebuildWhileRunning = FALSE
INVARIANTS
    
    ResizeKeepsParameters
    
    RunsDescribedGuest
CHECK_DEADLOCK FALSE
