CONSTANTS
    budget_breach = budget_breach
    high_blast_radius = high_blast_radius
    unlisted = unlisted
    Class <- ThreeClasses
    thresholds <- SomeThresholds
    optionalEnabled = FALSE
    MaxRequests = 2
    MainLoopTargets <- AllTargets
    MayCancel = TRUE
    AppendFails = FALSE
    SaveFails = FALSE
    OperatorModes <- NoMode
    MayCrash = FALSE
SPECIFICATION Spec
INVARIANT WaitingIsAnswerable
