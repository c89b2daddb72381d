CONSTANTS
    budget_breach = budget_breach
    high_blast_radius = high_blast_radius
    unlisted = unlisted
    Class <- ThreeClasses
    thresholds <- SomeThresholds
    optionalEnabled = FALSE
    MaxRequests = 2
    MainLoopTargets <- OneTarget
    MayCancel = TRUE
    AppendFails = TRUE
    SaveFails = TRUE
    OperatorModes <- OneMode
    MayCrash = TRUE
SPECIFICATION FairSpec
INVARIANTS TypeOK PausedUntilDecided NoLeakedPause
PROPERTIES ResolvedAsRecorded TimeoutHitsItsRequest EveryRequestDecided
