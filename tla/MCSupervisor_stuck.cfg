CONSTANTS
    r1 = r1
    r2 = r2
    Runs <- TwoRuns
    MayCancel = TRUE
    MayShutdown = FALSE
    AppendFails = FALSE
SPECIFICATION Spec
INVARIANT ReturnsToIdle
