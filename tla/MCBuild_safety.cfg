CONSTANTS
    r1 = r1
    r2 = r2
    Runs <- TwoRuns
    MayCancel = TRUE
    MayShutdown = TRUE
    AppendFails = TRUE
    d1 = d1
    d2 = d2
    w1 = w1
    w2 = w2
    Calls <- TwoCalls
    Worktrees <- TwoWorktrees
    Width = 2
    Max = 2
SPECIFICATION FairBuildSpec
INVARIANTS TypeOK OneBuildAtATime OutcomeHonest DispatchTypeOK EveryLeaseReturns WorkersIsolated NilMeansAllCounted
PROPERTY BuildReturns
