CONSTANTS
    m1 = m1
    m2 = m2
    Mergers = {m1, m2}
    MergeRequest = {"r1"}
    Branch = {"main"}
    TargetBranch <- OneTarget
    Candidates <- TwoCandidates
    GitMayFail = FALSE
    MayRestart = FALSE
SPECIFICATION MergeSpec
CHECK_DEADLOCK FALSE
INVARIANT RevertedLeavesTarget
