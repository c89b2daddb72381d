CONSTANTS
    c1 = c1
    c2 = c2
    Prewarm = Prewarm
    Clients <- TwoClients
    Reapers <- OneReaper
    Floor = 1
    ElasticMax = 1
    MaxCalls = 1
    MaxFailures = 1
    MaxPrunes = 0
    Overrides <- SomeOverrides
    Budgets <- FewBudgets
    MaxChanges = 2
    MaxCostFailures = 1
    MaxMoves = 2
    a1 = a1
    a2 = a2
    s1 = s1
    s2 = s2
    Appenders = {a1, a2}
    Subscriptions = {s1, s2}
    EventType = {"x"}
    FilterTypes <- SomeFilters
    BufferSize = 1
    MaxRows = 2
    m1 = m1
    m2 = m2
    Mergers = {m1, m2}
    MergeRequest = {"r1"}
    Branch = {"main"}
    TargetBranch <- OneTarget
    Candidates <- TwoCandidates
    GitMayFail = TRUE
    MayRestart = FALSE
    DoctrineName = {"max-scope", "default", "capa-firewall"}
    TierCount = 3
    PartialStopBefore = 2
    MaxCount = 4
    w1 = w1
    w2 = w2
    t1 = t1
    t2 = t2
    Worker = {w1}
    Task = {t1, t2}
    DispatchNames = {TRUE, FALSE}
    CorruptionBudget = 1
    MaxEvents = 1
    MaxLost = 1
    f1 = f1
    f2 = f2
    Callers = {f1, f2}
    Probers = {"scheduler", "operator"}
    Provider = {"p1"}
    Cascade <- OneProvider
    FailureThreshold = 2
    MaxLimited = 1
    u1 = u1
    u2 = u2
    Users = {u1, u2}
    MaxSessions = 2
    StoreFails = FALSE
    l1 = l1
    l2 = l2
    Lead = {l1}
    Child = {"a", "b"}
    MaxRuns = 1
    MaxRestarts = 0
    e1 = e1
    e2 = e2
    Emitters = {e1, e2}
    BatchSize = 2
    MaxAuditRows = 0
    MaxBoots = 0
    r1 = r1
    r2 = r2
    Requests = {r1}
    PerRequest = 5
    MaxBatch = 2
    Spenders = {"x"}
    Recorders = {"y"}
    Span <- TwoSpans
    EmitBuffer = 1
    MaxCosts = 0
    MaxNow = 0
    MaxReboots = 0
    Senders = {"s"}
    Closers = {"k1"}
    MaxFrames = 2
    MaxSends = 1
    SendSize = 1
    RecvSize = 1
    Reviewers = {"x"}
    Opinion <- TwoOpinions
    Cadence <- TwoLayers
    SubscriptionSize = 1
    MaxHraClock = 2
    b1 = b1
    b2 = b2
    EmbedCalls = {b1, b2}
    Chunks <- TwoSizes
    Shape <- TwoShapes
    PipeLines = 2
    DetectorWindow = 2
    MaxStdout = 2
    MaxStderr = 1
    MaxSent = 2
SPECIFICATION FairServicesSpec
CHECK_DEADLOCK FALSE
PROPERTIES CallsReturn LoopsSettle
