CONSTANTS
    c1 = c1
    c2 = c2
    c3 = c3
    Prewarm = Prewarm
    Clients <- TwoClients
    Reapers <- NoReaper
    Floor = 1
    ElasticMax = 2
    MaxCalls = 1
    MaxFailures = 0
    MaxPrunes = 1
SPECIFICATION Spec
CHECK_DEADLOCK FALSE
INVARIANT LiveOnDisk
