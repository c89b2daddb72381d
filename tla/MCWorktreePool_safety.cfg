CONSTANTS
    c1 = c1
    c2 = c2
    c3 = c3
    Prewarm = Prewarm
    Clients <- ThreeClients
    Reapers <- NoReaper
    Floor = 1
    ElasticMax = 2
    MaxCalls = 2
    MaxFailures = 1
    MaxPrunes = 0
SPECIFICATION UnsweptSpec
CHECK_DEADLOCK FALSE
SYMMETRY Symmetry
INVARIANTS TypeOK SlotsAccounted ElasticCeiling ExclusiveLease NoLostWakeup LiveOnDisk
PROPERTIES NothingAddedAfterClose ImplementsLedger
