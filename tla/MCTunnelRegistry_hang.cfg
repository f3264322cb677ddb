CONSTANTS
    m1 = m1
    m2 = m2
    m3 = m3
    NoManager = NoManager
    Endpoints <- OneEndpoint
    Batches <- NoBatches
    Managers = {m1}
    MAVLinkEnabled = FALSE
    StatsEnabled = TRUE
SPECIFICATION FairSpec
PROPERTY CancelStopsGoroutines
