CONSTANTS
    m1 = m1
    m2 = m2
    m3 = m3
    NoManager = NoManager
    Endpoints <- OneEndpoint
    Batches <- MCBatches
    Managers = {m1, m2}
    MAVLinkEnabled = FALSE
    StatsEnabled = TRUE
SPECIFICATION Spec
PROPERTY OnlyRunningAreSkipped
