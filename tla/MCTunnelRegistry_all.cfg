CONSTANTS
    m1 = m1
    m2 = m2
    m3 = m3
    NoManager = NoManager
    Endpoints <- OneEndpoint
    Batches <- MCBatches
    Managers = {m1, m2, m3}
    MAVLinkEnabled = TRUE
    StatsEnabled = TRUE
SPECIFICATION AnsweredSpec
INVARIANTS
    TypeOK
    RegistryExact
    ReturnedMeansGone
PROPERTIES
    NoAddAfterWait
    CancelledEnds
    ShutdownCompletes
