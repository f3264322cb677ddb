CONSTANTS
    d = d
    stopA = stopA
    startA = startA
    b1 = b1
    m1 = m1
    m2 = m2
    NoBeat = NoBeat
    NoManager = NoManager
    Drone = d
    Commands = {stopA, startA}
    Beats = {b1}
    Faults = {"net", "device", "server"}
    Endpoints <- OneEndpoint
    Managers = {m1, m2}
    MAVLinkEnabled = TRUE
    EventOf <- MCEventOf
    MaxLosses = 1
    MaxRestarts = 1
SPECIFICATION FairSpec
INVARIANTS
    TypeOK
    LastWordHolds
PROPERTIES
    PendingIsRun
    StopReaches
