CONSTANTS
    a = a
    b = b
    Tunnels = {a, b}
    NoTunnels = NoTunnels
    DefaultTunnels = DefaultTunnels
    NoConfig = NoConfig
    Faults = {"db", "net"}
SPECIFICATION AnsweredSpec
INVARIANTS
    StoredLoads
    FileLoads
    RunningIsValid
    RunsKnownTunnels
PROPERTY InstalledRuns
