CONSTANTS
    d1 = d1
    d2 = d2
    c1 = c1
    c2 = c2
    e1 = e1
    b1 = b1
    b2 = b2
    NoBeat = NoBeat
    Drones = {d1, d2}
    Commands = {c1, c2, e1}
    Beats = {b1, b2}
    DroneOf <- MCDroneOf
    BeatDrone <- MCBeatDrone
    Faults = {"db", "net", "device", "server"}
SPECIFICATION Spec
INVARIANTS
    TypeOK
    AtMostOnce
    OnlyOwnCommands
    HandOver
PROPERTY ImplementsCommandOnce
