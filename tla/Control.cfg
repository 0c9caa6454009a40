\* Three connections of two devices; five signals through a queue of two.
SPECIFICATION MCSpec
CONSTANTS
    Subjects = {"registry", "exporter"}
    d1 = d1
    d2 = d2
    MaxConns = 3
    Scenarios <- MCScenarios
    Devices <- MCDevices
    MaxTunnelsPerDevice = 2
    HandshakeSlots = 2
    Producers = {p1, p2}
    StatusQueue = 2
    MaxSignals = 5
INVARIANTS RegistryInStep ResumedOnce SignalsKept
PROPERTIES SessionsEnd CloseStops
CHECK_DEADLOCK FALSE
