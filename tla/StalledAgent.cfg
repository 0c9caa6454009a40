\* HTTP requests over an Agent that stalls.
SPECIFICATION MCSpec
CONSTANTS
    Subjects = {"edge"}
    f1 = f1
    f2 = f2
    Flows <- MCFlows
    MaxIngressInFlight = 1
    MaxConnections = 1
    Scenarios <- StalledHTTP
    a = a
    b = b
    c = c
    NoKey = NoKey
    Keys <- MCKeys
    Requests = {1, 2, 3, 4}
    QuietCaller = 1
    IngressLimit = 3
    RatePerTick = 3
    RateBurst = 3
    Window = 2
    MaxTrackedKeys = 1
    Loads <- MCLoads
    k1 = k1
    k2 = k2
    Conns = {k1, k2}
    Sessions = 2
    FlowPlans <- MCFlowPlans
PROPERTY StalledAgentFreesSlots
CHECK_DEADLOCK FALSE
