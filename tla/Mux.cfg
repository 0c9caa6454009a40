\* Two handlers, an Agent with one stream slot; queues of one frame.
SPECIFICATION Spec
CONSTANTS
    h1 = h1
    h2 = h2
    Handlers <- MCHandlers
    AgentStreams = 1
    IDLimit = 4
    ControlSlots = 1
    DataSlots = 1
    WireSlots = 1
    Scenarios <- MCScenarios
INVARIANTS HealthyPeersNeverViolate EndsAreTrue
PROPERTIES AllReturn
CHECK_DEADLOCK FALSE
