\* A configuration that becomes valid while the supervisor starts to wait.
SPECIFICATION MCSpec
CONSTANTS
    Workers = 2
    Candidates = 3
    Scenarios <- MCScenarios
    Outcomes = {"revoked", "permanent", "resumeRejected", "transient"}
    Edits = {"valid", "incomplete", "pending", "corrupt"}
    RecoveryFails = TRUE
    Subjects = {"agent"}
    c1 = c1
    c2 = c2
    Clients = {c1, c2}
    Sessions = 2
    Plans <- MCPlans
PROPERTY ConfigTakesEffect
CHECK_DEADLOCK FALSE
