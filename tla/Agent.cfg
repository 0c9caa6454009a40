\* Two workers, three candidates; an operator, a recovery that may fail.
SPECIFICATION MCSpec
CONSTANTS
    Workers = 2
    Candidates = 3
    Scenarios <- MCScenarios
    Outcomes = {"revoked", "permanent", "resumeRejected", "transient"}
    Edits = {"valid", "incomplete", "pending", "corrupt"}
    RecoveryFails = TRUE
    Subjects = {"agent", "pairing"}
    c1 = c1
    c2 = c2
    Clients = {c1, c2}
    Sessions = 2
    Plans <- MCPlans
INVARIANTS OneRunner HealthIsTrue PairedKeyIsEnrolled PageInStep
PROPERTIES StatusIsTrue CancelsTakeEffect PrimaryReachesGateway EnrollmentsComplete
CHECK_DEADLOCK FALSE
