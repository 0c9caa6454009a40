\* Commands of which one crashes.
SPECIFICATION MCSpec
CONSTANTS
    Subjects = {"journal"}
    Nil = Nil
    MaxCommands = 3
    MaxCrashes = 1
    StorageMayFail = FALSE
    Procs = {p1, p2, p3}
    NoFile = NoFile
    MayDie = {p1, p2, p3}
    MayStall = {p1, p2, p3}
    Payload <- MCPayload
    MaxRuns = 2
    Machines <- MCMachines
    MaxPairings = 2
    MaxOperations = 3
    Contents = {c1, c2, bad}
    BadContent = bad
    Generations = {g1, g2}
    MaxAge = 2
    Skew = 1
    MaxRevision = 2
    MaxTime = 3
    FaultSets <- MCFaultSets
INVARIANT JournalRecoverable
CHECK_DEADLOCK FALSE
