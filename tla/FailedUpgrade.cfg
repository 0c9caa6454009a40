\* An upgrade that fails while it replaces the files.
SPECIFICATION MCSpec
CONSTANTS
    Subjects = {"setup"}
    Nil = Nil
    MaxCommands = 3
    MaxCrashes = 2
    StorageMayFail = TRUE
    Procs = {p1, p2, p3}
    NoFile = NoFile
    MayDie = {p1, p2, p3}
    MayStall = {p1, p2, p3}
    Payload <- MCPayload
    MaxRuns = 1
    Machines <- UpgradeOnly
    MaxPairings = 2
    MaxOperations = 3
    Contents = {c1, c2, bad}
    BadContent = bad
    Generations = {g1, g2}
    MaxAge = 2
    Skew = 1
    MaxRevision = 2
    MaxTime = 3
    FaultSets <- MCFaultSets
INVARIANT FailedUpgradeKeepsTunnel
CHECK_DEADLOCK FALSE
