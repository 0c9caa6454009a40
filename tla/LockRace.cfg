\* Two contenders find the lock of a dead owner.
SPECIFICATION MCSpec
CONSTANTS
    Subjects = {"lock"}
    Nil = Nil
    MaxCommands = 3
    MaxCrashes = 2
    StorageMayFail = TRUE
    Procs = {p1, p2, p3}
    NoFile = NoFile
    MayDie = {p1}
    MayStall = {}
    Payload <- MCPayload
    MaxRuns = 2
    Machines <- MCMachines
    MaxPairings = 2
    MaxOperations = 3
    Contents = {c1, c2, bad}
    BadContent = bad
    Generations = {g1, g2}
    MaxAge = 2
    Skew = 1
    MaxRevision = 2
    MaxTime = 3
    FaultSets <- MCFaultSets
INVARIANT MutualExclusion
CHECK_DEADLOCK FALSE
