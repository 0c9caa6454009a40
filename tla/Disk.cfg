\* Three commands and two crashes; three lock holders that may die or stall;
\* two runs of Setup; three operations on the settings file;
\* two metadata revisions over three ticks.
SPECIFICATION MCSpec
CONSTANTS
    Subjects = {"journal", "lock", "setup", "settings", "metadata"}
    Nil = Nil
    MaxCommands = 3
    MaxCrashes = 2
    StorageMayFail = TRUE
    Procs = {p1, p2, p3}
    NoFile = NoFile
    MayDie = {p1, p2, p3}
    MayStall = {p1, p2, p3}
    Payload <- MCPayload
    MaxRuns = 2
    Machines <- MCMachines
    MaxPairings = 2
    MaxOperations = 3
    Contents = {c1, c2, bad}
    BadContent = bad
    Generations = {g1, g2}
    MaxAge = 2
    Skew = 1
    MaxRevision = 2
    MaxTime = 3
    FaultSets <- MCFaultSets
INVARIANTS StateIsAtomic ExclusionUnlessStolen SetupIsTransaction SettingsPreserved LookupsAreCurrent
PROPERTIES DeadLockReclaimed RevisionsAdvance
CHECK_DEADLOCK FALSE
