CONSTANTS
    p1 = p1
    p2 = p2
    k1 = k1
    k2 = k2
    NoProc = NoProc
    Procs = {p1, p2}
    Keys = {k1, k2}
    Versions = {"new", "old"}
    Current = "new"
    Sizes = {1, 2}
    MaxBytes = 3
    MaxEntries = 2
    MaxWrites = 2
    MaxCrashes = 1
SPECIFICATION FairSpec
INVARIANTS
    WithinLimit
    WritersKeepData
PROPERTIES
    ImplementsStore
    CallsEnd
CHECK_DEADLOCK FALSE
