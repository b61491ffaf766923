CONSTANTS
    p1 = p1
    p2 = p2
    k1 = k1
    k2 = k2
    NoProc = NoProc
    Procs = {p1, p2}
    Keys = {k1, k2}
    Versions = {"new"}
    Current = "new"
    Sizes = {1, 2}
    MaxBytes = 3
    MaxEntries = 2
    MaxWrites = 3
    MaxCrashes = 0
SYMMETRY Symmetry
SPECIFICATION Spec
INVARIANTS
    RefusedBeforeWriting
CHECK_DEADLOCK FALSE
