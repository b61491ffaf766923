CONSTANTS
    p1 = p1
    p2 = p2
    e1 = e1
    NoProc = NoProc
    Procs = {p1, p2}
    States = {"PREFLIGHT", "FORWARD_ACTIVE", "FAULT_LOCKED", "COMPLETED"}
    Episodes = {e1}
    Kinds = {"none", "home"}
    Physical = {"home"}
    Steps = {0, 1}
    MaxTx = 3
    MaxLives = 3
SPECIFICATION FairSpec
INVARIANTS
    PhysicalAtMostOnce
    MemoryIsDisk
    OutcomesAreTrue
    EpochFencesOldGrants
PROPERTIES
    RecoveryEnds
    WritersNeverCorrupt
    FaultLeftByOperator
    NothingReplayed
CHECK_DEADLOCK FALSE
