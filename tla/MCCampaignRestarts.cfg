CONSTANTS
    a1 = a1
    a2 = a2
    Nobody = Nobody
    Foreign = Foreign
    Nothing = Nothing
    Arms = {a1, a2}
    SegmentCount = 2
    ArmOf <- MCArmOf
    MaxFaults = 2
    MaxAttempts = 2
    MaxUnplanned = 1
    MaxInterventions = 0
SPECIFICATION HistSpec
INVARIANTS
    StopRuleHeeded
CHECK_DEADLOCK FALSE
