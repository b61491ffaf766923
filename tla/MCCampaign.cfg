CONSTANTS
    a1 = a1
    a2 = a2
    Nobody = Nobody
    Foreign = Foreign
    Nothing = Nothing
    Arms = {a1, a2}
    SegmentCount = 3
    ArmOf <- MCArmOf
    MaxFaults = 2
    MaxAttempts = 2
    MaxUnplanned = 0
    MaxInterventions = 0
SPECIFICATION Spec
INVARIANTS
    TypeOK
    NeverRefused
    NothingMovesUnanswered
    StartedOnce
    RightPolicy
PROPERTIES
    AnswersTheQuestion
    ImplementsPlan
CHECK_DEADLOCK FALSE
