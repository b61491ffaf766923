CONSTANTS
    c1 = c1
    c2 = c2
    Ids = {c1, c2}
    NoId = NoId
    Sigterm = Sigterm
    RESULT_MAX_TRIES = 2
    Deadline = FALSE
    MaxLives = 2
    MaxFails = 1
SPECIFICATION FairSpec
INVARIANTS
    ResumedOnce
    CarriedOutOnce
    AnswersTrue
    OldStopsStayOld
PROPERTIES
    EveryCommandTaken
    SigtermEnds
CHECK_DEADLOCK FALSE
