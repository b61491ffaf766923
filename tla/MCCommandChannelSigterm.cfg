CONSTANTS
    c1 = c1
    c2 = c2
    Ids = {c1, c2}
    NoId = NoId
    Sigterm = Sigterm
    RESULT_MAX_TRIES = 2
    Deadline = FALSE
    MaxLives = 1
    MaxFails = 0
SPECIFICATION Spec
PROPERTIES
    OnlyTypedStopsEnd
CHECK_DEADLOCK FALSE
