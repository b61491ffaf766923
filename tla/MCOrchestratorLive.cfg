CONSTANTS
    s1 = s1
    s2 = s2
    StopIds = {s1}
    NoStop = NoStop
    OtherId = OtherId
    Planned = 1
    MaxSteps = 1
    MaxAttempts = 1
    OnUnknown = "reset"
    HomeAfterStop = TRUE
    VerifyFinal = TRUE
    DiscardLimit = 1
    MaxForward = 1
    MaxReset = 1
    MaxCrashes = 0
    MaxResumes = 1
    MaxStops = 1
SPECIFICATION FairSpec
PROPERTIES
    StopHonoured
CHECK_DEADLOCK FALSE
