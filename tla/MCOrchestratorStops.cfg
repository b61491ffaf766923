CONSTANTS
    s1 = s1
    s2 = s2
    StopIds = {s1, s2}
    NoStop = NoStop
    OtherId = OtherId
    Planned = 1
    MaxSteps = 2
    MaxAttempts = 1
    OnUnknown = "reset"
    HomeAfterStop = FALSE
    VerifyFinal = TRUE
    DiscardLimit = 1
    MaxForward = 1
    MaxReset = 1
    MaxCrashes = 0
    MaxResumes = 1
    MaxStops = 2
SYMMETRY StopSymmetry
SPECIFICATION Spec
INVARIANTS
    NoChainBreaks
    StopNotLost
    StopWithinOneStep
    VerdictOfItsEpisode
CHECK_DEADLOCK FALSE
