CONSTANTS
    s1 = s1
    s2 = s2
    StopIds = {s1}
    NoStop = NoStop
    OtherId = OtherId
    Planned = 1
    MaxSteps = 2
    MaxAttempts = 1
    OnUnknown = "reset"
    HomeAfterStop = TRUE
    VerifyFinal = FALSE
    DiscardLimit = 1
    MaxForward = 2
    MaxReset = 1
    MaxCrashes = 2
    MaxResumes = 2
    MaxStops = 0
SPECIFICATION Spec
INVARIANTS
    TableNeverRefuses
    FenceBackedByJournal
    OneResultPerEpisode
    CountsSurviveRestart
    RolloutsAgree
PROPERTIES
    ImplementsRun
CHECK_DEADLOCK FALSE
