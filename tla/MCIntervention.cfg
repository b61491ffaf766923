\* Stops, resumes and failed proofs against the loop.
SPECIFICATION Spec
CONSTANTS
    s1 = s1
    s2 = s2
    StopIds <- MCStops
    MaxSteps = 2
    MaxRequests = 1
    MaxEpisodes = 1
    MaxResumes = 2
SYMMETRY Symmetry
INVARIANTS
    HeldWhileJudged
    StopsMotion
    RearmedClean
PROPERTIES
    UnprovenForEver
CHECK_DEADLOCK FALSE
