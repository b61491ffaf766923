\* A stop of the operator taken for a failed proof.
SPECIFICATION Spec
CONSTANTS
    s1 = s1
    s2 = s2
    StopIds <- MCStops
    MaxSteps = 2
    MaxRequests = 1
    MaxEpisodes = 1
    MaxResumes = 0
SYMMETRY Symmetry
INVARIANT StopIsNoFailedProof
CHECK_DEADLOCK FALSE
