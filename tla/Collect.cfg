SPECIFICATION Spec
CONSTANTS
    NumKeywords = 2
    u1 = u1
    u2 = u2
    v1 = v1
    v2 = v2
    c1 = c1
    c2 = c2
    User = {u1, u2}
    Video = {v1, v2}
    Comment = {c1, c2}
    None = None
    Seen <- MCSeen
    MaxKeywords = 2
    MaxVideos = 1
    MaxComments = 1
    MaxProfiles = 2
    MaxAuthorVideos = 1
    MaxObservations = 3
    MaxPages = 3
    Calls = {3, 4}
    MaxTime = 1
    MaxSteps = 2
INVARIANTS
    OwnBatchIsAccepted
    FailedLeavesNothing
    CutIsMarked
CHECK_DEADLOCK FALSE
