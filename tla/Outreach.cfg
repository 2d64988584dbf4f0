CONSTANTS
    v1 = v1
    v2 = v2
    Blank = Blank
    Voice <- OneVoice
    Prose <- NoProse
    NumUsers = 2
    PageSize = 2
    CommentLimit = 1
    DmLimit = 1
    MaxVersion = 2
    MaxRetries = 1
SPECIFICATION Spec
CHECK_DEADLOCK FALSE
INVARIANTS
    OneCallPerChannel SentWasApproved DmFollowsComment SendsAreSettled
PROPERTIES ApprovedAsSeen
