CONSTANTS
    v1 = v1
    v2 = v2
    Blank = Blank
    Voice <- OneVoice
    Prose <- NoProse
    NumUsers = 2
    PageSize = 2
    CommentLimit = 2
    DmLimit = 1
    MaxVersion = 3
    MaxRetries = 0
SPECIFICATION Spec
CHECK_DEADLOCK FALSE
PROPERTIES ChangedIsSkipped
