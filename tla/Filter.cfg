CONSTANTS
    NumUsers = 2
    PageSize = 2
    Concurrency = 1
    MaxReviews = 2
    MaxRetries = 1
SPECIFICATION FairSpec
CHECK_DEADLOCK FALSE
INVARIANTS VerdictsArePeoples AuditsExplain
PROPERTIES PeopleHavePriority StageEnds
