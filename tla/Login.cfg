CONSTANTS
    s1 = s1
    s2 = s2
    k1 = k1
    NoSession = NoSession
    Session <- TwoSessions
    AccountKey <- OneKey
    KeyOf <- KeyOfAll
    LoginFaults <- LoginFaultKind
SPECIFICATION FairSpec
CHECK_DEADLOCK FALSE
INVARIANTS LeaseCoversBrowser ClosedIsQuiet
PROPERTIES CommitStartsLive EndStands SessionEnds
