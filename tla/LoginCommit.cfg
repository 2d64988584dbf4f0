CONSTANTS
    s1 = s1
    s2 = s2
    k1 = k1
    NoSession = NoSession
    Session <- OneSession
    AccountKey <- OneKey
    KeyOf <- KeyOfAll
    LoginFaults <- NoShutdown
SPECIFICATION Spec
CHECK_DEADLOCK FALSE
INVARIANTS CommitDecides
