SPECIFICATION FairSpec
CONSTANTS
    NumStages = 2
    CollectStage = 1
    FilterStage = 0
    OutreachStage = 2
    Account = {a1}
    NoAccount = NoAccount
    platform = tiktok
    limit = 1
    Platform <- MCPlatform
    PlatformOf <- MCPlatformOf
    Limit <- MCLimit
    Job = {j1}
    NoJob = NoJob
    PlatformOfJob <- MCPlatformOfJob
    Faults = {"crash", "shutdown", "browser", "gate", "stage"}
    MaxCheckpoints = 3
INVARIANTS
    DecisionAligned
    TerminalQuiescent
    NoOrphan
    WorkOwnsBrowser
    AnswerObeyed
PROPERTIES
    NoWorkAfterCancel
    ImplementsContract
    CancelCompletes
    TimedDecisionSettles
    AccountReturned
