SPECIFICATION Spec
CONSTANTS
    NumStages = 2
    CollectStage = 1
    FilterStage = 2
    OutreachStage = 0
    Account = {a1, a2}
    NoAccount = NoAccount
    platform = tiktok
    limit = 1
    Platform <- MCPlatform
    PlatformOf <- MCPlatformOf
    Limit <- MCLimit
    Job = {j1, j2}
    NoJob = NoJob
    PlatformOfJob <- MCPlatformOfJob
    Faults = {"crash", "browser"}
    MaxCheckpoints = 3
SYMMETRY MCSymmetry
INVARIANTS
    LeaseAccounting
    OneBrowserPerAccount
    RetryCovers
