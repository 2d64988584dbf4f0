SPECIFICATION FairSpec
CONSTANTS
    Kind = {"scroll"}
    HighFrequency = {"scroll"}
    Terminal = {"resolved"}
    MaxFrequent = 1
    Capacity = 2
    PageLimit = 2
    MaxSteps = 2
    MaxRuns = 2
INVARIANTS
    NothingIsMissed
    RunsAreTold
    DecisionIsTold
PROPERTIES
    EndIsLearned
CHECK_DEADLOCK FALSE
