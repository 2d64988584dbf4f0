SPECIFICATION FairSpec
CONSTANTS
    p1 = p1
    r1 = r1
    r2 = r2
    NoProvider = NoProvider
    Provider <- OneProvider
    Chain <- OneChain
    Request <- TwoRequests
    Threshold = 2
    MaxAttempts = 2
    MaxConfig = 2
    MaxSlots = 2
    QueueMax = 1
INVARIANTS
    ProbesAreAnswered
    ClientsOutliveCalls
PROPERTIES
    OnlyProbesClose
    ReplacedClientsClose
CHECK_DEADLOCK FALSE
