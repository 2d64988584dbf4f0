SPECIFICATION Spec
CONSTANTS
    u1 = u1
    w1 = w1
    w2 = w2
    v1 = v1
    p1 = p1
    Blank = Blank
    NoWork = NoWork
    Voice <- OneVoice
    Prose <- OneProse
    User <- OneUser
    Worker <- TwoWorkers
    MaxVersion = 3
SYMMETRY Workers
INVARIANTS
    HandedWasGranted
PROPERTIES
    ImplementsLedger
CHECK_DEADLOCK FALSE
