SPECIFICATION Spec
CONSTANTS
    p1 = p1
    p2 = p2
    Processes <- MCProcesses
    Calls <- MCCalls
    Registry <- MCRegistry
    Mutes <- MCMutes
    LogChats <- MCLogChats
    DedupBuckets <- MCDedupBuckets
    Window = 2
    Faults = TRUE
    MaxCalls = 3
    MaxClock = 2
SYMMETRY MCSymmetry
VIEW MCView
CHECK_DEADLOCK FALSE
INVARIANTS
    LossIsLoud
    MarkerIsEarned
    OnePerWindow
    GateOpens
    CreditIsOwn
