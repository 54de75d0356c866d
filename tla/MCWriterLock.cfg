SPECIFICATION FairSpec
CONSTANTS
    w1 = w1
    w2 = w2
    Writers <- MCWriters
    Offset <- MCOffset
    Skew = 1
    TTL = 2
    NoLock = NoLock
    Malformed = Malformed
    Faults = TRUE
    MaxClock = 4
INVARIANTS
    OneProtectedWriter
PROPERTIES
    RefusalIsEarned
    AttemptEnds
