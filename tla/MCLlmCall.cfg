\* Two calls on one client, two attempts each, every kind of route.
SPECIFICATION Spec
CONSTANTS
    Attempts = 2
    Factors <- MCFactors
    MaxCalls = 2
INVARIANTS
    SpendIsWhole
    DegradationIsRecorded
    FactsAreOwn
