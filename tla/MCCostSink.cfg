SPECIFICATION Spec
CONSTANTS
    t1 = t1
    t2 = t2
    r1 = r1
    r2 = r2
    r3 = r3
    r4 = r4
    groupA = groupA
    groupB = groupB
    Threads <- MCThreads
    Records <- MCRecords
    Groups <- MCGroups
    GroupOf <- MCGroupOf
    Threshold = 2
    CapMultiple = 1
SYMMETRY MCSymmetry
INVARIANTS
    ReportedIsStored
PROPERTY
    FateIsFinal
