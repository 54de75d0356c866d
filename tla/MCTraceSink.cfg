SPECIFICATION TraceSpec
CONSTANTS
    t1 = t1
    t2 = t2
    r1 = r1
    r2 = r2
    r3 = r3
    groupA = groupA
    b1 = b1
    b2 = b2
    Threads <- MCThreads
    Rows <- MCRows
    Groups <- MCGroups
    GroupOf <- MCGroupOf
    Blobs <- MCBlobs
    BlobsOf <- MCBlobsOf
    Size <- MCSize
    Threshold = 2
    BlobFlushBytes = 1
    CapMultiple = 1
    Faults = TRUE
SYMMETRY MCSymmetry
VIEW MCView
INVARIANTS
    BlobLossIsCounted
    BlobsGoFirst
    PointerShowsLoss
