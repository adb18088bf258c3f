\* A GET queued in the upload's channel when its Ring resolves.
CONSTANTS
    UploadMax = 1
    DiskFaults = FALSE
    Panics = FALSE
    NoPut = NoPut
    p1 = p1
    p2 = p2
    g1 = g1
    g2 = g2
    d1 = d1
    Puts <- MCPuts
    Gets <- MCGets
    Deletes <- MCDeletes
SYMMETRY MCSymmetry
SPECIFICATION Spec
INVARIANTS
    QueuedGetAttached
