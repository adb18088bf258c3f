\* No disk faults: the Ring's contract then promises progress (LiveRing
\* meets it, run ring_liveness), and every GET must end.
CONSTANTS
    UploadMax = 2
    DiskFaults = FALSE
    Panics = FALSE
    NoPut = NoPut
    p1 = p1
    p2 = p2
    g1 = g1
    g2 = g2
    d1 = d1
    Puts <- MCPuts
    Gets <- MCGets
    Deletes <- MCDeletes
SPECIFICATION Spec
PROPERTIES
    GetsEnd
