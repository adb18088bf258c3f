\* A PUT whose ring buffer cannot be allocated, over a path with a file or none.
CONSTANTS
    UploadMax = 1
    DiskFaults = FALSE
    Panics = TRUE
    NoPut = NoPut
    p1 = p1
    p2 = p2
    g1 = g1
    g2 = g2
    d1 = d1
    Puts <- MCPuts
    Gets <- MCGets
    Deletes <- MCDeletes
SYMMETRY MCSymmetry
SPECIFICATION Spec
PROPERTIES
    AllocFailKeepsFile
