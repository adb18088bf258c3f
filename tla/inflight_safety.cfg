\* Disk faults and panics on; two uploads of the path so that the second truncates
\* the file the first wrote.
CONSTANTS
    UploadMax = 2
    DiskFaults = TRUE
    Panics = TRUE
    NoPut = NoPut
    p1 = p1
    p2 = p2
    g1 = g1
    g2 = g2
    d1 = d1
    Puts <- MCPuts
    Gets <- MCGets
    Deletes <- MCDeletes
SYMMETRY MCSymmetry
SPECIFICATION Spec
INVARIANTS
    TypeOK
    CreatedExact
    EntryOwned
